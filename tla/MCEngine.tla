------------------------------ MODULE MCEngine ------------------------------
(* Two custom objects with one initial, so with one prefix; the first has  *)
(* metadata, the second gets its table on first use.  The literal id is    *)
(* one the generator will issue.                                           *)
EXTENDS Engine

CONSTANTS x1, x2, e1

MCPrefix == [s \in {x1, x2} |-> "a0X"]
MCLiterals == {<<"a0X", 2>>}
=============================================================================
