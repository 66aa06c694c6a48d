------------------------------- MODULE MCDml -------------------------------
(* Two SObjects of one object, one alone (next to a null) and both.      *)
EXTENDS Dml

CONSTANTS x1, r1, r2, u1

MCPrefix == [s \in {x1} |-> "a0X"]
MCType   == [r \in {r1, r2} |-> x1]
MCLists  == {<<r1, Hole>>, <<r2, r1>>}
MCDenials == {{"create", "edit", "delete"}}
MCEvents == {<<"before", "insert">>, <<"after", "insert">>, <<"before", "update">>}

(* What OneObjectPerId and AfterSeesItsRows need of the lists. *)
ASSUME ListsArePaired == Paired /\ NoClash
=============================================================================
