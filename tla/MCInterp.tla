------------------------------ MODULE MCInterp ------------------------------
(* A test class without a modifier, a class with sharing and one that      *)
(* inherits; one user other than the default one.                          *)
EXTENDS Interp

CONSTANTS plain, strict, heir

MCSharing == [c \in {plain, strict, heir} |->
                CASE c = plain -> "none" [] c = strict -> "with"
                  [] c = heir -> "inherited"]
=============================================================================
