------------------------------- MODULE Lexical -------------------------------
(***************************************************************************)
(* What a name of an Apex program means: the variable declared nearest      *)
(* around it in its own method, or else the field of the object the method  *)
(* belongs to, or else the static variable.  Code sees nothing of the code  *)
(* that called it but the argument.                                         *)
(***************************************************************************)
EXTENDS Naturals, SequencesExt, FiniteSetsExt

CONSTANTS
  Names,    \* of variables, parameters and fields
  Objects, None,
  Fields,   \* the fields of each object: its class has declared them
  Statics,  \* names of static variables
  Values, Unset

VARIABLES
  scopes,   \* one function from names to values for each block in progress
  frames,   \* the methods in progress: their object, or None, and the first of their scopes
  fields,   \* of each object
  statics

lexVars == <<frames, fields, statics, scopes>>

Data == Values \cup {Unset}
Here == Last(frames)
Empty == [m \in {} |-> Unset]
Define(scope, n, v) == [m \in DOMAIN scope \cup {n} |-> IF m = n THEN v ELSE scope[m]]

\* The scopes of the method in progress that declare n.
Declaring(n) == {i \in Here.first .. Len(scopes) : n \in DOMAIN scopes[i]}
Own(n) == Here.this # None /\ n \in Fields[Here.this]

\* The program compiles: every name it uses is one of these.
Visible(n) == Declaring(n) # {} \/ Own(n) \/ n \in Statics

Lookup(n) ==
  IF Declaring(n) # {} THEN scopes[Max(Declaring(n))][n]
  ELSE IF Own(n) THEN fields[Here.this][n] ELSE statics[n]

\* An expression is a value or a name.
Says(e) == e \in Names => Visible(e)
Meaning(e) == IF e \in Names THEN Lookup(e) ELSE e
-----------------------------------------------------------------------------
LexInit ==
  /\ scopes = <<Empty, Empty, Empty>>
  /\ \E o \in Objects \cup {None} : frames = <<[this |-> o, first |-> 2]>>
  /\ fields = [o \in Objects |-> [n \in Fields[o] |-> Unset]]
  /\ statics = [n \in Statics |-> Unset]

\* int n = e;
Declare(n, e) ==
  /\ UNCHANGED <<frames, fields, statics>>
  /\ Declaring(n) = {} /\ Says(e)
  /\ scopes' = [scopes EXCEPT ![Len(scopes)] = Define(@, n, Meaning(e))]

\* n = e;
Assign(n, e) ==
  /\ UNCHANGED frames /\ Says(e)
  /\ \/ /\ UNCHANGED <<fields, statics>>
        /\ Declaring(n) # {}
        /\ scopes' = [scopes EXCEPT ![Max(Declaring(n))][n] = Meaning(e)]
     \/ /\ UNCHANGED <<statics, scopes>>
        /\ Declaring(n) = {} /\ Own(n)
        /\ fields' = [fields EXCEPT ![Here.this][n] = Meaning(e)]
     \/ /\ UNCHANGED <<fields, scopes>>
        /\ Declaring(n) = {} /\ ~Own(n) /\ n \in Statics
        /\ statics' = [statics EXCEPT ![n] = Meaning(e)]

\* o.n = e; and C.n = e;
SetField(o, n, e) ==
  /\ n \in Fields[o]
  /\ UNCHANGED <<frames, statics, scopes>> /\ Says(e)
  /\ fields' = [fields EXCEPT ![o][n] = Meaning(e)]
SetStatic(n, e) ==
  /\ n \in Statics
  /\ UNCHANGED <<frames, fields, scopes>> /\ Says(e)
  /\ statics' = [statics EXCEPT ![n] = Meaning(e)]

\* A method or a constructor of o, or of no object, with parameter p.
Call(o, p, e) ==
  /\ UNCHANGED <<fields, statics>>
  /\ frames' = Append(frames, [this |-> o, first |-> Len(scopes) + 1])
  /\ Says(e) /\ scopes' = scopes \o <<Define(Empty, p, Meaning(e)), Empty>>

Return ==
  /\ Len(frames) > 1
  /\ scopes' = SubSeq(scopes, 1, Here.first - 1) /\ frames' = Front(frames)
  /\ UNCHANGED <<fields, statics>>

Open == UNCHANGED <<frames, fields, statics>> /\ scopes' = Append(scopes, Empty)
Close ==
  /\ UNCHANGED <<frames, fields, statics>>
  /\ Len(scopes) > Here.first + 1 /\ scopes' = Front(scopes)

LexNext ==
  \/ Return \/ Open \/ Close
  \/ \E n \in Names, e \in Names \cup Values : Declare(n, e) \/ SetStatic(n, e)
  \/ \E n \in Names, e \in Names \cup Values, o \in Objects : SetField(o, n, e)
  \/ \E n \in Names, e \in Names \cup Values : Assign(n, e)
  \/ \E n \in Names, e \in Names \cup Values, o \in Objects \cup {None} : Call(o, n, e)

LexSpec == LexInit /\ [][LexNext]_lexVars
=============================================================================
