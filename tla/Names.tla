-------------------------------- MODULE Names --------------------------------
(***************************************************************************)
(* How the interpreter finds what a name stands for (env.go; calls, names   *)
(* and assignments in interpreter.go).  The scope of a method lies on that  *)
(* of the code that calls it, so that one chain holds every variable of     *)
(* every method in progress; a field written by its bare name is written to *)
(* the object and to the chain.  Names are compared without their case when *)
(* they are looked up and kept as they are spelt where they are defined: a  *)
(* name here is one up to case, and a scope holds, of each name it has, one *)
(* value for each of its spellings.  Failures that cut a method off are     *)
(* Interp's.                                                                *)
(***************************************************************************)
EXTENDS Naturals, SequencesExt, FiniteSetsExt

CONSTANTS
  Names, Spellings, Objects, None, Fields, Statics, Values, Unset,
  ClassNames, \* the names that are those of classes too
  Known,      \* what the bare name of a class gives, a text
  MaxCalls, MaxBlocks, MaxVariables \* bounds: methods in progress, blocks open in them besides
                                    \* their bodies, variables in scopes

\* The key of a static variable in the root scope.
Key(n) == "C." \o n

\* A key has a point in it, a name has none.
ASSUME NamesAssumption ==
  /\ Fields \in [Objects -> SUBSET Names] /\ None \notin Objects
  /\ Statics \subseteq Names /\ Spellings # {}
  /\ \A n \in Statics : Key(n) \notin Names /\ \A m \in Statics : Key(m) = Key(n) => m = n

VARIABLES
  env,      \* the chain of scopes, the root first; of a name in a scope, the value of each spelling
  frames,   \* the methods in progress, with thisObj and the first of their scopes
  fields,   \* of each object
  declared, \* history: the names each scope declares, the others having been written only
  confused  \* history: what the program did that makes a name stand for something else

nameVars == <<env, frames, fields, declared, confused>>

Here == Last(frames)
This == Here.this
Empty == [m \in {} |-> Unset]
Put(f, x, v) == [y \in DOMAIN f \cup {x} |-> IF y = x THEN v ELSE f[y]]
\* Parameters have a scope of their own, and keys are only ever set, so that no other spelling
\* comes beside theirs: one stands for all.
Somehow == CHOOSE s \in Spellings : TRUE
\* Environment.Define, under the very spelling.
Define(scope, n, s, v) == Put(scope, n, Put(IF n \in DOMAIN scope THEN scope[n] ELSE Empty, s, v))
-----------------------------------------------------------------------------
\* Environment.Get and Set: of the spellings of a name in a scope, either may be met first.
Having(n) == {i \in DOMAIN env : n \in DOMAIN env[i]}
SetIn(i, n, ways, v) ==
  IF n \in DOMAIN env[i] THEN {[env EXCEPT ![i][n][t] = v] : t \in DOMAIN env[i][n]}
  ELSE {[env EXCEPT ![i] = Define(@, n, s, v)] : s \in ways}
M_Set(n, v) == SetIn(Len(env), n, Spellings, v)
Set(n, v) == SetIn(IF Having(n) # {} THEN Max(Having(n)) ELSE Len(env), n, Spellings, v)

HasField(n) == This # None /\ n \in Fields[This]

\* VisitIdPrimary.
M_Reads(n) ==
  IF HasField(n) THEN {fields[This][n]}
  ELSE IF Having(n) # {} THEN Range(env[Max(Having(n))][n])
  ELSE {IF n \in ClassNames THEN Known ELSE Unset}
Reads(n) ==
  IF Having(n) # {} THEN Range(env[Max(Having(n))][n])
  ELSE {IF n \in ClassNames THEN Known
        ELSE IF HasField(n) THEN fields[This][n] ELSE Unset}

Results(e) == IF e \in Names THEN Reads(e) ELSE {e}
-----------------------------------------------------------------------------
\* What a program may say: it compiles, so a name is declared in its method, or a field of
\* the object the method belongs to, or a static variable.
Declares(n) == \E i \in Here.first .. Len(env) : n \in declared[i]
Own(n) == Here.owner # None /\ n \in Fields[Here.owner]
Visible(n) == Declares(n) \/ Own(n) \/ n \in Statics
Says(e) == e \in Names => Visible(e)

\* A bare name of the program that the interpreter takes for another thing: that of a
\* static variable, or of a field named like a class.
Mistaken(n) ==
  {w \in {"static", "class"} :
     /\ ~Declares(n)
     /\ IF w = "static" THEN ~Own(n) ELSE Own(n) /\ n \in ClassNames /\ Having(n) = {}}
MistakenIn(e) == IF e \in Names THEN Mistaken(e) ELSE {}

\* A call finds names of the callee's fields on the chain: variables of the code around it,
\* or fields of another object, or of this one.
Captured(o) ==
  IF o # None /\ \E n \in Fields[o] : \E i \in Having(n) : n \in declared[i] \/ o # This
  THEN {"captured"} ELSE {}

\* A scope has n under another spelling, as it was written there.
Respelt(n, s) ==
  IF n \in DOMAIN Last(env) /\ s \notin DOMAIN Last(env)[n] THEN {"respelt"} ELSE {}
-----------------------------------------------------------------------------
\* A test method runs, on an instance of its class be it static or not.
NameInit ==
  /\ env = <<Empty, Empty, Empty>> /\ declared = <<{}, {}, {}>>
  /\ \E o \in Objects, static \in BOOLEAN :
       frames = <<[this |-> o, owner |-> IF static THEN None ELSE o, first |-> 2]>>
  /\ fields = [o \in Objects |-> [n \in Fields[o] |-> Unset]]
  /\ confused = {}

\* VisitVariableDeclarator.
Declare(n, s, e) ==
  /\ ~Declares(n) /\ Says(e)
  /\ \E v \in Results(e) : env' = [env EXCEPT ![Len(env)] = Define(@, n, s, v)]
  /\ declared' = [declared EXCEPT ![Len(env)] = @ \cup {n}]
  /\ confused' = confused \cup MistakenIn(e) \cup Respelt(n, s)
  /\ UNCHANGED <<frames, fields>>

\* assignToExpression of a bare name: the chain and the object.
Assign(n, e) ==
  /\ Visible(n) /\ Says(e)
  /\ \E v \in Results(e) :
       /\ env' \in Set(n, v)
       /\ fields' = IF HasField(n) THEN [fields EXCEPT ![This][n] = v] ELSE fields
  /\ confused' = confused \cup MistakenIn(e)
                   \cup (IF Declares(n) /\ HasField(n) THEN {"both"} ELSE {})
                   \cup (IF ~Declares(n) /\ ~Own(n) THEN {"static"} ELSE {})
  /\ UNCHANGED <<frames, declared>>

\* assignToExpression of o.n.
SetField(o, n, e) ==
  /\ n \in Fields[o] /\ Says(e)
  /\ \E v \in Results(e) : fields' = [fields EXCEPT ![o][n] = v]
  /\ confused' = confused \cup MistakenIn(e)
                   \cup (IF \E i \in Having(n) : n \notin declared[i] THEN {"stale"} ELSE {})
  /\ UNCHANGED <<env, frames, declared>>

\* assignToExpression of C.n: the root scope.
SetStatic(n, e) ==
  /\ n \in Statics /\ Says(e)
  /\ \E v \in Results(e) : env' \in SetIn(1, Key(n), {Somehow}, v)
  /\ confused' = confused \cup MistakenIn(e)
  /\ UNCHANGED <<frames, fields, declared>>

\* executeMethodNode and executeConstructor, and VisitBlock of the body.  A static method
\* keeps the object of the code that calls it.
Enter(this, owner, p, e) ==
  /\ Says(e) /\ Len(frames) < MaxCalls
  /\ \E v \in Results(e) : env' = env \o <<Define(Empty, p, Somehow, v), Empty>>
  /\ declared' = declared \o <<{p}, {}>>
  /\ frames' = Append(frames, [this |-> this, owner |-> owner, first |-> Len(env) + 1])
  /\ confused' = confused \cup MistakenIn(e) \cup Captured(owner)
  /\ UNCHANGED fields
CallOn(o, p, e) == Enter(o, o, p, e)
CallStatic(p, e) == Enter(This, None, p, e)

Return ==
  /\ Len(frames) > 1
  /\ env' = SubSeq(env, 1, Here.first - 1)
  /\ declared' = SubSeq(declared, 1, Here.first - 1)
  /\ frames' = Front(frames)
  /\ UNCHANGED <<fields, confused>>

\* VisitBlock.
OpenBlock ==
  /\ Len(env) <= 2 * Len(frames) + MaxBlocks
  /\ env' = Append(env, Empty) /\ declared' = Append(declared, {})
  /\ UNCHANGED <<frames, fields, confused>>
CloseBlock ==
  /\ Len(env) > Here.first + 1
  /\ env' = Front(env) /\ declared' = Front(declared)
  /\ UNCHANGED <<frames, fields, confused>>

Variables == Cardinality({b \in (DOMAIN env) \X Names : b[2] \in DOMAIN env[b[1]]})

\* A program is followed up to the first thing it does that confuses names.
NameNext ==
  /\ confused = {}
  /\ \/ \E n \in Names, e \in Names \cup Values :
          \/ \E s \in Spellings : Declare(n, s, e)
          \/ Assign(n, e) \/ SetStatic(n, e) \/ CallStatic(n, e)
          \/ \E o \in Objects : SetField(o, n, e) \/ CallOn(o, n, e)
     \/ Return \/ OpenBlock \/ CloseBlock
  /\ Variables' <= MaxVariables

NameSpec == NameInit /\ [][NameNext]_nameVars
-----------------------------------------------------------------------------
\* The variables alone, as the program means them.
Sole(entries) == CHOOSE v \in Range(entries) : TRUE
Restricted(i) == [n \in DOMAIN env[i] \cap declared[i] |-> Sole(env[i][n])]
Scopes == [i \in DOMAIN env |-> Restricted(i)]
Methods == [k \in DOMAIN frames |-> [this |-> frames[k].owner, first |-> frames[k].first]]
StaticValues == [n \in Statics |-> IF Key(n) \in DOMAIN env[1] THEN Sole(env[1][Key(n)]) ELSE Unset]
Meant == INSTANCE Lexical WITH scopes <- Scopes, frames <- Methods, statics <- StaticValues

\* README.md:46, scopes are lexically stacked: whatever the methods, their nesting and the
\* objects they belong to, a step of the interpreter is one of the program as it is
\* written, until the program does one of six things: it assigns a variable named like a
\* field of thisObj ("both", the field is written too); it calls a method of an object one
\* of whose fields has the name of a variable of a caller, or of a field another object has
\* written ("captured"); it sets o.f after f was written by its bare name ("stale"); it
\* uses a static variable by its bare name ("static"); it reads a field named like a class
\* ("class"); it declares a variable in the block where it wrote a field of that name, which
\* it spelt another way ("respelt", the block then has both).
LexicalUnlessConfused == [][confused' = {} => UNCHANGED Meant!lexVars \/ Meant!LexNext]_nameVars

\* While the program has done none of the six, every name it may use reads as it means.
NamesMeanWhatTheySay ==
  confused = {} =>
    \A n \in Names : Visible(n) /\ Mistaken(n) = {} => Reads(n) = {Meant!Lookup(n)}
=============================================================================
