--------------------------------- MODULE Dml ---------------------------------
(***************************************************************************)
(* DML as Apex code sees it: the insert, update, delete and upsert         *)
(* statements (interpreter.go) and the methods of Database (builtins.go),  *)
(* with the triggers they fire (triggers.go) and the permission and owner  *)
(* rules of System.runAs (context.go).  The records go to the engine of    *)
(* Engine.tla, whose actions do the storing.                               *)
(*                                                                         *)
(* One statement goes through the phases check, before, engine and after.  *)
(* Triggers run in the second and the last; they are Apex code, which may  *)
(* set fields of the records, run DML of its own and throw.  An object     *)
(* passed to a statement is passed by reference, to its triggers too, and  *)
(* copied to the map that the engine gets when BEFORE triggers are done.   *)
(*                                                                         *)
(* Of an SObject the model keeps its "Id" and its "OwnerId", which is the  *)
(* column "ext" of Engine.  Left out: fields spelt otherwise (Engine.tla   *)
(* says what becomes of an "id"); lists that begin with null, which have   *)
(* no object name; and the results of the Database methods.                *)
(***************************************************************************)
EXTENDS Engine, SequencesExt

CONSTANTS
  Refs,       \* SObjects in the hands of the test
  Type,       \* the object name of each
  Hole,       \* an element of a list that is no SObject
  Lists,      \* the values DML is given: one SObject or several
  Users,      \* users that runAs is given
  None,       \* no runAs, or a user without "Id" and "ProfileId" fields
  Denials,    \* sets of operations a profile may be denied
  Events,     \* the trigger events that have a trigger
  MaxCalls    \* bound: DML in progress, one inside the trigger of another

ASSUME DmlAssumption ==
  /\ Type \in [Refs -> SObjects]
  /\ Hole \notin Refs
  /\ Lists \subseteq Seq(Refs \cup {Hole})
  /\ \A l \in Lists : Len(l) \in 1..MaxBatch /\ l[1] \in Refs
  /\ Users \subseteq Exts
  /\ None \notin Users

VARIABLES
  objects,    \* the fields of each SObject
  calls,      \* DML in progress, innermost last
  user,       \* execCtx
  denied      \* what ObjectPermissions denies the profile of each user

script  == <<objects, calls, user, denied>>
dmlVars == <<vars, script>>

(* A field that is set to null is there; only one never set is absent. *)
Fields == [id : Ids \cup {Absent}, owner : Data \cup {Absent}]

New == [id |-> Absent, owner |-> Absent]

DmlInit ==
  /\ Init
  /\ objects = [r \in Refs |-> New]
  /\ calls = <<>>
  /\ user = None
  /\ denied \in Denials

----------------------------------------------------------------------------
Current == Last(calls)
Obj(c)  == Type[c.list[1]]

Goes(phase) == calls # <<>> /\ Current.phase = phase

Becomes(c) == calls' = Append(Front(calls), c)

(* What valueToRecords finds in a list. *)
SObjectsOf(l) ==
  LET kept[n \in 0..Len(l)] ==
        IF n = 0 THEN <<>>
        ELSE IF l[n] = Hole THEN kept[n - 1] ELSE Append(kept[n - 1], l[n])
  IN  kept[Len(l)]

(* An upsert fires the triggers of an insert; Database.upsert fires none. *)
Event(op) == IF op = "upsert" THEN "insert" ELSE op

HasTrigger(c) ==
  /\ c.phase \in {"before", "after"}
  /\ <<c.phase, Event(c.op)>> \in Events
  /\ ~(c.op = "upsert" /\ c.via = "Database")

(* Code of the test runs, or a trigger's. *)
CodeRuns == calls # <<>> => HasTrigger(Current)

(* A panic: it takes with it any number of calls, up to the nearest try. *)
Throw == \E k \in 0..(Len(calls) - 1) : calls' = SubSeq(calls, 1, k)

(* An assignment to OwnerId, of null too, or the argument of new that sets *)
(* it.                                                                     *)
SetOwner(r, u) ==
  /\ CodeRuns
  /\ objects' = [objects EXCEPT ![r].owner = u]
  /\ UNCHANGED <<vars, calls, user, denied>>

RunAs(u) ==
  /\ calls = <<>>
  /\ user' = u
  /\ UNCHANGED <<vars, objects, calls, denied>>

(* The bound on generated ids leaves enough for the calls in progress. *)
EnoughIds(l) ==
  LET waiting == {i \in DOMAIN calls : calls[i].phase \in {"check", "before"}}
  IN  counters[Type[l[1]]] + Len(SObjectsOf(l))
        + MapThenSumSet(LAMBDA i : Len(SObjectsOf(calls[i].list)),
                        waiting) <= MaxCounter

Call(op, via, asUser, l) ==
  /\ CodeRuns /\ Len(calls) < MaxCalls
  /\ asUser => via = "statement"
  /\ op \in {"insert", "upsert"} => EnoughIds(l)
  /\ calls' = Append(calls, [op |-> op, via |-> via, asUser |-> asUser,
                             list |-> l, phase |-> "check",
                             recs |-> <<>>, failed |-> FALSE])
  /\ UNCHANGED <<vars, objects, user, denied>>

----------------------------------------------------------------------------
(* checkCRUDPermission and setOwnerIdOnRecords, before any trigger.        *)
Permission == [insert |-> "create", update |-> "edit", delete |-> "delete"]

Refused_DeleteForgotten(c) ==
  /\ c.asUser /\ user # None
  /\ c.op \in {"insert", "update"} /\ Permission[c.op] \in denied

Refused(c) ==
  /\ c.asUser /\ user # None
  /\ c.op \in DOMAIN Permission /\ Permission[c.op] \in denied

Listed(l) == {l[i] : i \in DOMAIN l} \ {Hole}

TakesOwner_AnyContext(c) == c.op = "insert" /\ c.via = "statement"

TakesOwner(c) == c.op = "insert" /\ c.via = "statement" /\ user # None

WithOwner_IfOwned(o) ==
  IF o.owner # Absent THEN [o EXCEPT !.owner = user] ELSE o

(* Only whether there is an OwnerId counts, not whether it is null. *)
WithOwner(o) == IF o.owner = Absent THEN [o EXCEPT !.owner = user] ELSE o

Refuse == Goes("check") /\ Refused(Current) /\ Throw
          /\ UNCHANGED <<vars, objects, user, denied>>

Proceed ==
  /\ Goes("check") /\ ~Refused(Current)
  /\ Becomes([Current EXCEPT !.phase = "before"])
  /\ objects' = [r \in Refs |->
                   IF TakesOwner(Current) /\ r \in Listed(Current.list)
                   THEN WithOwner(objects[r]) ELSE objects[r]]
  /\ UNCHANGED <<vars, user, denied>>

(* AssertException, ThrowSignal and the two others go through a trigger;   *)
(* any other panic just ends it.                                           *)
TriggerThrows ==
  /\ calls # <<>> /\ HasTrigger(Current)
  /\ Throw
  /\ UNCHANGED <<vars, objects, user, denied>>

Copies(l) ==
  [i \in 1..Len(SObjectsOf(l)) |-> objects[SObjectsOf(l)[i]]]

Start(op, s) ==
  \/ op = "insert" /\ Insert(s)
  \/ op = "update" /\ Update(s)
  \/ op = "delete" /\ Delete(s)
  \/ op = "upsert" /\ Upsert(s, "Id")

CallEngine ==
  /\ Goes("before")
  /\ Start(Current.op, Obj(Current))
  /\ Becomes([Current EXCEPT !.phase = "engine",
                             !.recs = Copies(Current.list)])
  /\ UNCHANGED <<objects, user, denied>>

(* The engine's loop, and what it comes to.                                *)
Generated_BeforeIncrement(s) == NewId(s, counters[s])

Generated(s) == NewId(s, counters[s] + 1)

(* DB.Insert puts the id it generates into the record. *)
WithId(op, s, rec) ==
  IF op \in {"insert", "upsert"} /\ rec.id = Absent
  THEN [rec EXCEPT !.id = Generated(s)] ELSE rec

EngineTurn ==
  /\ Goes("engine") /\ call.op # "idle" /\ call.done < Len(Current.recs)
  /\ LET rec  == Current.recs[call.done + 1]
         row  == [id |-> rec.id, spelt |-> "Id", ext |-> rec.owner]
         recs == [Current.recs EXCEPT ![call.done + 1] =
                    WithId(call.op, call.obj, rec)]
     IN  /\ InsertRecord(row) \/ UpdateRecord(row)
              \/ DeleteRecord(row) \/ UpsertRecord(row)
         /\ Becomes([Current EXCEPT !.recs = recs])
  /\ UNCHANGED <<objects, user, denied>>

(* writeBackIds pairs the elements of the list with the records by index.  *)
WriteBack_LastRecord(c) ==
  [r \in Refs |->
     IF c.op \in {"insert", "upsert"} /\ r \in Listed(c.list)
     THEN [objects[r] EXCEPT !.id = Last(c.recs).id] ELSE objects[r]]

WriteBack(c) ==
  [r \in Refs |->
     LET at == {i \in DOMAIN c.list : c.list[i] = r /\ i <= Len(c.recs)}
     IN  IF c.op \in {"insert", "upsert"} /\ at # {}
         THEN [objects[r] EXCEPT !.id = c.recs[Max(at)].id]
         ELSE objects[r]]

Ends(failed) ==
  Becomes([Current EXCEPT !.phase = "after", !.recs = <<>>,
                          !.failed = failed])

EngineDone ==
  /\ Goes("engine") /\ call.op # "idle" /\ call.done = Len(Current.recs)
  /\ Finish
  /\ objects' = WriteBack(Current)
  /\ Ends(FALSE)
  /\ UNCHANGED <<user, denied>>

(* A failed statement throws; a failed Database method goes on to the      *)
(* AFTER triggers.                                                         *)
EngineFailed_Again ==
  /\ Goes("engine") /\ call.op = "idle"
  /\ \/ Current.via = "statement" /\ Throw
     \/ Current.via = "Database"
        /\ Becomes([Current EXCEPT !.phase = "before", !.recs = <<>>])
  /\ UNCHANGED <<vars, objects, user, denied>>

EngineFailed_GoesOn ==
  /\ Goes("engine") /\ call.op = "idle"
  /\ Ends(TRUE)
  /\ UNCHANGED <<vars, objects, user, denied>>

EngineFailed ==
  /\ Goes("engine") /\ call.op = "idle"
  /\ \/ Current.via = "statement" /\ Throw
     \/ Current.via = "Database" /\ Ends(TRUE)
  /\ UNCHANGED <<vars, objects, user, denied>>

EndCall ==
  /\ Goes("after")
  /\ calls' = Front(calls)
  /\ UNCHANGED <<vars, objects, user, denied>>

(* The next test, which starts with objects of its own.  (Those that the   *)
(* fields of a test class keep over a reset are in Engine.tla.)            *)
NextTest ==
  /\ calls = <<>>
  /\ Reset({})
  /\ objects' = [r \in Refs |-> New]
  /\ UNCHANGED <<calls, user, denied>>

DmlNext ==
  \/ \E r \in Refs, u \in Data : SetOwner(r, u)
  \/ \E u \in Users \cup {None} : RunAs(u)
  \/ \E op \in {"insert", "update", "delete", "upsert"}, l \in Lists,
        via \in {"statement", "Database"}, asUser \in BOOLEAN :
       Call(op, via, asUser, l)
  \/ Refuse \/ Proceed \/ TriggerThrows
  \/ CallEngine \/ EngineTurn \/ EngineDone \/ EngineFailed
  \/ EndCall \/ NextTest

DmlSpec == DmlInit /\ [][DmlNext]_dmlVars

(* The interpreter is one goroutine, and the engine answers a call before  *)
(* it goes on: a statement in progress takes its next step unless the code *)
(* of a trigger runs forever.                                              *)
Advance ==
  Refuse \/ Proceed \/ CallEngine \/ EngineTurn \/ EngineDone
    \/ EngineFailed \/ EndCall

FairDmlSpec == DmlSpec /\ WF_dmlVars(Advance)

----------------------------------------------------------------------------
DmlCall ==
  [op : {"insert", "update", "delete", "upsert"},
   via : {"statement", "Database"}, asUser : BOOLEAN, list : Lists,
   phase : {"check", "before", "engine", "after"}, recs : Seq(Fields),
   failed : BOOLEAN]

DmlTypeOK ==
  /\ TypeOK
  /\ objects \in [Refs -> Fields]
  /\ calls \in Seq(DmlCall)
  /\ user \in Users \cup {None}
  /\ denied \in Denials

BeforeHoles(l) == {l[i] : i \in {j \in DOMAIN l : \A h \in 1..j : l[h] # Hole}}

Arrives ==
  /\ calls # <<>> /\ Current.phase = "engine"
  /\ Len(calls') = Len(calls) /\ Last(calls').phase = "after"
  /\ Current.via = "Database" => ~Last(calls').failed

(* No object of a list gets the id of another's record.  It may when an    *)
(* object follows a null, which WriteBack counts and SObjectsOf does not.  *)
Paired ==
  \A l \in Lists : \A i \in DOMAIN l :
    l[i] # Hole /\ i <= Len(SObjectsOf(l)) => SObjectsOf(l)[i] = l[i]

(* The names under which the lists that hold r are inserted.               *)
Homes(r) == {Type[l[1]] : l \in {m \in Lists : r \in Listed(m)}}

(* Objects of one type are not inserted under names that share a prefix:   *)
(* not when lists hold objects of one type each.                           *)
NoClash ==
  \A r, q \in Refs : Type[r] = Type[q] =>
    \A s \in Homes(r), t \in Homes(q) : Prefix[s] = Prefix[t] => s = t

(* The AFTER triggers of an insert or upsert, be it a statement that got   *)
(* that far or a method that did not fail, see objects that carry the ids  *)
(* of their rows, and after an insert the row has the object's owner; in a *)
(* list with nulls, the objects before the first of them                   *)
(* (interpreter.go:1889-1899, 2004-2014; builtins.go:586-620).             *)
AfterSeesItsRows ==
  [][Arrives /\ Current.op \in {"insert", "upsert"} =>
       \A r \in BeforeHoles(Current.list) :
         LET table == rows'[Obj(Current)]
         IN  /\ objects'[r].id \in DOMAIN table
             /\ Current.op = "insert" =>
                  table[objects'[r].id] = Column([ext |-> objects'[r].owner])
    ]_dmlVars

(* Two objects never carry the id of one row, whatever calls failed on the *)
(* way and however triggers nest, if lists are paired and names do not     *)
(* clash (interpreter.go:2041-2068, id.go:43-63).                          *)
OneObjectPerId ==
  \A r, q \in Refs :
    r # q /\ Type[r] = Type[q] /\ objects[r].id # Absent =>
      objects[r].id # objects[q].id

Barred(c, ops) ==
  /\ c.asUser /\ user # None /\ c.op \in ops
  /\ {"create", "edit", "delete"} \subseteq denied

(* While a statement AS USER is in progress that the user may not do, no   *)
(* row changes: the check comes before the triggers too                    *)
(* (interpreter.go:1879-1882, 1937-1940, 1967-1970).                       *)
RefusedChangesNothing ==
  [][rows' # rows =>
       \A i \in DOMAIN calls :
         ~Barred(calls[i], {"insert", "update", "delete"})]_dmlVars

(* The record that the engine has come to says null of its owner in so     *)
(* many words: code assigned it, a BEFORE trigger's perhaps.               *)
DisownedInCode == Current.recs[call.done + 1].owner = Null

(* What an insert statement stores in a runAs block has an owner, whatever *)
(* its triggers and the statements in them do, unless code sets the        *)
(* OwnerId of the object to null (interpreter.go:1884-1887, 1903-1924).    *)
InsertsHaveAnOwner ==
  [][\A s \in SObjects : \A x \in DOMAIN rows'[s] \ DOMAIN rows[s] :
       user # None /\ Current.op = "insert" /\ Current.via = "statement" =>
         rows'[s][x] # Null \/ DisownedInCode]_dmlVars

(* DML drives the engine as Engine.tla allows, with records that hold no   *)
(* id but those the engine gave out (interpreter.go:1889-1896).            *)
DrivesEngine == Spec

(* Every statement and method comes to its end, through failures, refusals *)
(* and the statements of its triggers, unless triggers start others        *)
(* forever: no failure starts one over (interpreter.go:1871-2014,          *)
(* builtins.go:586-620).                                                   *)
EveryStatementEnds ==
  []<>(calls = <<>>) \/ []<><<Len(calls') > Len(calls)>>_dmlVars

(* STUBS.md:164: AS USER applies to upsert as to the others. *)
UpsertIsChecked ==
  [][rows' # rows =>
       \A i \in DOMAIN calls : ~Barred(calls[i], {"upsert"})]_dmlVars

(* STUBS.md:139: INSERT sets the owner to the running user, when not       *)
(* explicitly set.                                                         *)
OwnerIsSet ==
  [][\A s \in SObjects : \A x \in DOMAIN rows'[s] \ DOMAIN rows[s] :
       user # None /\ Current.op = "insert" =>
         rows'[s][x] # Null \/ DisownedInCode]_dmlVars
=============================================================================
