---------------------------- MODULE RecordStore ----------------------------
(***************************************************************************)
(* What the engine promises the interpreter about stored records, without  *)
(* tables, counters, batches or SQL: a set of records per object, which a  *)
(* call on one object changes one record at a time, and only in the way    *)
(* the kind of the call allows.  Engine.tla is shown to implement it.      *)
(***************************************************************************)
CONSTANTS SObjects,   \* object names
          Ids,        \* record ids
          Data,       \* contents of a record
          Nobody      \* the object of no call

VARIABLES store,      \* per object, a partial function from ids to contents
          active      \* <<kind of the call in progress, its object>>

vars == <<store, active>>

Kinds == {"insert", "update", "delete", "upsert"}

Init ==
  /\ store = [s \in SObjects |-> [x \in {} |-> CHOOSE v \in Data : TRUE]]
  /\ active = <<"idle", Nobody>>

(* A call begins on one object, and ends whether or not it succeeded. *)
Start(k, s) ==
  /\ active[1] = "idle"
  /\ active' = <<k, s>>
  /\ UNCHANGED store

Stop ==
  /\ active[1] # "idle"
  /\ active' = <<"idle", Nobody>>
  /\ UNCHANGED store

(* A new record never takes the place of another one. *)
Create(s, x, v) ==
  /\ active \in {<<"insert", s>>, <<"upsert", s>>}
  /\ x \notin DOMAIN store[s]
  /\ store' = [store EXCEPT ![s] =
                 [y \in DOMAIN store[s] \cup {x} |->
                    IF y = x THEN v ELSE store[s][y]]]
  /\ UNCHANGED active

(* Contents change in place: no record appears, disappears or moves. *)
Change(s, x, v) ==
  /\ active \in {<<"update", s>>, <<"upsert", s>>}
  /\ x \in DOMAIN store[s]
  /\ store' = [store EXCEPT ![s][x] = v]
  /\ UNCHANGED active

Remove(s, x) ==
  /\ active = <<"delete", s>>
  /\ x \in DOMAIN store[s]
  /\ store' = [store EXCEPT ![s] =
                 [y \in DOMAIN store[s] \ {x} |-> store[s][y]]]
  /\ UNCHANGED active

(* The id of a record changes, to one no record has, and nothing else:     *)
(* what an upsert by external id does with a record that names another Id. *)
Rekey(s, x, y) ==
  /\ active = <<"upsert", s>>
  /\ x \in DOMAIN store[s]
  /\ y \notin DOMAIN store[s]
  /\ store' = [store EXCEPT ![s] =
                 [z \in (DOMAIN store[s] \ {x}) \cup {y} |->
                    IF z = y THEN store[s][x] ELSE store[s][z]]]
  /\ UNCHANGED active

(* Between two tests every record of every object goes. *)
Wipe ==
  /\ active[1] = "idle"
  /\ store' = [s \in SObjects |-> [x \in {} |-> CHOOSE v \in Data : TRUE]]
  /\ UNCHANGED active

Next ==
  \/ \E s \in SObjects :
       \/ \E k \in Kinds : Start(k, s)
       \/ \E x \in Ids :
            \/ \E v \in Data : Create(s, x, v) \/ Change(s, x, v)
            \/ Remove(s, x)
            \/ \E y \in Ids : Rekey(s, x, y)
  \/ Stop
  \/ Wipe

Spec == Init /\ [][Next]_vars
=============================================================================
