------------------------------- MODULE Engine -------------------------------
(***************************************************************************)
(* The record engine: engine/engine.go, engine/dml.go, engine/id.go and    *)
(* engine/db.go.  An in-memory SQLite database holds one table per object; *)
(* an id generator keeps one counter per object; a schema remembers which  *)
(* objects have a table.  Every DML call is a loop over its records that   *)
(* stops at the first failing one and undoes nothing, so one action is one *)
(* turn of that loop, and the records of a batch are chosen as the loop    *)
(* comes to them.                                                          *)
(*                                                                         *)
(* Of a record the model keeps its Id and one other column, "ext", which   *)
(* also serves as the external-id column of upsert.  A record may lack     *)
(* either field (Absent), set the column to null, or set some field the    *)
(* table has no column for (Unknown), on which SQLite fails.  Columns have *)
(* no case, but the engine looks the Id up in a Go map, under "Id": the    *)
(* records a query returns, whose fields are named as the columns, have it *)
(* under "id".  Left out: an Id that is null (SQLite takes any number).    *)
(***************************************************************************)
EXTENDS Naturals, FiniteSets

CONSTANTS
  SObjects,      \* object names, in lower case as tables and counters use them
  StartSchema,   \* the objects with metadata: their tables are made at start-up
  Custom,        \* the objects without an entry in knownPrefixes
  Prefix,        \* the 3-character key prefix of each object
  Exts,          \* values of the external-id column
  LiteralIds,    \* ids the test source spells out, of whatever shape
  Null, Absent, Unknown,
  MaxCounter,    \* bound: ids generated per object between two resets
  MaxBatch       \* bound: records in one DML call

NewId(s, n) == <<Prefix[s], n>>

Ids == {NewId(s, n) : s \in SObjects, n \in 1..MaxCounter} \cup LiteralIds

Data == Exts \cup {Null}

(* The keys of knownPrefixes map to different prefixes, none of which has  *)
(* the form "a0X" given to the other objects.                              *)
ASSUME EngineAssumption ==
  /\ IsFiniteSet(SObjects)
  /\ StartSchema \subseteq SObjects
  /\ Custom \subseteq SObjects
  /\ \A s, t \in SObjects :
       Prefix[s] = Prefix[t] => s = t \/ {s, t} \subseteq Custom
  /\ IsFiniteSet(LiteralIds)
  /\ MaxCounter \in Nat
  /\ MaxBatch \in Nat
  /\ Null \notin SObjects \cup Exts
  /\ Absent \notin Ids \cup Data
  /\ Unknown \notin Data \cup {Absent}

VARIABLES
  schema,     \* Engine.Schema.SObjects
  tables,     \* the tables SQLite lists
  rows,       \* per object, its rows: a partial function from id to column
  counters,   \* IDGenerator.counters, 0 for an object without an entry
  call,       \* the DML call in progress and how far its loop is
  outcome     \* how the last call ended, and at which id

(* History: the ids a test can put in a record, and those among them that  *)
(* the generator has not issued since the last reset.                      *)
VARIABLES held, carried

db   == <<schema, tables, rows, counters>>
vars == <<db, call, outcome, held, carried>>

Record == [id : Ids \cup {Absent}, spelt : {"Id", "id"},
           ext : Data \cup {Absent, Unknown}]

(* The fields an upsert may be told to go by. *)
Keys == {"Id", "id", "ext"}

Empty  == [x \in {} |-> Null]
Idle   == [op |-> "idle", obj |-> Null, key |-> "Id", base |-> 0, done |-> 0,
           gen |-> {}]
Fine   == [err |-> "none", obj |-> Null, id |-> Absent, fresh |-> FALSE]

Init ==
  /\ schema = StartSchema
  /\ tables = StartSchema
  /\ rows = [s \in SObjects |-> Empty]
  /\ counters = [s \in SObjects |-> 0]
  /\ call = Idle
  /\ outcome = Fine
  /\ held = LiteralIds
  /\ carried = LiteralIds

----------------------------------------------------------------------------
(* A call begins: EnsureTable makes the table of an object the schema does *)
(* not know, and is left out of Update and Delete.                         *)

EnsureTable_SchemaOnly(s) == schema' = schema \cup {s} /\ tables' = tables

EnsureTable(s) ==
  /\ schema' = schema \cup {s}
  /\ tables' = IF s \in schema THEN tables ELSE tables \cup {s}

Begin(op, s, key) ==
  /\ call.op = "idle"
  /\ call' = [op |-> op, obj |-> s, key |-> key,
              base |-> Cardinality(DOMAIN rows[s]), done |-> 0, gen |-> {}]
  /\ outcome' = Fine
  /\ UNCHANGED <<rows, counters, held, carried>>

Insert(s)    == EnsureTable(s) /\ Begin("insert", s, "Id")
Upsert(s, k) == EnsureTable(s) /\ Begin("upsert", s, k)
Update(s)    == Begin("update", s, "Id") /\ UNCHANGED <<schema, tables>>
Delete(s)    == Begin("delete", s, "Id") /\ UNCHANGED <<schema, tables>>

(* A query ensures the tables of every object it names and changes no row. *)
Query(s) ==
  /\ call.op = "idle"
  /\ EnsureTable(s)
  /\ outcome' = Fine
  /\ UNCHANGED <<rows, counters, call, held, carried>>

----------------------------------------------------------------------------
(* How one turn of the loop ends.                                          *)

Accept(new) ==
  /\ call' = [call EXCEPT !.done = @ + 1, !.gen = @ \cup new]
  /\ UNCHANGED <<schema, tables, outcome, held, carried>>

(* The rows already written stay, and the counter stays advanced. *)
Fail(err, x, new) ==
  /\ call' = Idle
  /\ outcome' = [err |-> err, obj |-> call.obj, id |-> x, fresh |-> new # {}]
  /\ held' = held \cup call.gen \cup new
  /\ UNCHANGED <<schema, tables, rows, carried>>

Column_AsGiven(rec) == rec.ext

Column(rec) == IF rec.ext \in Exts THEN rec.ext ELSE Null

(* What SQLite says of a statement that names the columns of a record. *)
SqlError(s, rec) ==
  IF s \notin tables THEN "table"
  ELSE IF rec.ext = Unknown THEN "column" ELSE "none"

InsertError_Replace(s, x, rec) == SqlError(s, rec)

InsertError(s, x, rec) ==
  IF SqlError(s, rec) # "none" THEN SqlError(s, rec)
  ELSE IF x \in DOMAIN rows[s] THEN "duplicate" ELSE "none"

WithRow(t, x, v)  == [y \in DOMAIN t \cup {x} |-> IF y = x THEN v ELSE t[y]]
WithoutRow(t, x)  == [y \in DOMAIN t \ {x} |-> t[y]]
SetRow_OrInsert(t, x, v) == WithRow(t, x, v)
SetRow(t, x, v)   == [y \in DOMAIN t |-> IF y = x THEN v ELSE t[y]]
Renamed(t, x, y)  == WithRow(WithoutRow(t, x), y, t[x])

Store(s, t) == rows' = [rows EXCEPT ![s] = t]

(* The record has no field of the name "Id". *)
LacksId(rec) == rec.id = Absent \/ rec.spelt # "Id"

(* INSERT INTO, with a generated id when the record lacks one: of two      *)
(* columns of one name SQLite takes the first, and "Id" sorts before "id". *)
ExecInsert(rec) ==
  LET s   == call.obj
      new == IF LacksId(rec) THEN {NewId(s, counters[s] + 1)} ELSE {}
      x   == IF LacksId(rec) THEN NewId(s, counters[s] + 1) ELSE rec.id
      err == InsertError(s, x, rec)
  IN  /\ LacksId(rec) => counters[s] < MaxCounter
      /\ counters' = IF LacksId(rec) THEN [counters EXCEPT ![s] = @ + 1]
                                     ELSE counters
      /\ \/ err # "none" /\ Fail(err, x, new)
         \/ err = "none" /\ Store(s, WithRow(rows[s], x, Column(rec)))
                         /\ Accept(new)

(* UPDATE ... SET of every field but Id WHERE "id" = x: no row, no error. *)
ExecUpdate(rec) ==
  LET s   == call.obj
      err == SqlError(s, rec)
  IN  /\ \/ rec.ext = Absent /\ Accept({}) /\ UNCHANGED rows
         \/ rec.ext # Absent /\ err # "none" /\ Fail(err, rec.id, {})
         \/ rec.ext # Absent /\ err = "none" /\ Accept({})
            /\ Store(s, SetRow(rows[s], rec.id, Column(rec)))
      /\ UNCHANGED counters

(* An upsert by external id found rows: every field but that one is set,   *)
(* the Id included.                                                        *)
ExecRekey(rec, match) ==
  LET s == call.obj
  IN  /\ \/ rec.id = Absent /\ Accept({}) /\ UNCHANGED rows
         \/ rec.id # Absent /\ match = {rec.id} /\ Accept({}) /\ UNCHANGED rows
         \/ \E x \in match :
              /\ match = {x}
              /\ rec.id \notin DOMAIN rows[s] \cup {Absent}
              /\ Store(s, Renamed(rows[s], x, rec.id))
              /\ Accept({})
         \/ /\ rec.id # Absent /\ match # {rec.id}
            /\ Cardinality(match) > 1 \/ rec.id \in DOMAIN rows[s]
            /\ Fail("duplicate", rec.id, {})
      /\ UNCHANGED counters

----------------------------------------------------------------------------
(* One turn of each loop.                                                  *)

Turn(op) == call.op = op /\ call.done < MaxBatch

InsertRecord(rec) == Turn("insert") /\ ExecInsert(rec)

UpdateRecord(rec) ==
  /\ Turn("update")
  /\ \/ LacksId(rec) /\ Fail("noid", rec.id, {}) /\ UNCHANGED counters
     \/ ~LacksId(rec) /\ ExecUpdate(rec)

DeleteRecord(rec) ==
  LET s == call.obj
  IN  /\ Turn("delete")
      /\ \/ LacksId(rec) /\ Fail("noid", rec.id, {})
         \/ ~LacksId(rec) /\ s \notin tables /\ Fail("table", rec.id, {})
         \/ ~LacksId(rec) /\ s \in tables
            /\ Store(s, WithoutRow(rows[s], rec.id)) /\ Accept({})
      /\ UNCHANGED counters

(* The rows an upsert finds: none when the record lacks the key, as it was *)
(* spelt in the call, or has null in it.                                   *)
Matches(s, rec) ==
  IF call.key # "ext"
  THEN {rec.id} \cap {x \in DOMAIN rows[s] : rec.spelt = call.key}
  ELSE {x \in DOMAIN rows[s] : rec.ext \in Exts /\ rows[s][x] = rec.ext}

UpsertRecord(rec) ==
  LET match == Matches(call.obj, rec)
  IN  /\ Turn("upsert")
      /\ \/ match = {} /\ ExecInsert(rec)
         \/ match # {} /\ call.key # "ext" /\ ExecUpdate(rec)
         \/ match # {} /\ call.key = "ext" /\ ExecRekey(rec, match)

Finish ==
  /\ call.op # "idle"
  /\ call' = Idle
  /\ held' = held \cup call.gen
  /\ UNCHANGED <<db, outcome, carried>>

(* ResetDatabase empties every table and forgets every counter; tables and *)
(* schema stay.  runSingleTest builds the test's instance before it, so    *)
(* the fields of that instance may keep ids from before.                   *)
Reset_StartupTables(keep) ==
  /\ call.op = "idle"
  /\ rows' = [s \in SObjects |-> IF s \in StartSchema THEN Empty ELSE rows[s]]
  /\ counters' = [s \in SObjects |-> 0]
  /\ carried' = LiteralIds \cup keep
  /\ held' = LiteralIds \cup keep
  /\ outcome' = Fine
  /\ UNCHANGED <<schema, tables, call>>

Reset_CountersOnly(keep) ==
  /\ call.op = "idle"
  /\ counters' = [s \in SObjects |-> 0]
  /\ carried' = LiteralIds \cup keep
  /\ held' = LiteralIds \cup keep
  /\ outcome' = Fine
  /\ UNCHANGED <<schema, tables, rows, call>>

Reset(keep) ==
  /\ call.op = "idle"
  /\ rows' = [s \in SObjects |-> IF s \in tables THEN Empty ELSE rows[s]]
  /\ counters' = [s \in SObjects |-> 0]
  /\ carried' = LiteralIds \cup keep
  /\ held' = LiteralIds \cup keep
  /\ outcome' = Fine
  /\ UNCHANGED <<schema, tables, call>>

Next ==
  \/ \E s \in SObjects :
       \/ Insert(s) \/ Update(s) \/ Delete(s) \/ Query(s)
       \/ \E k \in Keys : Upsert(s, k)
  \/ \E rec \in [id : held \cup {Absent}, spelt : {"Id", "id"},
                 ext : Data \cup {Absent, Unknown}] :
       InsertRecord(rec) \/ UpdateRecord(rec) \/ DeleteRecord(rec)
       \/ UpsertRecord(rec)
  \/ Finish
  \/ \E keep \in {{}, held} : Reset(keep)

Spec == Init /\ [][Next]_vars

----------------------------------------------------------------------------
RowsOK ==
  /\ rows = [s \in SObjects |-> rows[s]]
  /\ \A s \in SObjects : /\ DOMAIN rows[s] \subseteq Ids
                         /\ rows[s] \in [DOMAIN rows[s] -> Data]

CallOK ==
  /\ call \in [op : {"idle", "insert", "update", "delete", "upsert"},
               obj : SObjects \cup {Null}, key : Keys,
               base : Nat, done : 0..MaxBatch, gen : SUBSET Ids]
  /\ IF call.op = "idle" THEN call = Idle ELSE call.obj \in SObjects

OutcomeOK ==
  outcome \in [err : {"none", "table", "column", "duplicate", "noid"},
              obj : SObjects \cup {Null}, id : Ids \cup {Absent},
              fresh : BOOLEAN]

TypeOK ==
  /\ schema \subseteq SObjects /\ tables \subseteq SObjects
  /\ RowsOK
  /\ counters \in [SObjects -> 0..MaxCounter]
  /\ CallOK
  /\ OutcomeOK
  /\ held \subseteq Ids /\ carried \subseteq held

(* An id the generator hands out is never taken already, in its object's   *)
(* table, but in two cases: the test brought that id in itself, as a       *)
(* literal or over a reset, or it was issued for another object, which has *)
(* the same prefix (all custom objects with one initial do, id.go:51-59).  *)
GeneratedIdIsFree ==
  outcome.err = "duplicate" /\ outcome.fresh =>
    \/ outcome.id \in carried
    \/ \E t \in SObjects \ {outcome.obj} :
         \E n \in 1..counters[t] : outcome.id = NewId(t, n)

(* Only an update or a delete can meet an object without a table, and only *)
(* one that nothing inserted, upserted or queried since the process began  *)
(* (engine.go:42-63, 90-97).                                               *)
MissingTableMeansUnseen ==
  outcome.err = "table" => outcome.obj \notin schema

Issued == {x \in Ids : \E s \in SObjects :
                         \E n \in 1..counters[s] : x = NewId(s, n)}

(* Every id of a row, or in the test's hands, was brought in by the test   *)
(* or issued since the last reset; and a table not made yet has no rows.   *)
IdsHaveASource ==
  /\ schema \subseteq tables
  /\ call.op # "idle" => outcome = Fine
  /\ held \cup call.gen \subseteq carried \cup Issued
  /\ \A s \in SObjects : /\ DOMAIN rows[s] \subseteq carried \cup Issued
                         /\ s \notin tables => rows[s] = Empty

(* An insert that ends, at its last record or at a failing one, has added  *)
(* one row per record it got through: none replaced another, none is       *)
(* undone (dml.go:18-30).                                                  *)
InsertAddsItsHead ==
  [][call.op = "insert" /\ call'.op = "idle" =>
       Cardinality(DOMAIN rows'[call.obj]) = call.base + call.done]_vars

(* After ResetDatabase no object has a row, whether its table was made at  *)
(* start-up or on the way, and ids start from 1 (engine.go:66-79).         *)
TestsStartClean ==
  [][\A keep \in {{}, held} : Reset(keep) =>
       \A s \in SObjects : rows'[s] = Empty /\ counters'[s] = 0]_vars

(* The engine's calls do to the stored records what RecordStore allows.    *)
Stored == INSTANCE RecordStore WITH
            store <- rows, active <- <<call.op, call.obj>>, Nobody <- Null

StoreRefinement == Stored!Spec

(* README.md:58: all field access is case-insensitive.  An update or a     *)
(* delete asks for an Id only of a record that has none.                   *)
IdIsFoundHoweverSpelt == outcome.err = "noid" => outcome.id = Absent

(* README.md:60: when an object is used in DML and has no table yet, the   *)
(* engine makes it.                                                        *)
DmlFindsItsTable == outcome.err # "table"
=============================================================================
