---------------------------- MODULE EngineProofs ----------------------------
(***************************************************************************)
(* Proofs about the record engine, for any objects, prefixes, literal ids  *)
(* and bounds.                                                             *)
(***************************************************************************)
EXTENDS Engine, FiniteSetTheorems, TLAPS

(* A table, and what its updates make of it. *)
Table(t) == DOMAIN t \subseteq Ids /\ t \in [DOMAIN t -> Data]

LEMMA WithRowType ==
  ASSUME NEW t, Table(t), NEW x \in Ids, NEW v \in Data
  PROVE  Table(WithRow(t, x, v)) /\ DOMAIN WithRow(t, x, v) = DOMAIN t \cup {x}
BY DEF Table, WithRow

LEMMA WithoutRowType ==
  ASSUME NEW t, Table(t), NEW x
  PROVE  Table(WithoutRow(t, x)) /\ DOMAIN WithoutRow(t, x) = DOMAIN t \ {x}
BY DEF Table, WithoutRow

LEMMA SetRowType ==
  ASSUME NEW t, Table(t), NEW x, NEW v \in Data
  PROVE  Table(SetRow(t, x, v)) /\ DOMAIN SetRow(t, x, v) = DOMAIN t
BY DEF Table, SetRow

LEMMA RenamedType ==
  ASSUME NEW t, Table(t), NEW x \in DOMAIN t, NEW y \in Ids
  PROVE  /\ Table(Renamed(t, x, y))
         /\ DOMAIN Renamed(t, x, y) = (DOMAIN t \ {x}) \cup {y}
<1>1. Table(WithoutRow(t, x)) /\ DOMAIN WithoutRow(t, x) = DOMAIN t \ {x}
  BY WithoutRowType
<1>2. t[x] \in Data
  BY DEF Table
<1>3. QED
  BY <1>1, <1>2, WithRowType DEF Renamed

LEMMA ColumnType == ASSUME NEW rec PROVE Column(rec) \in Data
BY DEF Column, Data

LEMMA StoreType ==
  ASSUME NEW s \in SObjects, NEW t, Table(t), TypeOK, Store(s, t)
  PROVE  RowsOK'
BY DEF TypeOK, RowsOK, Store, Table

LEMMA TableType ==
  ASSUME NEW s \in SObjects, TypeOK PROVE Table(rows[s])
BY DEF TypeOK, RowsOK, Table

(* The records a test can pass to a call. *)
Inputs == [id : held \cup {Absent}, spelt : {"Id", "id"},
           ext : Data \cup {Absent, Unknown}]

LEMMA IdsFinite == IsFiniteSet(Ids)
<1> DEFINE P == SObjects \X (1..MaxCounter)
           New == {NewId(s, n) : s \in SObjects, n \in 1..MaxCounter}
           f == [p \in P |-> NewId(p[1], p[2])]
<1>1. IsFiniteSet(P)
  <2>1. IsFiniteSet(1..MaxCounter)
    BY EngineAssumption, FS_Interval
  <2>2. IsFiniteSet(SObjects)
    BY EngineAssumption
  <2>3. QED
    BY <2>1, <2>2, FS_Product
<1>2. f \in [P -> New]
  BY DEF NewId
<1>3. \A x \in New : \E p \in P : f[p] = x
  <2>1. ASSUME NEW s \in SObjects, NEW n \in 1..MaxCounter
        PROVE  \E p \in P : f[p] = NewId(s, n)
    <3>1. <<s, n>> \in P
      OBVIOUS
    <3>2. f[<<s, n>>] = NewId(s, n)
      BY <3>1
    <3>3. QED
      BY <3>1, <3>2
  <2>2. QED
    BY <2>1
<1>4. f \in Surjection(P, New)
  BY <1>2, <1>3 DEF Surjection
<1>5. IsFiniteSet(New)
  <2> HIDE DEF f, New, P
  <2>1. QED
    BY <1>1, <1>4, FS_Surjection
<1>6. IsFiniteSet(LiteralIds)
  BY EngineAssumption
<1>7. IsFiniteSet(New \cup LiteralIds)
  <2> HIDE DEF New
  <2>1. QED
    BY <1>5, <1>6, FS_Union
<1>8. QED
  BY <1>7 DEF Ids

----------------------------------------------------------------------------
(* Type correctness: first the pieces the actions share.                   *)

LEMMA NewIdType ==
  ASSUME TypeOK, NEW s \in SObjects, counters[s] < MaxCounter
  PROVE  /\ counters[s] + 1 \in 1..MaxCounter
         /\ NewId(s, counters[s] + 1) \in Ids
BY EngineAssumption DEF TypeOK, Ids

LEMMA BeginType ==
  ASSUME TypeOK, NEW s \in SObjects, NEW k \in Keys,
         NEW op \in {"insert", "update", "delete", "upsert"},
         Begin(op, s, k), schema' \subseteq SObjects, tables' \subseteq SObjects
  PROVE  TypeOK'
<1>1. Cardinality(DOMAIN rows[s]) \in Nat
  <2>1. DOMAIN rows[s] \in SUBSET Ids
    BY DEF TypeOK, RowsOK
  <2>2. IsFiniteSet(DOMAIN rows[s])
    BY <2>1, IdsFinite, FS_Subset
  <2>3. QED
    BY <2>2, FS_CardinalityType
<1>2. CallOK'
  BY <1>1, EngineAssumption DEF Begin, CallOK
<1>3. OutcomeOK'
  BY DEF Begin, OutcomeOK, Fine
<1>4. RowsOK'
  BY DEF TypeOK, RowsOK, Begin
<1>5. QED
  BY <1>2, <1>3, <1>4 DEF TypeOK, Begin

LEMMA AcceptType ==
  ASSUME TypeOK, call.op # "idle", call.done < MaxBatch,
         NEW new \in SUBSET Ids, Accept(new)
  PROVE  /\ CallOK' /\ OutcomeOK'
         /\ schema' \subseteq SObjects /\ tables' \subseteq SObjects
         /\ held' \subseteq Ids /\ carried' \subseteq held'
<1>1. CallOK'
  <2>1. call.done + 1 \in 0..MaxBatch
    BY EngineAssumption DEF TypeOK, CallOK
  <2>2. call.gen \cup new \in SUBSET Ids
    BY DEF TypeOK, CallOK
  <2>3. QED
    BY <2>1, <2>2 DEF TypeOK, CallOK, Accept
<1>2. OutcomeOK'
  BY DEF TypeOK, OutcomeOK, Accept
<1>3. QED
  BY <1>1, <1>2 DEF TypeOK, Accept

LEMMA FailType ==
  ASSUME TypeOK, call.op # "idle", NEW new \in SUBSET Ids,
         NEW err \in {"table", "column", "duplicate", "noid"},
         NEW x \in Ids \cup {Absent}, Fail(err, x, new)
  PROVE  /\ CallOK' /\ OutcomeOK' /\ RowsOK'
         /\ schema' \subseteq SObjects /\ tables' \subseteq SObjects
         /\ held' \subseteq Ids /\ carried' \subseteq held'
<1>1. CallOK'
  BY EngineAssumption DEF CallOK, Fail, Idle, Keys
<1>2. OutcomeOK'
  BY DEF TypeOK, CallOK, OutcomeOK, Fail
<1>3. RowsOK'
  BY DEF TypeOK, RowsOK, Fail
<1>4. QED
  BY <1>1, <1>2, <1>3 DEF TypeOK, CallOK, Fail

(* A turn of the insert loop, of the update loop, of an upsert by external *)
(* id that found rows.                                                     *)
LEMMA ExecInsertType ==
  ASSUME TypeOK, call.op # "idle", call.done < MaxBatch,
         NEW rec \in Inputs, ExecInsert(rec)
  PROVE  TypeOK'
<1> DEFINE s   == call.obj
           new == IF LacksId(rec) THEN {NewId(s, counters[s] + 1)} ELSE {}
           x   == IF LacksId(rec) THEN NewId(s, counters[s] + 1) ELSE rec.id
           err == InsertError(s, x, rec)
<1>1. s \in SObjects
  BY DEF TypeOK, CallOK
<1>2. LacksId(rec) => counters[s] < MaxCounter
  BY DEF ExecInsert
<1>3. new \in SUBSET Ids /\ x \in Ids
  BY <1>1, <1>2, NewIdType DEF Inputs, TypeOK, LacksId
<1>4. counters' \in [SObjects -> 0..MaxCounter]
  BY <1>1, <1>2, EngineAssumption DEF ExecInsert, TypeOK
<1>5. CASE err # "none" /\ Fail(err, x, new)
  <2>1. err \in {"table", "column", "duplicate", "noid"}
    BY <1>5 DEF InsertError, SqlError
  <2> HIDE DEF s, new, x, err
  <2>2. QED
    BY <1>3, <1>4, <1>5, <2>1, FailType DEF TypeOK
<1>6. CASE Store(s, WithRow(rows[s], x, Column(rec))) /\ Accept(new)
  <2>1. RowsOK'
    <3> HIDE DEF s, x
    <3> DEFINE t == WithRow(rows[s], x, Column(rec))
    <3>1. Table(t)
      BY <1>1, <1>3, TableType, ColumnType, WithRowType
    <3>2. Store(s, t)
      BY <1>6
    <3> HIDE DEF t
    <3>3. QED
      BY <1>1, <3>1, <3>2, StoreType
  <2> HIDE DEF s, new, x
  <2>2. QED
    BY <1>3, <1>4, <1>6, <2>1, AcceptType DEF TypeOK
<1>7. QED
  BY <1>5, <1>6 DEF ExecInsert

LEMMA ExecUpdateType ==
  ASSUME TypeOK, call.op # "idle", call.done < MaxBatch,
         NEW rec \in Inputs, rec.id # Absent, ExecUpdate(rec)
  PROVE  TypeOK'
<1> DEFINE s == call.obj
           err == SqlError(s, rec)
<1>1. s \in SObjects
  BY DEF TypeOK, CallOK
<1>2. counters' \in [SObjects -> 0..MaxCounter]
  BY DEF ExecUpdate, TypeOK
<1>3. CASE Accept({}) /\ UNCHANGED rows
  <2>1. RowsOK'
    BY <1>3 DEF TypeOK, RowsOK
  <2>2. QED
    BY <1>2, <1>3, <2>1, AcceptType DEF TypeOK
<1>4. CASE err # "none" /\ Fail(err, rec.id, {})
  <2>1. err \in {"table", "column", "duplicate", "noid"}
    BY <1>4 DEF SqlError
  <2>2. rec.id \in Ids \cup {Absent}
    BY DEF Inputs, TypeOK
  <2> HIDE DEF s, err
  <2>3. QED
    BY <1>2, <1>4, <2>1, <2>2, FailType DEF TypeOK
<1>5. CASE Accept({}) /\ Store(s, SetRow(rows[s], rec.id, Column(rec)))
  <2> DEFINE t == SetRow(rows[s], rec.id, Column(rec))
  <2>1. Table(t)
    BY <1>1, TableType, ColumnType, SetRowType
  <2>2. Store(s, t)
    BY <1>5
  <2> HIDE DEF s, t
  <2>3. RowsOK'
    BY <1>1, <2>1, <2>2, StoreType
  <2>4. QED
    BY <1>2, <1>5, <2>3, AcceptType DEF TypeOK
<1>6. QED
  BY <1>3, <1>4, <1>5 DEF ExecUpdate

LEMMA ExecRekeyType ==
  ASSUME TypeOK, call.op # "idle", call.done < MaxBatch,
         NEW rec \in Inputs, NEW match \in SUBSET DOMAIN rows[call.obj],
         ExecRekey(rec, match)
  PROVE  TypeOK'
<1> DEFINE s == call.obj
<1>1. s \in SObjects
  BY DEF TypeOK, CallOK
<1>2. counters' \in [SObjects -> 0..MaxCounter]
  BY DEF ExecRekey, TypeOK
<1>3. CASE Accept({}) /\ UNCHANGED rows
  <2>1. RowsOK'
    BY <1>3 DEF TypeOK, RowsOK
  <2>2. QED
    BY <1>2, <1>3, <2>1, AcceptType DEF TypeOK
<1>4. CASE Fail("duplicate", rec.id, {})
  <2>1. rec.id \in Ids \cup {Absent}
    BY DEF Inputs, TypeOK
  <2>2. QED
    BY <1>2, <1>4, <2>1, FailType DEF TypeOK
<1>5. ASSUME NEW x \in match, rec.id # Absent, Accept({}),
             Store(s, Renamed(rows[s], x, rec.id))
      PROVE  TypeOK'
  <2> DEFINE t == Renamed(rows[s], x, rec.id)
  <2>1. rec.id \in Ids
    BY <1>5 DEF Inputs, TypeOK
  <2>2. Table(t)
    BY <1>1, <2>1, TableType, RenamedType
  <2> HIDE DEF t
  <2>3. RowsOK'
    BY <1>1, <1>5, <2>2, StoreType DEF t
  <2>4. QED
    BY <1>2, <1>5, <2>3, AcceptType DEF TypeOK
<1>6. QED
  BY <1>3, <1>4, <1>5 DEF ExecRekey

(* One turn of any of the four loops. *)
RecordStep(rec) ==
  InsertRecord(rec) \/ UpdateRecord(rec) \/ DeleteRecord(rec) \/ UpsertRecord(rec)

LEMMA RecordStepType ==
  ASSUME TypeOK, NEW rec \in Inputs, RecordStep(rec)
  PROVE  TypeOK'
<1>1. call.op # "idle" /\ call.done < MaxBatch
  BY DEF RecordStep, InsertRecord, UpdateRecord, DeleteRecord, UpsertRecord, Turn
<1>2. call.obj \in SObjects
  BY <1>1 DEF TypeOK, CallOK
<1>3. rec.id \in Ids \cup {Absent}
  BY DEF Inputs, TypeOK
<1>4. ASSUME NEW err \in {"table", "noid"}, Fail(err, rec.id, {}),
             UNCHANGED counters
      PROVE  TypeOK'
  BY <1>1, <1>3, <1>4, FailType DEF TypeOK
<1>5. CASE InsertRecord(rec)
  BY <1>1, <1>5, ExecInsertType DEF InsertRecord
<1>6. CASE UpdateRecord(rec)
  BY <1>1, <1>4, <1>6, ExecUpdateType DEF UpdateRecord, LacksId
<1>7. CASE DeleteRecord(rec)
  <2>1. CASE Store(call.obj, WithoutRow(rows[call.obj], rec.id)) /\ Accept({})
    <3> DEFINE t == WithoutRow(rows[call.obj], rec.id)
    <3>1. Table(t)
      BY <1>2, TableType, WithoutRowType
    <3> HIDE DEF t
    <3>2. RowsOK'
      BY <1>2, <2>1, <3>1, StoreType DEF t
    <3>3. counters' = counters
      BY <1>7 DEF DeleteRecord
    <3>4. QED
      BY <1>1, <2>1, <3>2, <3>3, AcceptType DEF TypeOK
  <2>2. QED
    BY <1>4, <1>7, <2>1 DEF DeleteRecord
<1>8. CASE UpsertRecord(rec)
  <2> DEFINE match == Matches(call.obj, rec)
  <2>1. match \in SUBSET DOMAIN rows[call.obj]
    BY DEF Matches
  <2>2. CASE ExecInsert(rec)
    BY <1>1, <2>2, ExecInsertType
  <2>3. CASE match # {} /\ call.key # "ext" /\ ExecUpdate(rec)
    <3>1. rec.id # Absent
      BY <1>2, <2>3, EngineAssumption DEF Matches, TypeOK, RowsOK
    <3>2. QED
      BY <1>1, <2>3, <3>1, ExecUpdateType
  <2>4. CASE ExecRekey(rec, match)
    <3> HIDE DEF match
    <3>1. QED
      BY <1>1, <2>1, <2>4, ExecRekeyType
  <2>5. QED
    BY <1>8, <2>2, <2>3, <2>4 DEF UpsertRecord
<1>9. QED
  BY <1>5, <1>6, <1>7, <1>8 DEF RecordStep

LEMMA ResetType ==
  ASSUME TypeOK, NEW keep \in SUBSET held, Reset(keep)
  PROVE  TypeOK'
<1>1. RowsOK'
  BY DEF TypeOK, RowsOK, Reset, Empty
<1>2. counters' \in [SObjects -> 0..MaxCounter]
  BY EngineAssumption DEF Reset
<1>3. CallOK' /\ OutcomeOK'
  BY DEF TypeOK, CallOK, OutcomeOK, Reset, Fine
<1>4. carried' \subseteq held' /\ held' \subseteq Ids
  BY DEF TypeOK, Reset, Ids
<1>5. QED
  BY <1>1, <1>2, <1>3, <1>4 DEF TypeOK, Reset

(* Every step keeps the types. *)
LEMMA StepType == TypeOK /\ [Next]_vars => TypeOK'
<1> SUFFICES ASSUME TypeOK, [Next]_vars PROVE TypeOK'
  OBVIOUS
<1>1. ASSUME NEW s \in SObjects, EnsureTable(s)
      PROVE  schema' \subseteq SObjects /\ tables' \subseteq SObjects
  BY <1>1 DEF EnsureTable, TypeOK
<1>2. ASSUME NEW s \in SObjects, Insert(s) PROVE TypeOK'
  BY <1>1, <1>2, BeginType DEF Insert, Keys
<1>3. ASSUME NEW s \in SObjects, Update(s) PROVE TypeOK'
  BY <1>3, BeginType DEF Update, TypeOK, Keys
<1>4. ASSUME NEW s \in SObjects, Delete(s) PROVE TypeOK'
  BY <1>4, BeginType DEF Delete, TypeOK, Keys
<1>5. ASSUME NEW s \in SObjects, NEW k \in Keys, Upsert(s, k)
      PROVE  TypeOK'
  BY <1>1, <1>5, BeginType DEF Upsert
<1>6. ASSUME NEW s \in SObjects, Query(s) PROVE TypeOK'
  <2>1. RowsOK' /\ CallOK'
    BY <1>6 DEF TypeOK, RowsOK, CallOK, Query
  <2>2. OutcomeOK'
    BY <1>6 DEF OutcomeOK, Query, Fine
  <2>3. QED
    BY <1>1, <1>6, <2>1, <2>2 DEF TypeOK, Query
<1>7. ASSUME NEW rec \in Inputs, RecordStep(rec) PROVE TypeOK'
  BY <1>7, RecordStepType
<1>8. CASE Finish
  <2>1. RowsOK' /\ OutcomeOK'
    BY <1>8 DEF TypeOK, RowsOK, OutcomeOK, Finish, db
  <2>2. CallOK'
    BY <1>8, EngineAssumption DEF CallOK, Finish, Idle, Keys
  <2>3. held' \subseteq Ids
    BY <1>8 DEF TypeOK, CallOK, Finish
  <2>4. QED
    BY <1>8, <2>1, <2>2, <2>3 DEF TypeOK, Finish, db
<1>9. ASSUME NEW keep \in SUBSET held, Reset(keep) PROVE TypeOK'
  BY <1>9, ResetType
<1>10. CASE UNCHANGED vars
  BY <1>10 DEF vars, db, TypeOK, RowsOK, CallOK, OutcomeOK
<1>11. QED
  BY <1>2, <1>3, <1>4, <1>5, <1>6, <1>7, <1>8, <1>9, <1>10
     DEF Next, RecordStep, Inputs

LEMMA InitType == Init => TypeOK
<1> SUFFICES ASSUME Init PROVE TypeOK
  OBVIOUS
<1>1. RowsOK
  BY DEF Init, RowsOK, Empty
<1>2. CallOK /\ OutcomeOK
  BY EngineAssumption DEF Init, CallOK, OutcomeOK, Idle, Fine, Keys
<1>3. counters \in [SObjects -> 0..MaxCounter]
  BY EngineAssumption DEF Init
<1>4. QED
  BY <1>1, <1>2, <1>3, EngineAssumption DEF Init, TypeOK, Ids

(* Every variable of the engine keeps its type: rows have ids and known    *)
(* columns, counters stay within their bound, a call names an object.      *)
THEOREM EngineTypeCorrect == Spec => []TypeOK
BY InitType, StepType, PTL DEF Spec

----------------------------------------------------------------------------
(* Where ids come from.  What is brought in or issued stays so until the   *)
(* next reset, when nothing else is left: the rows are gone and the test   *)
(* holds only what it brings in.                                           *)

Sourced == carried \cup Issued

LEMMA IssuedGrows ==
  ASSUME TypeOK, NEW s \in SObjects, counters[s] < MaxCounter,
         counters' = [counters EXCEPT ![s] = @ + 1]
  PROVE  /\ Issued \subseteq Issued'
         /\ NewId(s, counters[s] + 1) \in Issued'
<1>1. counters \in [SObjects -> Nat] /\ counters' \in [SObjects -> Nat]
  BY EngineAssumption DEF TypeOK
<1>2. \A t \in SObjects : counters[t] <= counters'[t]
  BY <1>1
<1>3. Issued \subseteq Issued'
  <2>1. ASSUME NEW t \in SObjects, NEW n \in 1..counters[t]
        PROVE  n \in 1..counters'[t]
    BY <1>1, <1>2, <2>1
  <2>2. QED
    BY <2>1 DEF Issued, Ids, NewId
<1>4. counters[s] + 1 \in 1..counters'[s]
  BY <1>1
<1>5. NewId(s, counters[s] + 1) \in Ids
  BY NewIdType
<1>6. QED
  BY <1>3, <1>4, <1>5 DEF Issued, NewId

(* A row that a turn writes has its id from the record, which the test     *)
(* holds, or from the generator.                                           *)
LEMMA ExecInsertSource ==
  ASSUME TypeOK, IdsHaveASource, call.op # "idle",
         NEW rec \in Inputs, ExecInsert(rec)
  PROVE  /\ IdsHaveASource'
         /\ GeneratedIdIsFree'
         /\ MissingTableMeansUnseen'
<1> DEFINE s   == call.obj
           new == IF LacksId(rec) THEN {NewId(s, counters[s] + 1)} ELSE {}
           x   == IF LacksId(rec) THEN NewId(s, counters[s] + 1) ELSE rec.id
           err == InsertError(s, x, rec)
<1>1. s \in SObjects /\ counters \in [SObjects -> Nat]
  BY EngineAssumption DEF TypeOK, CallOK
<1>2. LacksId(rec) => counters[s] < MaxCounter
  BY DEF ExecInsert
<1>3. carried' = carried /\ schema' = schema /\ tables' = tables
  BY DEF ExecInsert, Accept, Fail
<1>4. Sourced \subseteq Sourced' /\ new \subseteq Sourced'
  <2>1. CASE LacksId(rec)
    BY <1>1, <1>2, <1>3, <2>1, IssuedGrows DEF ExecInsert, Sourced
  <2>2. CASE ~LacksId(rec)
    BY <1>3, <2>2 DEF ExecInsert, Sourced, Issued
  <2>3. QED
    BY <2>1, <2>2
<1>5. x \in Sourced'
  BY <1>4 DEF Inputs, IdsHaveASource, Sourced, LacksId
<1>6. ASSUME NEW t \in SObjects
      PROVE  /\ DOMAIN rows[t] \subseteq Sourced'
             /\ t \notin tables => rows[t] = Empty
  BY <1>4 DEF IdsHaveASource, Sourced
<1>7. CASE err # "none" /\ Fail(err, x, new)
  <2>1. IdsHaveASource'
    <3>1. held' \cup call'.gen \subseteq Sourced'
      BY <1>4, <1>7 DEF Fail, Idle, IdsHaveASource, Sourced
    <3>2. rows' = rows /\ call'.op = "idle"
      BY <1>7 DEF Fail, Idle
    <3>3. QED
      BY <1>3, <1>6, <3>1, <3>2 DEF IdsHaveASource, Sourced
  <2>2. outcome' = [err |-> err, obj |-> s, id |-> x, fresh |-> new # {}]
    BY <1>7 DEF Fail
  <2>3. ASSUME err = "duplicate", LacksId(rec)
        PROVE  x \in carried \/
               \E t \in SObjects \ {s} : \E n \in 1..counters'[t] : x = NewId(t, n)
    <3>1. x \in DOMAIN rows[s] /\ x = NewId(s, counters[s] + 1)
      BY <2>3 DEF InsertError, SqlError
    <3>2. SUFFICES ASSUME NEW t \in SObjects, NEW n \in 1..counters[t],
                          x = NewId(t, n)
                   PROVE  t # s /\ n \in 1..counters'[t]
      BY <1>1, <3>1, <3>2 DEF IdsHaveASource, Issued
    <3>3. t # s
      <4>1. SUFFICES ASSUME t = s PROVE FALSE
        OBVIOUS
      <4>2. n = counters[s] + 1
        BY <3>1, <3>2, <4>1 DEF NewId
      <4>3. QED
        BY <1>1, <4>1, <4>2
    <3>4. counters'[t] = counters[t]
      BY <1>1, <2>3, <3>3 DEF ExecInsert
    <3>5. QED
      BY <3>3, <3>4
  <2>4. GeneratedIdIsFree'
    <3>1. new # {} => LacksId(rec)
      OBVIOUS
    <3> HIDE DEF s, x, err, new
    <3>2. QED
      BY <1>3, <2>2, <2>3, <3>1 DEF GeneratedIdIsFree
  <2>5. MissingTableMeansUnseen'
    <3>1. err = "table" => s \notin schema
      BY DEF InsertError, SqlError, IdsHaveASource
    <3> HIDE DEF s, x, err, new
    <3>2. QED
      BY <1>3, <2>2, <3>1 DEF MissingTableMeansUnseen
  <2>6. QED
    BY <2>1, <2>4, <2>5
<1>8. CASE err = "none" /\ Store(s, WithRow(rows[s], x, Column(rec))) /\ Accept(new)
  <2>1. s \in tables
    BY <1>8 DEF InsertError, SqlError
  <2>2. rows' = [rows EXCEPT ![s] = WithRow(rows[s], x, Column(rec))]
    BY <1>8 DEF Store
  <2>3. DOMAIN WithRow(rows[s], x, Column(rec)) = DOMAIN rows[s] \cup {x}
    BY DEF WithRow
  <2>4. ASSUME NEW t \in SObjects
        PROVE  /\ DOMAIN rows'[t] \subseteq Sourced'
               /\ t \notin tables => rows'[t] = Empty
    <3> HIDE DEF x, s
    <3>1. DOMAIN rows = SObjects
      BY DEF TypeOK, RowsOK
    <3>2. CASE t = s
      BY <1>5, <1>6, <2>1, <2>2, <2>3, <3>1, <3>2
    <3>3. CASE t # s
      BY <1>6, <2>2, <3>1, <3>3
    <3>4. QED
      BY <3>2, <3>3
  <2>5. outcome' = Fine
    BY <1>8 DEF Accept, IdsHaveASource
  <2>6. held' \cup call'.gen \subseteq Sourced'
    <3>1. call'.gen = call.gen \cup new /\ held' = held
      BY <1>8 DEF Accept, TypeOK, CallOK
    <3>2. QED
      BY <1>4, <3>1 DEF IdsHaveASource, Sourced
  <2>7. QED
    BY <1>3, <2>4, <2>5, <2>6
       DEF IdsHaveASource, Sourced, GeneratedIdIsFree, MissingTableMeansUnseen,
           Fine
<1>9. QED
  BY <1>7, <1>8 DEF ExecInsert

Sources == IdsHaveASource /\ GeneratedIdIsFree /\ MissingTableMeansUnseen

(* The other steps issue no id, so they only have to leave ids where they  *)
(* are: in rows, in the test's hands, or nowhere.                          *)
LEMMA QuietSource ==
  ASSUME IdsHaveASource, UNCHANGED <<counters, carried>>,
         schema' \subseteq tables',
         held' \cup call'.gen \subseteq held \cup call.gen,
         call'.op # "idle" => outcome' = Fine,
         \A t \in SObjects : /\ DOMAIN rows'[t] \subseteq DOMAIN rows[t] \cup held
                             /\ t \notin tables' => rows'[t] = Empty,
         outcome'.err = "duplicate" => ~outcome'.fresh,
         outcome'.err = "table" => outcome'.obj \notin schema'
  PROVE  Sources'
<1>1. Sourced' = Sourced
  BY DEF Sourced, Issued
<1>2. IdsHaveASource'
  BY <1>1 DEF IdsHaveASource, Sourced
<1>3. GeneratedIdIsFree' /\ MissingTableMeansUnseen'
  BY DEF GeneratedIdIsFree, MissingTableMeansUnseen
<1>4. QED
  BY <1>2, <1>3 DEF Sources

LEMMA QuietFail ==
  ASSUME IdsHaveASource, UNCHANGED counters,
         NEW err, NEW x, Fail(err, x, {}),
         err = "table" => call.obj \notin schema
  PROVE  Sources'
<1>1. outcome'.fresh = FALSE /\ outcome'.err = err /\ outcome'.obj = call.obj
  BY DEF Fail
<1>2. held' \cup call'.gen \subseteq held \cup call.gen /\ call'.op = "idle"
  BY DEF Fail, Idle
<1>3. UNCHANGED <<schema, tables, rows, carried>>
  BY DEF Fail
<1>4. \A t \in SObjects : t \notin tables' => rows'[t] = Empty
  BY <1>3 DEF IdsHaveASource
<1>5. QED
  BY <1>1, <1>2, <1>3, <1>4, QuietSource DEF IdsHaveASource

LEMMA QuietAccept ==
  ASSUME TypeOK, IdsHaveASource, call.op # "idle", UNCHANGED counters,
         Accept({}),
         \A t \in SObjects : /\ DOMAIN rows'[t] \subseteq DOMAIN rows[t] \cup held
                             /\ t \notin tables => rows'[t] = Empty
  PROVE  Sources'
<1>1. outcome' = Fine /\ UNCHANGED <<schema, tables, held, carried>>
  BY DEF Accept, IdsHaveASource
<1>2. call'.gen = call.gen
  BY DEF Accept, TypeOK, CallOK
<1>3. QED
  BY <1>1, <1>2, QuietSource DEF IdsHaveASource, Fine

(* Storing one table whose ids are old ones or the test's. *)
LEMMA QuietStore ==
  ASSUME TypeOK, IdsHaveASource, call.op # "idle", UNCHANGED counters,
         Accept({}), NEW s \in SObjects, NEW t, Store(s, t),
         DOMAIN t \subseteq DOMAIN rows[s] \cup held,
         s \notin tables => t = Empty
  PROVE  Sources'
<1>1. \A u \in SObjects : rows'[u] = IF u = s THEN t ELSE rows[u]
  BY DEF Store, TypeOK, RowsOK
<1>2. \A u \in SObjects : /\ DOMAIN rows'[u] \subseteq DOMAIN rows[u] \cup held
                          /\ u \notin tables => rows'[u] = Empty
  BY <1>1 DEF IdsHaveASource
<1>3. QED
  BY <1>2, QuietAccept

LEMMA ExecUpdateSource ==
  ASSUME TypeOK, Sources, call.op # "idle", NEW rec \in Inputs, ExecUpdate(rec)
  PROVE  Sources'
<1> DEFINE s   == call.obj
           err == SqlError(s, rec)
<1>1. s \in SObjects /\ UNCHANGED counters /\ IdsHaveASource
  BY DEF TypeOK, CallOK, ExecUpdate, Sources
<1>2. CASE Accept({}) /\ UNCHANGED rows
  BY <1>1, <1>2, QuietAccept DEF IdsHaveASource
<1>3. CASE err # "none" /\ Fail(err, rec.id, {})
  <2>1. err = "table" => s \notin schema
    BY <1>1 DEF SqlError, IdsHaveASource
  <2> HIDE DEF err
  <2>2. QED
    BY <1>1, <1>3, <2>1, QuietFail
<1>4. CASE /\ err = "none" /\ Accept({})
           /\ Store(s, SetRow(rows[s], rec.id, Column(rec)))
  <2> DEFINE t == SetRow(rows[s], rec.id, Column(rec))
  <2>1. s \in tables
    BY <1>4 DEF SqlError
  <2>2. DOMAIN t \subseteq DOMAIN rows[s] \cup held
    BY DEF SetRow
  <2>3. Store(s, t)
    BY <1>4
  <2> HIDE DEF t, s
  <2>4. QED
    BY <1>1, <1>4, <2>1, <2>2, <2>3, QuietStore
<1>5. QED
  BY <1>2, <1>3, <1>4 DEF ExecUpdate

LEMMA ExecRekeySource ==
  ASSUME TypeOK, Sources, call.op # "idle", NEW rec \in Inputs,
         NEW match \in SUBSET DOMAIN rows[call.obj], ExecRekey(rec, match)
  PROVE  Sources'
<1> DEFINE s == call.obj
<1>1. s \in SObjects /\ UNCHANGED counters /\ IdsHaveASource
  BY DEF TypeOK, CallOK, ExecRekey, Sources
<1>2. CASE Accept({}) /\ UNCHANGED rows
  BY <1>1, <1>2, QuietAccept DEF IdsHaveASource
<1>3. CASE Fail("duplicate", rec.id, {})
  BY <1>1, <1>3, QuietFail
<1>4. ASSUME NEW x \in match, rec.id # Absent, Accept({}),
             Store(s, Renamed(rows[s], x, rec.id))
      PROVE  Sources'
  <2> DEFINE t == Renamed(rows[s], x, rec.id)
  <2>1. s \in tables
    BY <1>1, <1>4 DEF IdsHaveASource, Empty
  <2>2. DOMAIN t \subseteq DOMAIN rows[s] \cup held
    BY <1>4 DEF Renamed, WithRow, WithoutRow, Inputs
  <2>3. Store(s, t)
    BY <1>4
  <2> HIDE DEF t, s
  <2>4. QED
    BY <1>1, <1>4, <2>1, <2>2, <2>3, QuietStore
<1>5. QED
  BY <1>2, <1>3, <1>4 DEF ExecRekey

LEMMA RecordStepSource ==
  ASSUME TypeOK, Sources, NEW rec \in Inputs, RecordStep(rec)
  PROVE  Sources'
<1>1. call.op # "idle" /\ IdsHaveASource
  BY DEF RecordStep, InsertRecord, UpdateRecord, DeleteRecord, UpsertRecord,
         Turn, Sources
<1>2. call.obj \in SObjects
  BY <1>1 DEF TypeOK, CallOK
<1>3. CASE ExecInsert(rec)
  BY <1>1, <1>3, ExecInsertSource DEF Sources
<1>4. CASE ExecUpdate(rec)
  BY <1>1, <1>4, ExecUpdateSource
<1>5. CASE Fail("noid", rec.id, {}) /\ UNCHANGED counters
  BY <1>1, <1>5, QuietFail
<1>6. CASE DeleteRecord(rec)
  <2>1. UNCHANGED counters
    BY <1>6 DEF DeleteRecord
  <2>2. CASE call.obj \notin tables /\ Fail("table", rec.id, {})
    BY <1>1, <2>1, <2>2, QuietFail DEF IdsHaveASource
  <2>3. CASE /\ call.obj \in tables /\ Accept({})
             /\ Store(call.obj, WithoutRow(rows[call.obj], rec.id))
    <3> DEFINE t == WithoutRow(rows[call.obj], rec.id)
    <3>1. DOMAIN t \subseteq DOMAIN rows[call.obj] \cup held
      BY DEF WithoutRow
    <3>2. Store(call.obj, t)
      BY <2>3
    <3> HIDE DEF t
    <3>3. QED
      BY <1>1, <1>2, <2>1, <2>3, <3>1, <3>2, QuietStore
  <2>4. QED
    BY <1>5, <1>6, <2>1, <2>2, <2>3 DEF DeleteRecord
<1>7. CASE ExecRekey(rec, Matches(call.obj, rec))
  <2>1. Matches(call.obj, rec) \in SUBSET DOMAIN rows[call.obj]
    BY DEF Matches
  <2>2. QED
    BY <1>1, <1>7, <2>1, ExecRekeySource
<1>8. QED
  BY <1>3, <1>4, <1>5, <1>6, <1>7
     DEF RecordStep, InsertRecord, UpdateRecord, UpsertRecord

LEMMA BeginSource ==
  ASSUME TypeOK, Sources, NEW op, NEW s, NEW k, Begin(op, s, k),
         schema' \subseteq tables', tables \subseteq tables'
  PROVE  Sources'
<1>1. UNCHANGED <<rows, counters, held, carried>> /\ outcome' = Fine
      /\ call'.gen = {} /\ IdsHaveASource
  BY DEF Begin, Sources
<1>2. \A t \in SObjects : t \notin tables' => rows'[t] = Empty
  BY <1>1 DEF IdsHaveASource
<1>3. QED
  BY <1>1, <1>2, QuietSource DEF Fine

LEMMA StepSource == TypeOK /\ Sources /\ [Next]_vars => Sources'
<1> SUFFICES ASSUME TypeOK, Sources, [Next]_vars PROVE Sources'
  OBVIOUS
<1>1. IdsHaveASource /\ schema \subseteq tables
  BY DEF Sources, IdsHaveASource
<1>2. ASSUME NEW s \in SObjects, EnsureTable(s)
      PROVE  schema' \subseteq tables' /\ tables \subseteq tables'
  BY <1>1, <1>2 DEF EnsureTable
<1>3. ASSUME NEW s \in SObjects,
             Insert(s) \/ Update(s) \/ Delete(s)
             \/ \E k \in Keys : Upsert(s, k)
      PROVE  Sources'
  BY <1>1, <1>2, <1>3, BeginSource DEF Insert, Update, Delete, Upsert
<1>4. ASSUME NEW s \in SObjects, Query(s) PROVE Sources'
  <2>1. UNCHANGED <<rows, counters, call, held, carried>> /\ outcome' = Fine
    BY <1>4 DEF Query
  <2>2. schema' \subseteq tables' /\ tables \subseteq tables'
    BY <1>2, <1>4 DEF Query
  <2>3. \A t \in SObjects : t \notin tables' => rows'[t] = Empty
    BY <1>1, <2>1, <2>2 DEF IdsHaveASource
  <2>4. QED
    BY <1>1, <2>1, <2>2, <2>3, QuietSource DEF Fine
<1>5. ASSUME NEW rec \in Inputs, RecordStep(rec) PROVE Sources'
  BY <1>5, RecordStepSource
<1>6. CASE Finish
  <2>1. outcome' = Fine /\ call' = Idle /\ held' = held \cup call.gen
        /\ UNCHANGED <<schema, tables, rows, counters, carried>>
    BY <1>1, <1>6 DEF Finish, db, IdsHaveASource
  <2>2. call'.gen = {} /\ call'.op = "idle"
    BY <2>1 DEF Idle
  <2>3. \A t \in SObjects : t \notin tables' => rows'[t] = Empty
    BY <1>1, <2>1 DEF IdsHaveASource
  <2>4. QED
    BY <1>1, <2>1, <2>2, <2>3, QuietSource DEF Fine
<1>7. ASSUME NEW keep \in SUBSET held, Reset(keep) PROVE Sources'
  <2>1. \A s \in SObjects : rows'[s] = Empty
    BY <1>1, <1>7 DEF Reset, IdsHaveASource
  <2>2. held' = carried' /\ call' = call /\ outcome' = Fine /\ call.op = "idle"
        /\ UNCHANGED <<schema, tables>>
    BY <1>7 DEF Reset
  <2>3. call.gen = {}
    BY <2>2 DEF TypeOK, CallOK, Idle
  <2>4. IdsHaveASource'
    BY <1>1, <2>1, <2>2, <2>3 DEF IdsHaveASource, Empty
  <2>5. QED
    BY <2>2, <2>4 DEF Sources, GeneratedIdIsFree, MissingTableMeansUnseen, Fine
<1>8. CASE UNCHANGED vars
  BY <1>8 DEF vars, db, Sources, IdsHaveASource, GeneratedIdIsFree,
              MissingTableMeansUnseen, Issued
<1>9. QED
  BY <1>3, <1>4, <1>5, <1>6, <1>7, <1>8 DEF Next, RecordStep, Inputs

LEMMA InitSource == Init => Sources
<1> SUFFICES ASSUME Init PROVE Sources
  OBVIOUS
<1>1. IdsHaveASource
  BY DEF Init, IdsHaveASource, Empty, Idle
<1>2. QED
  BY <1>1 DEF Init, Sources, GeneratedIdIsFree, MissingTableMeansUnseen, Fine

LEMMA SourcesInvariant == Spec => [](TypeOK /\ Sources)
<1>1. Spec => []TypeOK
  BY EngineTypeCorrect
<1>2. Init => Sources
  BY InitSource
<1>3. TypeOK /\ Sources /\ [Next]_vars => Sources'
  BY StepSource
<1>4. QED
  BY <1>1, <1>2, <1>3, PTL DEF Spec

(* Every id of a row or in the test's hands was brought in or issued since *)
(* the last reset, and objects without a table have no row.                *)
THEOREM IdsAlwaysHaveASource == Spec => []IdsHaveASource
<1>1. TypeOK /\ Sources => IdsHaveASource
  BY DEF Sources
<1>2. QED
  BY <1>1, SourcesInvariant, PTL

(* Whatever the prefixes, a generated id meets a row only if the test      *)
(* brought that id in or another object issued it (id.go:39-60).           *)
THEOREM GeneratedIdsAreFree == Spec => []GeneratedIdIsFree
<1>1. TypeOK /\ Sources => GeneratedIdIsFree
  BY DEF Sources
<1>2. QED
  BY <1>1, SourcesInvariant, PTL

(* A statement fails for want of a table only on an object that no insert, *)
(* upsert or query has named in the life of the engine (engine.go:42-63).  *)
THEOREM MissingTablesAreUnseen == Spec => []MissingTableMeansUnseen
<1>1. TypeOK /\ Sources => MissingTableMeansUnseen
  BY DEF Sources
<1>2. QED
  BY <1>1, SourcesInvariant, PTL

(* A reset leaves no row of any object, with or without metadata, and every*)
(* counter at zero (engine.go:66-79).                                      *)
THEOREM TestsAlwaysStartClean == Spec => TestsStartClean
<1>1. TypeOK /\ Sources /\ [Next]_vars =>
        [\A keep \in {{}, held} : Reset(keep) =>
           \A s \in SObjects : rows'[s] = Empty /\ counters'[s] = 0]_vars
  BY DEF Sources, IdsHaveASource, Reset
<1>2. QED
  BY <1>1, SourcesInvariant, PTL DEF Spec, TestsStartClean

----------------------------------------------------------------------------
(* How many rows an insert has added so far.                               *)
HeadCounted ==
  call.op = "insert" =>
    Cardinality(DOMAIN rows[call.obj]) = call.base + call.done

LEMMA RowsFinite ==
  ASSUME TypeOK, NEW s \in SObjects
  PROVE  /\ IsFiniteSet(DOMAIN rows[s])
         /\ Cardinality(DOMAIN rows[s]) \in Nat
<1>1. DOMAIN rows[s] \in SUBSET Ids
  BY DEF TypeOK, RowsOK
<1>2. IsFiniteSet(DOMAIN rows[s])
  BY <1>1, IdsFinite, FS_Subset
<1>3. QED
  BY <1>2, FS_CardinalityType

LEMMA InsertCounts ==
  ASSUME TypeOK, HeadCounted, NEW rec, InsertRecord(rec) PROVE HeadCounted'
<1> DEFINE s   == call.obj
           new == IF LacksId(rec) THEN {NewId(s, counters[s] + 1)} ELSE {}
           x   == IF LacksId(rec) THEN NewId(s, counters[s] + 1) ELSE rec.id
           err == InsertError(s, x, rec)
           t   == WithRow(rows[s], x, Column(rec))
<1>1. call.op = "insert" /\ ExecInsert(rec)
  BY DEF InsertRecord, Turn
<1>2. s \in SObjects /\ call.base \in Nat /\ call.done \in Nat
  BY <1>1, EngineAssumption DEF TypeOK, CallOK
<1>3. CASE Fail(err, x, new)
  BY <1>3 DEF Fail, Idle, HeadCounted
<1>4. CASE err = "none" /\ Store(s, t) /\ Accept(new)
  <2>1. x \notin DOMAIN rows[s]
    BY <1>4 DEF InsertError
  <2>2. DOMAIN t = DOMAIN rows[s] \cup {x}
    BY DEF WithRow
  <2>3. rows'[s] = t
    BY <1>2, <1>4 DEF Store, TypeOK, RowsOK
  <2>4. call'.op = "insert" /\ call'.obj = s /\ call'.base = call.base
        /\ call'.done = call.done + 1
    BY <1>1, <1>4 DEF Accept, TypeOK, CallOK
  <2> HIDE DEF x, t
  <2>5. Cardinality(DOMAIN rows[s] \cup {x}) = Cardinality(DOMAIN rows[s]) + 1
    BY <1>2, <2>1, RowsFinite, FS_AddElement
  <2>6. Cardinality(DOMAIN rows[s]) = call.base + call.done
    BY <1>1 DEF HeadCounted
  <2>7. Cardinality(DOMAIN rows'[s]) = call.base + (call.done + 1)
    BY <1>2, <2>2, <2>3, <2>5, <2>6
  <2>8. QED
    BY <2>4, <2>7 DEF HeadCounted
<1>5. QED
  BY <1>1, <1>3, <1>4 DEF ExecInsert

(* A turn of another loop, or none, leaves no insert in progress. *)
LEMMA OtherTurn ==
  ASSUME TypeOK, NEW rec, UpdateRecord(rec) \/ DeleteRecord(rec) \/ UpsertRecord(rec)
  PROVE  call.op # "insert" /\ call'.op # "insert"
<1>1. call.op \notin {"insert", "idle"}
  BY DEF UpdateRecord, DeleteRecord, UpsertRecord, Turn
<1>2. ASSUME NEW new, Accept(new) PROVE call'.op = call.op
  BY <1>2 DEF Accept, TypeOK, CallOK
<1>3. ASSUME NEW err, NEW x, NEW new, Fail(err, x, new) PROVE call'.op = "idle"
  BY <1>3 DEF Fail, Idle
<1>4. (\E new : Accept(new)) \/ (\E err, x, new : Fail(err, x, new))
  BY DEF UpdateRecord, DeleteRecord, UpsertRecord, ExecInsert, ExecUpdate, ExecRekey
<1>5. QED
  BY <1>1, <1>2, <1>3, <1>4

LEMMA StepCounts == TypeOK /\ HeadCounted /\ [Next]_vars => HeadCounted'
<1> SUFFICES ASSUME TypeOK, HeadCounted, [Next]_vars PROVE HeadCounted'
  OBVIOUS
<1>1. ASSUME NEW op, NEW s \in SObjects, NEW k, Begin(op, s, k) PROVE HeadCounted'
  <2>1. Cardinality(DOMAIN rows[s]) \in Nat
    BY RowsFinite
  <2>2. call'.obj = s /\ call'.base = Cardinality(DOMAIN rows[s])
        /\ call'.done = 0 /\ rows' = rows
    BY <1>1 DEF Begin
  <2>3. QED
    BY <2>1, <2>2 DEF HeadCounted
<1>2. ASSUME NEW s \in SObjects,
             Insert(s) \/ Update(s) \/ Delete(s) \/ \E k \in Keys : Upsert(s, k)
      PROVE  HeadCounted'
  BY <1>1, <1>2 DEF Insert, Update, Delete, Upsert
<1>3. ASSUME NEW rec, InsertRecord(rec) PROVE HeadCounted'
  BY <1>3, InsertCounts
<1>4. ASSUME NEW rec, UpdateRecord(rec) \/ DeleteRecord(rec) \/ UpsertRecord(rec)
      PROVE  HeadCounted'
  BY <1>4, OtherTurn DEF HeadCounted
<1>5. CASE \/ \E s \in SObjects : Query(s)
           \/ \E keep \in {{}, held} : Reset(keep)
  <2>1. call' = call /\ call.op = "idle"
    BY <1>5 DEF Query, Reset
  <2>2. QED
    BY <2>1 DEF HeadCounted
<1>6. CASE Finish
  BY <1>6 DEF Finish, Idle, HeadCounted
<1>7. CASE UNCHANGED vars
  BY <1>7 DEF vars, db, HeadCounted
<1>8. QED
  BY <1>2, <1>3, <1>4, <1>5, <1>6, <1>7 DEF Next

(* An insert, however it ends, has added one row for each record it got    *)
(* through, for batches of any size (dml.go:18-30).                        *)
THEOREM InsertsAddTheirHead == Spec => InsertAddsItsHead
<1>1. Init => HeadCounted
  BY DEF Init, Idle, HeadCounted
<1>2. TypeOK /\ HeadCounted /\ [Next]_vars =>
        [call.op = "insert" /\ call'.op = "idle" =>
           Cardinality(DOMAIN rows'[call.obj]) = call.base + call.done]_vars
  <2> SUFFICES ASSUME TypeOK, HeadCounted, Next, call.op = "insert", call'.op = "idle"
               PROVE  rows' = rows
    BY DEF HeadCounted
  <2>1. ASSUME NEW rec, InsertRecord(rec) PROVE rows' = rows
    <3>1. ASSUME NEW new, Accept(new) PROVE FALSE
      BY <3>1 DEF Accept, TypeOK, CallOK
    <3>2. QED
      BY <2>1, <3>1 DEF InsertRecord, ExecInsert, Fail
  <2>2. ASSUME NEW rec, UpdateRecord(rec) \/ DeleteRecord(rec) \/ UpsertRecord(rec)
        PROVE  FALSE
    BY <2>2, OtherTurn
  <2>3. CASE Finish
    BY <2>3 DEF Finish, db
  <2>4. QED
    BY <2>1, <2>2, <2>3
       DEF Next, Insert, Update, Delete, Upsert, Begin, Query, Reset
<1>3. QED
  BY <1>1, <1>2, StepCounts, EngineTypeCorrect, PTL DEF Spec, InsertAddsItsHead

----------------------------------------------------------------------------
(* Engine implements RecordStore: the steps of the engine, by what they do *)
(* to the rows.                                                            *)
Busy == call.op # "idle"

LEMMA StoreKind ==
  ASSUME TypeOK, Busy
  PROVE  /\ call.op \in Stored!Kinds /\ call.obj \in SObjects
         /\ Table(rows[call.obj]) /\ DOMAIN rows = SObjects
BY TableType DEF TypeOK, CallOK, RowsOK, Busy, Stored!Kinds

LEMMA EmptyStore ==
  [s \in SObjects |-> Empty]
    = [s \in SObjects |-> [x \in {} |-> CHOOSE v \in Data : TRUE]]
BY DEF Empty

(* The call goes on, on the same object. *)
LEMMA AcceptKeeps ==
  ASSUME TypeOK, NEW new, Accept(new)
  PROVE  UNCHANGED <<call.op, call.obj>>
BY DEF TypeOK, CallOK, Accept

LEMMA SameStore ==
  ASSUME TypeOK, NEW new, Accept(new), rows' = rows
  PROVE  UNCHANGED Stored!vars
BY AcceptKeeps DEF Stored!vars

LEMMA FailStops ==
  ASSUME TypeOK, Busy, NEW err, NEW x, NEW new, Fail(err, x, new)
  PROVE  Stored!Next
<1>1. Stored!Stop
  BY DEF Fail, Idle, Busy, Stored!Stop
<1>2. QED
  BY <1>1 DEF Stored!Next

LEMMA InsertCreates ==
  ASSUME TypeOK, call.op \in {"insert", "upsert"}, NEW rec \in Inputs, ExecInsert(rec)
  PROVE  Stored!Next
<1> DEFINE s   == call.obj
           new == IF LacksId(rec) THEN {NewId(s, counters[s] + 1)} ELSE {}
           x   == IF LacksId(rec) THEN NewId(s, counters[s] + 1) ELSE rec.id
           v   == Column(rec)
           err == InsertError(s, x, rec)
<1>1. s \in SObjects /\ Busy /\ Table(rows[s]) /\ DOMAIN rows = SObjects
  BY StoreKind DEF Busy
<1>2. x \in Ids
  <2>1. LacksId(rec) => counters[s] < MaxCounter
    BY DEF ExecInsert
  <2>2. QED
    BY <1>1, <2>1, NewIdType DEF Inputs, TypeOK, LacksId
<1>3. v \in Data
  BY ColumnType
<1>4. CASE Fail(err, x, new)
  BY <1>1, <1>4, FailStops
<1>5. CASE err = "none" /\ Store(s, WithRow(rows[s], x, v)) /\ Accept(new)
  <2>1. x \notin DOMAIN rows[s]
    BY <1>5 DEF InsertError
  <2>2. rows' = [rows EXCEPT ![s] = WithRow(rows[s], x, v)]
    BY <1>5 DEF Store
  <2>3. UNCHANGED <<call.op, call.obj>>
    BY <1>5, AcceptKeeps
  <2>4. <<call.op, call.obj>> \in {<<"insert", s>>, <<"upsert", s>>}
    OBVIOUS
  <2> HIDE DEF s, x, v
  <2>5. Stored!Create(s, x, v)
    BY <2>1, <2>2, <2>3, <2>4 DEF Stored!Create, WithRow
  <2>6. QED
    BY <1>1, <1>2, <1>3, <2>5 DEF Stored!Next
<1>6. QED
  BY <1>4, <1>5 DEF ExecInsert

LEMMA UpdateChanges ==
  ASSUME TypeOK, call.op \in {"update", "upsert"}, NEW rec \in Inputs, ExecUpdate(rec)
  PROVE  [Stored!Next]_Stored!vars
<1> DEFINE s == call.obj
           x == rec.id
           v == Column(rec)
           err == SqlError(s, rec)
<1>1. s \in SObjects /\ Busy /\ Table(rows[s]) /\ DOMAIN rows = SObjects
  BY StoreKind DEF Busy
<1>2. v \in Data
  BY ColumnType
<1>3. CASE Accept({}) /\ rows' = rows
  BY <1>3, SameStore
<1>4. CASE Fail(err, x, {})
  BY <1>1, <1>4, FailStops
<1>5. CASE Accept({}) /\ Store(s, SetRow(rows[s], x, v))
  <2>1. rows' = [rows EXCEPT ![s] = SetRow(rows[s], x, v)]
    BY <1>5 DEF Store
  <2>2. UNCHANGED <<call.op, call.obj>>
    BY <1>5, AcceptKeeps
  <2>3. <<call.op, call.obj>> \in {<<"update", s>>, <<"upsert", s>>}
    OBVIOUS
  <2> HIDE DEF s, x, v
  <2>4. CASE x \in DOMAIN rows[s]
    <3>1. x \in Ids
      BY <1>1, <2>4 DEF Table
    <3>2. SetRow(rows[s], x, v) = [rows[s] EXCEPT ![x] = v]
      BY <1>1, <2>4 DEF SetRow, Table
    <3>3. Stored!Change(s, x, v)
      BY <2>1, <2>2, <2>3, <2>4, <3>2 DEF Stored!Change
    <3>4. QED
      BY <1>1, <1>2, <3>1, <3>3 DEF Stored!Next
  <2>5. CASE x \notin DOMAIN rows[s]
    <3>1. SetRow(rows[s], x, v) = rows[s]
      BY <1>1, <2>5 DEF SetRow, Table
    <3>2. rows' = rows
      BY <1>1, <2>1, <3>1 DEF TypeOK, RowsOK
    <3>3. QED
      BY <2>2, <3>2 DEF Stored!vars
  <2>6. QED
    BY <2>4, <2>5
<1>6. QED
  BY <1>3, <1>4, <1>5 DEF ExecUpdate

LEMMA RekeyRekeys ==
  ASSUME TypeOK, call.op = "upsert", NEW rec \in Inputs,
         ExecRekey(rec, Matches(call.obj, rec))
  PROVE  [Stored!Next]_Stored!vars
<1> DEFINE s == call.obj
           match == Matches(s, rec)
           y == rec.id
<1>1. s \in SObjects /\ Busy /\ Table(rows[s]) /\ DOMAIN rows = SObjects
  BY StoreKind DEF Busy
<1>2. match \subseteq DOMAIN rows[s] /\ y \in Ids \cup {Absent}
  BY DEF Matches, Inputs, TypeOK
<1>3. CASE Accept({}) /\ rows' = rows
  BY <1>3, SameStore
<1>4. CASE Fail("duplicate", y, {})
  BY <1>1, <1>4, FailStops
<1>5. ASSUME NEW x \in match, y \notin DOMAIN rows[s] \cup {Absent},
             Store(s, Renamed(rows[s], x, y)), Accept({})
      PROVE  Stored!Next
  <2>1. rows' = [rows EXCEPT ![s] = Renamed(rows[s], x, y)]
    BY <1>5 DEF Store
  <2>2. UNCHANGED <<call.op, call.obj>> /\ <<call.op, call.obj>> = <<"upsert", s>>
    BY <1>5, AcceptKeeps
  <2> HIDE DEF s, match, y
  <2>3. x \in DOMAIN rows[s] /\ y \notin DOMAIN rows[s] /\ x \in Ids /\ y \in Ids
    BY <1>1, <1>2, <1>5 DEF Table
  <2>4. Renamed(rows[s], x, y) =
          [z \in (DOMAIN rows[s] \ {x}) \cup {y} |->
             IF z = y THEN rows[s][x] ELSE rows[s][z]]
    BY DEF Renamed, WithRow, WithoutRow
  <2>5. Stored!Rekey(s, x, y)
    BY <2>1, <2>2, <2>3, <2>4 DEF Stored!Rekey
  <2>6. QED
    BY <1>1, <2>3, <2>5 DEF Stored!Next
<1>6. QED
  BY <1>3, <1>4, <1>5 DEF ExecRekey

LEMMA DeleteRemoves ==
  ASSUME TypeOK, NEW rec \in Inputs, DeleteRecord(rec)
  PROVE  [Stored!Next]_Stored!vars
<1> DEFINE s == call.obj
           x == rec.id
<1>1. call.op = "delete"
  BY DEF DeleteRecord, Turn
<1>2. s \in SObjects /\ Busy /\ Table(rows[s]) /\ DOMAIN rows = SObjects
  BY <1>1, StoreKind DEF Busy
<1>3. ASSUME NEW err, Fail(err, x, {}) PROVE Stored!Next
  BY <1>2, <1>3, FailStops
<1>4. CASE Store(s, WithoutRow(rows[s], x)) /\ Accept({})
  <2>1. rows' = [rows EXCEPT ![s] = WithoutRow(rows[s], x)]
    BY <1>4 DEF Store
  <2>2. UNCHANGED <<call.op, call.obj>> /\ <<call.op, call.obj>> = <<"delete", s>>
    BY <1>1, <1>4, AcceptKeeps
  <2> HIDE DEF s, x
  <2>3. CASE x \in DOMAIN rows[s]
    <3>1. x \in Ids
      BY <1>2, <2>3 DEF Table
    <3>2. Stored!Remove(s, x)
      BY <2>1, <2>2, <2>3 DEF Stored!Remove, WithoutRow
    <3>3. QED
      BY <1>2, <3>1, <3>2 DEF Stored!Next
  <2>4. CASE x \notin DOMAIN rows[s]
    <3>1. WithoutRow(rows[s], x) = rows[s]
      BY <1>2, <2>4 DEF WithoutRow, Table
    <3>2. rows' = rows
      BY <1>2, <2>1, <3>1 DEF TypeOK, RowsOK
    <3>3. QED
      BY <2>2, <3>2 DEF Stored!vars
  <2>5. QED
    BY <2>3, <2>4
<1>5. QED
  BY <1>3, <1>4 DEF DeleteRecord

LEMMA TurnStores ==
  ASSUME TypeOK, NEW rec \in Inputs, RecordStep(rec)
  PROVE  [Stored!Next]_Stored!vars
<1>1. CASE InsertRecord(rec)
  BY <1>1, InsertCreates DEF InsertRecord, Turn
<1>2. CASE UpdateRecord(rec)
  <2>1. CASE Fail("noid", rec.id, {})
    BY <1>2, <2>1, FailStops DEF Busy, UpdateRecord, Turn
  <2>2. QED
    BY <1>2, <2>1, UpdateChanges DEF UpdateRecord, Turn
<1>3. CASE DeleteRecord(rec)
  BY <1>3, DeleteRemoves
<1>4. CASE UpsertRecord(rec)
  BY <1>4, InsertCreates, UpdateChanges, RekeyRekeys DEF UpsertRecord, Turn
<1>5. QED
  BY <1>1, <1>2, <1>3, <1>4 DEF RecordStep

LEMMA StepStores ==
  TypeOK /\ IdsHaveASource /\ [Next]_vars => [Stored!Next]_Stored!vars
<1> SUFFICES ASSUME TypeOK, IdsHaveASource, [Next]_vars
             PROVE  [Stored!Next]_Stored!vars
  OBVIOUS
<1>1. ASSUME NEW s \in SObjects, NEW k, NEW op \in Stored!Kinds, Begin(op, s, k)
      PROVE  Stored!Next
  <2>1. Stored!Start(op, s)
    BY <1>1 DEF Begin, Stored!Start
  <2>2. QED
    BY <1>1, <2>1 DEF Stored!Next
<1>2. ASSUME NEW s \in SObjects,
             Insert(s) \/ Update(s) \/ Delete(s) \/ \E k \in Keys : Upsert(s, k)
      PROVE  Stored!Next
  <2>1. {"insert", "update", "delete", "upsert"} \subseteq Stored!Kinds
    BY DEF Stored!Kinds
  <2>2. QED
    BY <1>1, <1>2, <2>1 DEF Insert, Update, Delete, Upsert
<1>3. ASSUME NEW rec \in Inputs, RecordStep(rec)
      PROVE  [Stored!Next]_Stored!vars
  BY <1>3, TurnStores
<1>4. CASE Finish
  <2>1. Stored!Stop
    BY <1>4 DEF Finish, Idle, db, Stored!Stop
  <2>2. QED
    BY <2>1 DEF Stored!Next
<1>5. ASSUME NEW keep, Reset(keep) PROVE Stored!Next
  <2>1. rows' = [s \in SObjects |-> Empty]
    BY <1>5 DEF Reset, IdsHaveASource
  <2>2. Stored!Wipe
    BY <1>5, <2>1, EmptyStore DEF Reset, Stored!Wipe
  <2>3. QED
    BY <2>2 DEF Stored!Next
<1>6. CASE UNCHANGED vars \/ \E s \in SObjects : Query(s)
  BY <1>6 DEF vars, db, Query, Stored!vars
<1>7. QED
  BY <1>2, <1>3, <1>4, <1>5, <1>6 DEF Next, RecordStep, Inputs

(* The engine implements the store of records: whatever tables, counters,  *)
(* batches and failures are, what its calls do to the rows is to create,   *)
(* change, remove or rename one record of the object of the call, each     *)
(* kind of call only in its ways, and to wipe them all between two tests.  *)
THEOREM EngineImplementsStore == Spec => StoreRefinement
<1>1. Init => Stored!Init
  BY EmptyStore DEF Init, Idle, Stored!Init
<1>2. QED
  BY <1>1, StepStores, EngineTypeCorrect, IdsAlwaysHaveASource, PTL
     DEF Spec, StoreRefinement, Stored!Spec
=============================================================================
