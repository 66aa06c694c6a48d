----------------------------- MODULE DmlProofs -----------------------------
(***************************************************************************)
(* Proofs about DML, for any objects, lists, users, permissions, triggers  *)
(* and depth of nesting.                                                   *)
(***************************************************************************)
EXTENDS Dml, EngineProofs, ListFacts

(* The list is gone through from its first element to its last. *)
LEMMA SObjectsOfSteps ==
  ASSUME NEW S, NEW l \in Seq(S \cup {Hole})
  PROVE \E g : /\ g[0] = <<>> /\ SObjectsOf(l) = g[Len(l)]
               /\ \A n \in 0..Len(l) : g[n] \in Seq(S)
               /\ \A n \in 0..(Len(l) - 1) :
                    g[n + 1] = IF l[n + 1] = Hole THEN g[n]
                               ELSE Append(g[n], l[n + 1])
<1> DEFINE Def(g, n) == IF n = 0 THEN <<>>
                        ELSE IF l[n] = Hole THEN g[n - 1]
                             ELSE Append(g[n - 1], l[n])
           Upto(m, g) == g = [n \in 0..m |-> Def(g, n)]
           N == Len(l)
           T == {m \in 0..N : \E g : Upto(m, g) /\ \A i \in 0..m : g[i] \in Seq(S)}
           kept == CHOOSE g : Upto(N, g)
<1>1. N \in Nat
  BY LenProperties
<1>2. 0 \in T
  <2> DEFINE g == [n \in 0..0 |-> <<>>]
  <2>1. Upto(0, g)
    OBVIOUS
  <2>2. g[0] \in Seq(S)
    OBVIOUS
  <2>3. \A i \in 0..0 : g[i] \in Seq(S)
    BY <2>2
  <2>4. \E f : Upto(0, f) /\ \A i \in 0..0 : f[i] \in Seq(S)
    <3> HIDE DEF g, Upto
    <3>1. QED
      BY <2>1, <2>3
  <2>5. QED
    BY <1>1, <2>4
<1>3. ASSUME NEW m \in 0..(N - 1), m \in T PROVE m + 1 \in T
  <2>1. PICK g : Upto(m, g) /\ \A i \in 0..m : g[i] \in Seq(S)
    BY <1>3
  <2> DEFINE v == IF l[m + 1] = Hole THEN g[m] ELSE Append(g[m], l[m + 1])
             h == [n \in 0..(m + 1) |-> IF n = m + 1 THEN v ELSE g[n]]
  <2>2. m + 1 \in 1..N /\ l[m + 1] \in S \cup {Hole}
    BY <1>1, LenProperties
  <2>3. v \in Seq(S)
    <3>1. g[m] \in Seq(S)
      BY <2>1
    <3>2. QED
      BY <2>2, <3>1, AppendProperties
  <2>4. \A i \in 0..(m + 1) : h[i] \in Seq(S)
    <3> HIDE DEF v
    <3>1. QED
      BY <2>1, <2>3
  <2>5. ASSUME NEW n \in 0..(m + 1) PROVE h[n] = Def(h, n)
    <3>1. CASE n = m + 1
      BY <3>1, <2>2
    <3>2. CASE n # m + 1
      <4>1. n \in 0..m /\ (n # 0 => n - 1 \in 0..m /\ n - 1 # m + 1)
        BY <3>2
      <4>2. h[n] = g[n] /\ (n # 0 => h[n - 1] = g[n - 1])
        BY <4>1
      <4>3. g[n] = Def(g, n)
        BY <4>1, <2>1
      <4> HIDE DEF h
      <4>4. QED
        BY <4>2, <4>3
    <3>3. QED
      BY <3>1, <3>2
  <2>6. Upto(m + 1, h)
    <3>1. h = [n \in 0..(m + 1) |-> h[n]]
      OBVIOUS
    <3> HIDE DEF h, Def
    <3>2. QED
      BY <2>5, <3>1
  <2> HIDE DEF h, Upto
  <2>7. QED
    BY <1>1, <2>2, <2>4, <2>6
<1>4. N \in T
  <2> HIDE DEF T, N
  <2>1. 0..N \subseteq T
    BY <1>1, <1>2, <1>3, Induction
  <2>2. QED
    BY <1>1, <2>1
<1>5. PICK g : Upto(N, g) /\ \A i \in 0..N : g[i] \in Seq(S)
  BY <1>4
<1>6. Upto(N, kept)
  <2> HIDE DEF Upto
  <2>1. QED
    BY <1>5
<1>7. \A n \in 0..N : kept[n] = Def(kept, n)
  <2> HIDE DEF kept, Def, N
  <2>1. QED
    BY <1>6
<1>8. kept[0] = <<>>
  <2>1. 0 \in 0..N
    BY <1>1
  <2> HIDE DEF kept
  <2>2. QED
    BY <1>7, <2>1
<1>9. ASSUME NEW n \in 0..(N - 1)
      PROVE  kept[n + 1] = IF l[n + 1] = Hole THEN kept[n]
                           ELSE Append(kept[n], l[n + 1])
  <2>1. (n + 1) - 1 = n /\ n + 1 # 0 /\ n + 1 \in 0..N
    BY <1>1
  <2> HIDE DEF kept
  <2>2. kept[n + 1] = Def(kept, n + 1)
    BY <1>7, <2>1
  <2>3. QED
    BY <2>1, <2>2
<1>10. \A i \in 0..N : kept[i] \in Seq(S)
  <2> DEFINE U == {i \in 0..N : kept[i] \in Seq(S)}
  <2> HIDE DEF kept
  <2>1. 0 \in U
    <3>1. 0 \in 0..N
      BY <1>1
    <3>2. kept[0] \in Seq(S)
      BY <1>8, EmptySeq
    <3>3. QED
      BY <3>1, <3>2
  <2>2. ASSUME NEW m \in 0..(N - 1), m \in U PROVE m + 1 \in U
    <3>1. m + 1 \in 0..N /\ l[m + 1] \in S \cup {Hole}
      BY <1>1, LenProperties
    <3>2. kept[m] \in Seq(S)
      BY <2>2
    <3>3. kept[m + 1] = IF l[m + 1] = Hole THEN kept[m]
                        ELSE Append(kept[m], l[m + 1])
      BY <1>9
    <3>4. kept[m + 1] \in Seq(S)
      BY <3>1, <3>2, <3>3, AppendProperties
    <3>5. QED
      BY <3>1, <3>4
  <2> HIDE DEF U, N
  <2>3. 0..N \subseteq U
    BY <1>1, <2>1, <2>2, Induction
  <2>4. QED
    BY <2>3 DEF U
<1>11. SObjectsOf(l) = kept[N]
  BY DEF SObjectsOf
<1> HIDE DEF kept, Def
<1>12. QED
  BY <1>8, <1>9, <1>10, <1>11

LEMMA SObjectsOfType ==
  ASSUME NEW S, NEW l \in Seq(S \cup {Hole})
  PROVE SObjectsOf(l) \in Seq(S)
BY SObjectsOfSteps, LenProperties

(* Elements before the first null are all kept. *)
LEMMA SObjectsOfFront ==
  ASSUME NEW S, NEW l \in Seq(S \cup {Hole}), NEW i \in 1..Len(l),
         \A h \in 1..i : l[h] # Hole
  PROVE  i <= Len(SObjectsOf(l))
<1> DEFINE N == Len(l)
<1>1. PICK g : /\ g[0] = <<>> /\ SObjectsOf(l) = g[Len(l)]
               /\ \A n \in 0..Len(l) : g[n] \in Seq(S)
               /\ \A n \in 0..(Len(l) - 1) :
                    g[n + 1] = IF l[n + 1] = Hole THEN g[n]
                               ELSE Append(g[n], l[n + 1])
  BY SObjectsOfSteps
<1> DEFINE T == {n \in 0..N : Len(g[n]) >= IF n <= i THEN n ELSE i}
<1>2. N \in Nat /\ Len(<<>>) = 0
  BY LenProperties, EmptySeq
<1>3. 0 \in T
  BY <1>1, <1>2
<1>4. ASSUME NEW n \in 0..(N - 1), n \in T PROVE n + 1 \in T
  <2>1. g[n] \in Seq(S) /\ Len(g[n]) \in Nat /\ n + 1 \in 1..N
    BY <1>1, <1>2, LenProperties
  <2>2. CASE l[n + 1] = Hole
    <3>1. g[n + 1] = g[n]
      BY <1>1, <2>2
    <3>2. ~(n + 1 <= i)
      BY <2>1, <2>2
    <3>3. QED
      BY <1>2, <1>4, <2>1, <3>1, <3>2
  <2>3. CASE l[n + 1] # Hole
    <3>1. l[n + 1] \in S
      BY <2>1, <2>3, LenProperties
    <3>2. g[n + 1] = Append(g[n], l[n + 1])
      BY <1>1, <2>3
    <3>3. Len(g[n + 1]) = Len(g[n]) + 1
      BY <2>1, <3>1, <3>2, AppendProperties
    <3>4. QED
      BY <1>2, <1>4, <2>1, <3>3
  <2>4. QED
    BY <2>2, <2>3
<1>5. N \in T
  <2>1. 0..N \subseteq T
    <3> HIDE DEF T, N
    <3>1. QED
      BY <1>2, <1>3, <1>4, Induction
  <2>2. QED
    BY <1>2, <2>1
<1>6. QED
  BY <1>1, <1>2, <1>5
----------------------------------------------------------------------------
(* The inductive invariant.  The objects hold ids that the engine's model  *)
(* allows in a record.  While the engine's loop runs it is the last call   *)
(* that waits for it; of its records, those still to come hold such ids,   *)
(* and those done may also hold the ones generated on the way.             *)
HeldIds == \A r \in Refs : objects[r].id \in held \cup {Absent}

Driving ==
  call.op # "idle" =>
    /\ Goes("engine") /\ call.key = "Id"
    /\ \A j \in 1..Len(Current.recs) :
         Current.recs[j].id \in held \cup {Absent}
           \cup (IF j <= call.done THEN call.gen ELSE {})

DmlInv == DmlTypeOK /\ HeldIds /\ Driving

LEMMA CurrentFacts ==
  ASSUME DmlTypeOK, calls # <<>>
  PROVE  /\ Len(calls) \in Nat \ {0}
         /\ Current = calls[Len(calls)] /\ Current \in DmlCall
         /\ Current.list \in Lists /\ Current.list \in Seq(Refs \cup {Hole})
         /\ Obj(Current) \in SObjects
<1>1. calls \in Seq(DmlCall)
  BY DEF DmlTypeOK
<1>2. /\ Len(calls) \in Nat \ {0} /\ Current = calls[Len(calls)]
      /\ Current \in DmlCall
  BY <1>1, FrontFacts DEF Current
<1>3. Current.list \in Lists
  BY <1>2 DEF DmlCall
<1>4. /\ Current.list \in Seq(Refs \cup {Hole}) /\ Current.list[1] \in Refs
  BY <1>3, DmlAssumption
<1>5. Obj(Current) \in SObjects
  BY <1>4, DmlAssumption DEF Obj
<1>6. QED
  BY <1>2, <1>3, <1>4, <1>5

LEMMA BecomesFacts ==
  ASSUME DmlTypeOK, calls # <<>>, NEW c \in DmlCall, Becomes(c)
  PROVE  /\ calls' \in Seq(DmlCall) /\ calls' # <<>> /\ Current' = c
         /\ Len(calls') = Len(calls)
         /\ \A i \in 1..(Len(calls) - 1) : calls'[i] = calls[i]
<1>1. calls \in Seq(DmlCall) /\ Len(calls) \in Nat \ {0}
  BY CurrentFacts DEF DmlTypeOK
<1>2. /\ calls' \in Seq(DmlCall) /\ Len(calls') = Len(calls)
      /\ \A i \in 1..(Len(calls) - 1) : calls'[i] = calls[i]
      /\ calls'[Len(calls)] = c
  BY <1>1, ReplaceFacts DEF Becomes
<1>3. calls' # <<>>
  BY <1>1, <1>2, EmptySeq
<1>4. Current' = calls'[Len(calls')]
  BY <1>2, <1>3, FrontFacts DEF Current
<1>5. QED
  BY <1>2, <1>3, <1>4

LEMMA ThrowFacts ==
  ASSUME DmlTypeOK, calls # <<>>, Throw
  PROVE  /\ calls' \in Seq(DmlCall)
         /\ Len(calls') < Len(calls)
         /\ \A i \in 1..Len(calls') : calls'[i] = calls[i]
<1>1. calls \in Seq(DmlCall) /\ Len(calls) \in Nat \ {0}
  BY CurrentFacts DEF DmlTypeOK
<1>2. PICK k \in 0..(Len(calls) - 1) : calls' = SubSeq(calls, 1, k)
  BY DEF Throw
<1>3. k \in 0..Len(calls) /\ k < Len(calls)
  BY <1>1
<1>4. QED
  BY <1>1, <1>2, <1>3, PrefixFacts

(* Steps that leave the engine alone, outside its loop. *)
LEMMA QuietStep ==
  ASSUME DmlInv, UNCHANGED vars, call.op = "idle",
         calls' \in Seq(DmlCall), objects' \in [Refs -> Fields],
         \A r \in Refs : objects'[r].id = objects[r].id,
         user' \in Users \cup {None}, denied' = denied
  PROVE  DmlInv'
<1>1. TypeOK'
  BY StepType DEF DmlInv, DmlTypeOK
<1>2. DmlTypeOK'
  BY <1>1 DEF DmlInv, DmlTypeOK
<1>3. HeldIds'
  BY DEF DmlInv, HeldIds, vars
<1>4. Driving'
  BY DEF Driving, vars
<1>5. QED
  BY <1>2, <1>3, <1>4 DEF DmlInv

LEMMA AppendFacts ==
  ASSUME DmlTypeOK, NEW c \in DmlCall
  PROVE  /\ Append(calls, c) \in Seq(DmlCall)
         /\ Len(Append(calls, c)) = Len(calls) + 1
         /\ \A i \in 1..Len(calls) : Append(calls, c)[i] = calls[i]
         /\ Append(calls, c)[Len(calls) + 1] = c
BY AppendProperties DEF DmlTypeOK

LEMMA CalledType ==
  ASSUME DmlTypeOK, NEW l \in Lists, NEW asUser \in BOOLEAN,
         NEW op \in {"insert", "update", "delete", "upsert"},
         NEW via \in {"statement", "Database"}
  PROVE  [op |-> op, via |-> via, asUser |-> asUser, list |-> l,
          phase |-> "check", recs |-> <<>>, failed |-> FALSE] \in DmlCall
<1>1. <<>> \in Seq(Fields)
  BY EmptySeq
<1>2. QED
  BY <1>1 DEF DmlCall

LEMMA PhaseType ==
  ASSUME NEW c \in DmlCall, NEW phase \in {"before", "engine", "after"}
  PROVE  [c EXCEPT !.phase = phase] \in DmlCall
BY DEF DmlCall

LEMMA RecsType ==
  ASSUME NEW c \in DmlCall, NEW recs \in Seq(Fields)
  PROVE  [c EXCEPT !.recs = recs] \in DmlCall
BY DEF DmlCall

LEMMA EngineIdle ==
  ASSUME DmlInv, ~Goes("engine") PROVE call.op = "idle"
BY DEF DmlInv, Driving

(* The steps of scripts and triggers. *)
LEMMA SetOwnerStep ==
  ASSUME DmlInv, NEW r \in Refs, NEW u \in Data, SetOwner(r, u)
  PROVE  DmlInv'
<1>1. call.op = "idle"
  BY EngineIdle DEF SetOwner, CodeRuns, HasTrigger, Goes
<1>2. objects \in [Refs -> Fields] /\ calls \in Seq(DmlCall)
  BY DEF DmlInv, DmlTypeOK
<1>3. objects' \in [Refs -> Fields]
  BY <1>2 DEF SetOwner, Fields
<1>4. \A q \in Refs : objects'[q].id = objects[q].id
  BY <1>2 DEF SetOwner, Fields
<1>5. QED
  BY <1>1, <1>2, <1>3, <1>4, QuietStep DEF SetOwner, DmlInv, DmlTypeOK

LEMMA RunAsStep ==
  ASSUME DmlInv, NEW u \in Users \cup {None}, RunAs(u)
  PROVE  DmlInv'
<1>1. call.op = "idle"
  BY EngineIdle DEF RunAs, Goes
<1>2. QED
  BY <1>1, QuietStep DEF RunAs, DmlInv, DmlTypeOK

LEMMA CallStep ==
  ASSUME DmlInv, NEW l \in Lists, NEW asUser \in BOOLEAN,
         NEW op \in {"insert", "update", "delete", "upsert"},
         NEW via \in {"statement", "Database"}, Call(op, via, asUser, l)
  PROVE  DmlInv'
<1>1. call.op = "idle"
  BY EngineIdle DEF Call, CodeRuns, HasTrigger, Goes
<1>2. calls' \in Seq(DmlCall)
  BY CalledType, AppendFacts DEF Call, DmlInv
<1>3. QED
  BY <1>1, <1>2, QuietStep DEF Call, DmlInv, DmlTypeOK

LEMMA ThrowStep ==
  ASSUME DmlInv, calls # <<>>, call.op = "idle", Throw,
         UNCHANGED <<vars, objects, user, denied>>
  PROVE  DmlInv'
<1>1. calls' \in Seq(DmlCall)
  BY ThrowFacts DEF DmlInv
<1>2. QED
  BY <1>1, QuietStep DEF DmlInv, DmlTypeOK

LEMMA EndsStep ==
  ASSUME DmlInv, calls # <<>>, call.op = "idle", Ends(TRUE),
         UNCHANGED <<vars, objects, user, denied>>
  PROVE  DmlInv'
<1> DEFINE c == [Current EXCEPT !.phase = "after", !.recs = <<>>,
                                !.failed = TRUE]
<1>1. c \in DmlCall
  <2>1. Current \in DmlCall
    BY CurrentFacts DEF DmlInv
  <2>2. <<>> \in Seq(Fields)
    BY EmptySeq
  <2>3. QED
    BY <2>1, <2>2 DEF DmlCall
<1>2. calls' \in Seq(DmlCall)
  BY <1>1, BecomesFacts DEF Ends, DmlInv
<1>3. QED
  BY <1>2, QuietStep DEF DmlInv, DmlTypeOK

LEMMA ProceedStep ==
  ASSUME DmlInv, Proceed PROVE DmlInv'
<1>1. call.op = "idle"
  BY EngineIdle DEF Proceed, Goes
<1>2. calls # <<>> /\ Current \in DmlCall
  BY CurrentFacts DEF Proceed, Goes, DmlInv
<1>3. calls' \in Seq(DmlCall)
  BY <1>2, PhaseType, BecomesFacts DEF Proceed, DmlInv
<1>4. objects \in [Refs -> Fields] /\ user \in Users \cup {None}
  BY DEF DmlInv, DmlTypeOK
<1>5. ASSUME NEW r \in Refs, TakesOwner(Current)
      PROVE  /\ WithOwner(objects[r]) \in Fields
             /\ WithOwner(objects[r]).id = objects[r].id
  <2>1. user \in Data
    BY <1>4, <1>5, DmlAssumption DEF TakesOwner, Data
  <2>2. QED
    BY <1>4, <2>1 DEF WithOwner, Fields
<1>6. objects' \in [Refs -> Fields]
  BY <1>4, <1>5 DEF Proceed
<1>7. \A r \in Refs : objects'[r].id = objects[r].id
  BY <1>5 DEF Proceed
<1>8. QED
  BY <1>1, <1>3, <1>4, <1>6, <1>7, QuietStep DEF Proceed, DmlInv, DmlTypeOK

LEMMA EndCallStep ==
  ASSUME DmlInv, EndCall PROVE DmlInv'
<1>1. call.op = "idle"
  BY EngineIdle DEF EndCall, Goes
<1>2. calls' \in Seq(DmlCall)
  BY FrontFacts DEF EndCall, Goes, DmlInv, DmlTypeOK
<1>3. QED
  BY <1>1, <1>2, QuietStep DEF EndCall, DmlInv, DmlTypeOK

----------------------------------------------------------------------------
(* The steps with the engine.                                              *)
LEMMA CopiesType ==
  ASSUME DmlInv, NEW l \in Seq(Refs \cup {Hole})
  PROVE  /\ Copies(l) \in Seq(Fields)
         /\ \A i \in 1..Len(Copies(l)) : Copies(l)[i].id \in held \cup {Absent}
<1>1. SObjectsOf(l) \in Seq(Refs)
  BY SObjectsOfType
<1> DEFINE n == Len(SObjectsOf(l))
<1>2. n \in Nat /\ \A i \in 1..n : SObjectsOf(l)[i] \in Refs
  BY <1>1, LenProperties
<1>3. objects \in [Refs -> Fields]
  BY DEF DmlInv, DmlTypeOK
<1>4. Copies(l) \in [1..n -> Fields]
  BY <1>2, <1>3 DEF Copies
<1>5. Copies(l) \in Seq(Fields) /\ Len(Copies(l)) = n
  BY <1>2, <1>4, SeqDef, LenProperties
<1>6. ASSUME NEW i \in 1..n PROVE Copies(l)[i].id \in held \cup {Absent}
  BY <1>2 DEF Copies, DmlInv, HeldIds
<1>7. QED
  BY <1>5, <1>6

LEMMA StartStep ==
  ASSUME NEW op \in {"insert", "update", "delete", "upsert"},
         NEW s \in SObjects, Start(op, s)
  PROVE  /\ Next
         /\ call.op = "idle" /\ call'.key = "Id"
         /\ call'.done = 0 /\ call'.gen = {} /\ held' = held
<1>1. Next
  BY DEF Start, Next, Keys
<1>2. Begin(op, s, "Id")
  BY DEF Start, Insert, Update, Delete, Upsert
<1>3. QED
  BY <1>1, <1>2 DEF Begin

LEMMA CallEngineStep ==
  ASSUME DmlInv, CallEngine PROVE Next /\ DmlInv'
<1>1. /\ calls # <<>> /\ Current \in DmlCall /\ Obj(Current) \in SObjects
      /\ Current.list \in Seq(Refs \cup {Hole})
  BY CurrentFacts DEF CallEngine, Goes, DmlInv
<1>2. Current.op \in {"insert", "update", "delete", "upsert"}
  BY <1>1 DEF DmlCall
<1>3. /\ Next /\ call'.key = "Id" /\ call'.done = 0 /\ held' = held
  BY <1>1, <1>2, StartStep DEF CallEngine
<1> DEFINE recs == Copies(Current.list)
           c == [Current EXCEPT !.phase = "engine", !.recs = recs]
<1>4. /\ recs \in Seq(Fields)
      /\ \A i \in 1..Len(recs) : recs[i].id \in held \cup {Absent}
  BY <1>1, CopiesType
<1>5. c \in DmlCall /\ c.phase = "engine" /\ c.recs = recs
  BY <1>1, <1>4 DEF DmlCall
<1>6. calls' \in Seq(DmlCall) /\ calls' # <<>> /\ Current' = c
  <2>1. Becomes(c)
    BY DEF CallEngine
  <2> HIDE DEF c
  <2>2. QED
    BY <1>1, <1>5, <2>1, BecomesFacts DEF DmlInv
<1>7. DmlTypeOK'
  <2>1. TypeOK'
    BY <1>3, StepType DEF DmlInv, DmlTypeOK
  <2>2. QED
    BY <1>6, <2>1 DEF CallEngine, DmlInv, DmlTypeOK
<1>8. HeldIds'
  BY <1>3 DEF CallEngine, DmlInv, HeldIds
<1>9. Driving'
  <2> HIDE DEF c, recs
  <2>1. Goes("engine")'
    BY <1>5, <1>6 DEF Goes
  <2>2. \A j \in 1..Len(Current'.recs) : Current'.recs[j].id \in held' \cup {Absent}
    BY <1>3, <1>4, <1>5, <1>6
  <2>3. QED
    BY <1>3, <2>1, <2>2 DEF Driving
<1>10. QED
  BY <1>3, <1>7, <1>8, <1>9 DEF DmlInv

LEMMA NextTestStep ==
  ASSUME DmlInv, NextTest PROVE Next /\ DmlInv'
<1>1. Next /\ call'.op = "idle"
  BY DEF NextTest, Next, Reset
<1>2. New \in Fields /\ New.id = Absent
  BY DEF New, Fields
<1>3. objects' \in [Refs -> Fields] /\ \A r \in Refs : objects'[r].id = Absent
  BY <1>2 DEF NextTest
<1>4. TypeOK'
  BY <1>1, StepType DEF DmlInv, DmlTypeOK
<1>5. DmlTypeOK'
  BY <1>3, <1>4 DEF NextTest, DmlInv, DmlTypeOK
<1>6. HeldIds' /\ Driving'
  BY <1>1, <1>3 DEF HeldIds, Driving
<1>7. QED
  BY <1>1, <1>5, <1>6 DEF DmlInv

LEMMA WriteBackType ==
  ASSUME DmlInv, calls # <<>>, NEW S, S \subseteq Ids \cup {Absent},
         held \cup {Absent} \subseteq S,
         \A j \in 1..Len(Current.recs) : Current.recs[j].id \in S
  PROVE  /\ WriteBack(Current) \in [Refs -> Fields]
         /\ \A r \in Refs : WriteBack(Current)[r].id \in S
<1> DEFINE n == Len(Current.recs)
           at(r) == {i \in DOMAIN Current.list :
                       Current.list[i] = r /\ i <= Len(Current.recs)}
<1>1. Current \in DmlCall /\ Current.list \in Seq(Refs \cup {Hole})
  BY CurrentFacts DEF DmlInv
<1>2. n \in Nat
  BY <1>1 DEF DmlCall
<1>3. objects \in [Refs -> Fields] /\ \A r \in Refs : objects[r].id \in S
  BY DEF DmlInv, DmlTypeOK, HeldIds
<1>4. ASSUME NEW r \in Refs, at(r) # {} PROVE Current.recs[Max(at(r))].id \in S
  <2>1. at(r) \subseteq 1..n
    BY <1>1, <1>2, LenProperties
  <2>2. Max(at(r)) \in at(r)
    <3>1. at(r) \subseteq 0..n
      BY <2>1
    <3> HIDE DEF at, n
    <3>2. QED
      BY <1>2, <1>4, <3>1, Maximum
  <2>3. Max(at(r)) \in 1..n
    <3> HIDE DEF at, n
    <3>1. QED
      BY <2>1, <2>2
  <2>4. QED
    BY <2>3
<1>5. ASSUME NEW r \in Refs
      PROVE  WriteBack(Current)[r] \in Fields /\ WriteBack(Current)[r].id \in S
  <2>1. CASE Current.op \in {"insert", "upsert"} /\ at(r) # {}
    <3> DEFINE x == Current.recs[Max(at(r))].id
    <3>1. WriteBack(Current)[r] = [objects[r] EXCEPT !.id = x]
      BY <2>1 DEF WriteBack
    <3>2. x \in S
      BY <1>4, <2>1
    <3> HIDE DEF x
    <3>3. QED
      BY <1>3, <3>1, <3>2 DEF Fields
  <2>2. CASE ~(Current.op \in {"insert", "upsert"} /\ at(r) # {})
    <3>1. WriteBack(Current)[r] = objects[r]
      BY <2>2 DEF WriteBack
    <3>2. QED
      BY <1>3, <3>1
  <2>3. QED
    BY <2>1, <2>2
<1>6. QED
  BY <1>5 DEF WriteBack

LEMMA EngineDoneStep ==
  ASSUME DmlInv, EngineDone PROVE Next /\ DmlInv'
<1>1. calls # <<>> /\ Current \in DmlCall
  BY CurrentFacts DEF EngineDone, Goes, DmlInv
<1>2. Next /\ call'.op = "idle" /\ held' = held \cup call.gen
  BY DEF EngineDone, Finish, Next, Idle
<1>3. \A j \in 1..Len(Current.recs) : Current.recs[j].id \in held' \cup {Absent}
  BY <1>2 DEF EngineDone, DmlInv, Driving
<1>4. TypeOK'
  BY <1>2, StepType DEF DmlInv, DmlTypeOK
<1>5. held' \subseteq Ids
  BY <1>4 DEF TypeOK
<1>6. /\ objects' \in [Refs -> Fields]
      /\ \A r \in Refs : objects'[r].id \in held' \cup {Absent}
  <2> DEFINE S == held' \cup {Absent}
  <2>1. S \subseteq Ids \cup {Absent} /\ held \cup {Absent} \subseteq S
    BY <1>2, <1>5
  <2>2. \A j \in 1..Len(Current.recs) : Current.recs[j].id \in S
    BY <1>3
  <2> HIDE DEF S
  <2>3. /\ WriteBack(Current) \in [Refs -> Fields]
        /\ \A r \in Refs : WriteBack(Current)[r].id \in S
    BY <1>1, <2>1, <2>2, WriteBackType
  <2>4. QED
    BY <2>3 DEF S, EngineDone
<1>7. calls' \in Seq(DmlCall)
  <2> DEFINE c == [Current EXCEPT !.phase = "after", !.recs = <<>>,
                                  !.failed = FALSE]
  <2>1. <<>> \in Seq(Fields)
    BY EmptySeq
  <2>2. c \in DmlCall
    BY <1>1, <2>1 DEF DmlCall
  <2>3. Becomes(c)
    BY DEF EngineDone, Ends
  <2> HIDE DEF c
  <2>4. QED
    BY <1>1, <2>2, <2>3, BecomesFacts DEF DmlInv
<1>8. DmlTypeOK'
  BY <1>4, <1>6, <1>7 DEF EngineDone, DmlInv, DmlTypeOK
<1>9. HeldIds' /\ Driving'
  BY <1>2, <1>6 DEF HeldIds, Driving
<1>10. QED
  BY <1>2, <1>8, <1>9 DEF DmlInv

(* One turn of the engine's loop that gets by, or fails: what becomes of   *)
(* the call and the ids.                                                   *)
Progress ==
  /\ call'.op # "idle" =>
       /\ held' = held /\ call'.key = call.key
       /\ call'.done = call.done + 1 /\ call.gen \subseteq call'.gen
  /\ held \subseteq held'

(* The call goes on with these ids among those it generated. *)
Generates(ids) == call'.op # "idle" => ids \subseteq call'.gen

(* The id generated for a record of an insert or upsert that has none. *)
NewIds(rec) ==
  IF call.op \in {"insert", "upsert"} /\ rec.id = Absent
  THEN {NewId(call.obj, counters[call.obj] + 1)} ELSE {}

LEMMA AcceptProgress == ASSUME TypeOK, NEW new, Accept(new)
  PROVE  Progress /\ Generates(new)
BY DEF Accept, Progress, Generates, TypeOK, CallOK

LEMMA FailProgress ==
  ASSUME NEW err, NEW x, NEW new, Fail(err, x, new)
  PROVE  Progress /\ Generates(new)
BY DEF Fail, Progress, Generates, Idle

(* No other rows come but that of the record. *)
Adds(rec) ==
  \A s \in SObjects : \A x \in DOMAIN rows'[s] \ DOMAIN rows[s] :
    rows'[s][x] = Column(rec)

LEMMA StoreAdds ==
  ASSUME TypeOK, NEW rec, NEW s \in SObjects, NEW t, Store(s, t),
         \A x \in DOMAIN t \ DOMAIN rows[s] : t[x] = Column(rec)
  PROVE  Adds(rec)
BY DEF TypeOK, RowsOK, Store, Adds

LEMMA SameRowsAdd == ASSUME NEW rec, UNCHANGED rows PROVE Adds(rec)
BY DEF Adds

LEMMA ExecInsertProgress ==
  ASSUME TypeOK, call.op # "idle", NEW rec \in Inputs, ExecInsert(rec)
  PROVE  /\ Progress /\ Generates(NewIds(rec))
         /\ rec.id = Absent => NewId(call.obj, counters[call.obj] + 1) \in Ids
         /\ Adds(rec)
<1> DEFINE s   == call.obj
           new == IF LacksId(rec) THEN {NewId(s, counters[s] + 1)} ELSE {}
           x   == IF LacksId(rec) THEN NewId(s, counters[s] + 1) ELSE rec.id
           err == InsertError(s, x, rec)
           t   == WithRow(rows[s], x, Column(rec))
<1>1. s \in SObjects
  BY DEF TypeOK, CallOK
<1>2. NewIds(rec) \subseteq new
  BY DEF LacksId, NewIds
<1>3. rec.id = Absent => NewId(s, counters[s] + 1) \in Ids
  BY <1>1, NewIdType DEF ExecInsert, LacksId
<1>4. Fail(err, x, new) \/ (Store(s, t) /\ Accept(new))
  BY DEF ExecInsert
<1>5. Progress /\ Generates(new)
  <2> HIDE DEF new, err, x, s
  <2>1. QED
    BY <1>4, AcceptProgress, FailProgress
<1>6. Adds(rec)
  <2>1. CASE Fail(err, x, new)
    BY <2>1, SameRowsAdd DEF Fail
  <2>2. CASE Store(s, t)
    <3>1. \A y \in DOMAIN t \ DOMAIN rows[s] : t[y] = Column(rec)
      BY DEF WithRow
    <3> HIDE DEF s, t
    <3>2. QED
      BY <1>1, <2>2, <3>1, StoreAdds
  <2>3. QED
    BY <1>4, <2>1, <2>2
<1>7. Progress /\ Generates(NewIds(rec))
  <2> HIDE DEF new
  <2>1. QED
    BY <1>2, <1>5 DEF Generates
<1>8. QED
  BY <1>3, <1>6, <1>7

LEMMA ExecUpdateProgress ==
  ASSUME TypeOK, call.op # "idle", NEW rec \in Inputs, ExecUpdate(rec)
  PROVE  Progress /\ Adds(rec)
<1> DEFINE s == call.obj
           t == SetRow(rows[s], rec.id, Column(rec))
<1>1. s \in SObjects
  BY DEF TypeOK, CallOK
<1>2. \/ Accept({}) /\ UNCHANGED rows
      \/ Fail(SqlError(s, rec), rec.id, {})
      \/ Accept({}) /\ Store(s, t)
  BY DEF ExecUpdate
<1>3. Progress
  BY <1>2, AcceptProgress, FailProgress
<1>4. CASE UNCHANGED rows
  BY <1>3, <1>4, SameRowsAdd
<1>5. CASE Store(s, t)
  <2>1. \A y \in DOMAIN t \ DOMAIN rows[s] : t[y] = Column(rec)
    BY DEF SetRow
  <2> HIDE DEF s, t
  <2>2. QED
    BY <1>1, <1>3, <1>5, <2>1, StoreAdds
<1>6. QED
  BY <1>2, <1>4, <1>5 DEF Fail

LEMMA RecordProgress ==
  ASSUME TypeOK, NEW rec \in Inputs, RecordStep(rec), call.key = "Id"
  PROVE  /\ call.op # "idle"
         /\ Progress /\ Generates(NewIds(rec))
         /\ call.op \in {"insert", "upsert"} /\ rec.id = Absent =>
              NewId(call.obj, counters[call.obj] + 1) \in Ids
         /\ Adds(rec)
<1>1. call.op # "idle" /\ call.obj \in SObjects
  BY DEF RecordStep, InsertRecord, UpdateRecord, DeleteRecord, UpsertRecord,
         Turn, TypeOK, CallOK
<1>2. ASSUME NEW err, Fail(err, rec.id, {})
      PROVE  Progress /\ Adds(rec)
  BY <1>2, FailProgress, SameRowsAdd DEF Fail
<1>3. CASE InsertRecord(rec)
  BY <1>1, <1>3, ExecInsertProgress DEF InsertRecord
<1>4. CASE UpdateRecord(rec)
  <2>1. call.op = "update"
    BY <1>4 DEF UpdateRecord, Turn
  <2>2. Progress /\ Adds(rec)
    BY <1>1, <1>2, <1>4, ExecUpdateProgress DEF UpdateRecord
  <2>3. QED
    BY <1>1, <2>1, <2>2 DEF Generates, NewIds
<1>5. CASE DeleteRecord(rec)
  <2> DEFINE t == WithoutRow(rows[call.obj], rec.id)
  <2>1. call.op = "delete"
    BY <1>5 DEF DeleteRecord, Turn
  <2>2. CASE Store(call.obj, t) /\ Accept({})
    <3>1. \A y \in DOMAIN t \ DOMAIN rows[call.obj] : t[y] = Column(rec)
      BY DEF WithoutRow
    <3> HIDE DEF t
    <3>2. Adds(rec)
      BY <1>1, <2>2, <3>1, StoreAdds
    <3>3. Progress
      BY <2>2, AcceptProgress
    <3>4. QED
      BY <1>1, <2>1, <3>2, <3>3 DEF Generates, NewIds
  <2>3. CASE \E err : Fail(err, rec.id, {})
    BY <1>1, <1>2, <2>1, <2>3 DEF Generates, NewIds
  <2>4. QED
    BY <1>5, <2>2, <2>3 DEF DeleteRecord
<1>6. CASE UpsertRecord(rec)
  <2>1. rec.id = Absent => Matches(call.obj, rec) = {}
    BY <1>1, EngineAssumption DEF Matches, TypeOK, RowsOK
  <2>2. CASE ExecInsert(rec)
    BY <1>1, <2>2, ExecInsertProgress
  <2>3. CASE ExecUpdate(rec) /\ rec.id # Absent
    BY <1>1, <2>3, ExecUpdateProgress DEF Generates, NewIds
  <2>4. QED
    BY <1>6, <2>1, <2>2, <2>3 DEF UpsertRecord
<1>7. QED
  BY <1>3, <1>4, <1>5, <1>6 DEF RecordStep

(* The record the engine is at, as EngineTurn hands it over. *)
Row(rec) == [id |-> rec.id, spelt |-> "Id", ext |-> rec.owner]

LEMMA TurnFacts ==
  ASSUME DmlInv, EngineTurn
  PROVE  /\ calls # <<>> /\ Current \in DmlCall
         /\ call.done \in Nat /\ call.done + 1 \in 1..Len(Current.recs)
         /\ Current.recs[call.done + 1] \in Fields
         /\ Row(Current.recs[call.done + 1]) \in Inputs
         /\ RecordStep(Row(Current.recs[call.done + 1]))
<1> DEFINE rec == Current.recs[call.done + 1]
<1>1. calls # <<>> /\ Current \in DmlCall
  BY CurrentFacts DEF EngineTurn, Goes, DmlInv
<1>2. Current.recs \in Seq(Fields) /\ Len(Current.recs) \in Nat
  BY <1>1 DEF DmlCall
<1>3. call.done \in Nat
  BY EngineAssumption DEF DmlInv, DmlTypeOK, TypeOK, CallOK
<1>4. call.done < Len(Current.recs)
  BY DEF EngineTurn
<1>5. call.done + 1 \in 1..Len(Current.recs) /\ ~(call.done + 1 <= call.done)
  BY <1>2, <1>3, <1>4
<1>6. rec \in Fields
  BY <1>2, <1>5, LenProperties
<1>7. rec.id \in held \cup {Absent}
  BY <1>5 DEF EngineTurn, DmlInv, Driving
<1>8. Row(rec) \in Inputs
  <2>1. rec.owner \in Data \cup {Absent, Unknown}
    BY <1>6 DEF Fields
  <2> HIDE DEF rec
  <2>2. QED
    BY <1>7, <2>1 DEF Row, Inputs
<1>9. RecordStep(Row(rec))
  BY DEF EngineTurn, RecordStep, Row
<1>10. QED
  BY <1>1, <1>3, <1>5, <1>6, <1>8, <1>9

NextRecs ==
  [Current.recs EXCEPT ![call.done + 1] =
     WithId(call.op, call.obj, Current.recs[call.done + 1])]

LEMMA TurnRecs ==
  ASSUME DmlInv, EngineTurn
  PROVE  /\ Next /\ TypeOK'
         /\ Becomes([Current EXCEPT !.recs = NextRecs])
         /\ NextRecs \in Seq(Fields) /\ Len(NextRecs) = Len(Current.recs)
         /\ \A j \in 1..Len(NextRecs) :
              NextRecs[j] =
                IF j = call.done + 1
                THEN WithId(call.op, call.obj, Current.recs[call.done + 1])
                ELSE Current.recs[j]
         /\ Progress /\ Generates(NewIds(Current.recs[call.done + 1]))
         /\ Adds(Row(Current.recs[call.done + 1]))
<1> DEFINE rec == Current.recs[call.done + 1]
<1>1. /\ calls # <<>> /\ Current \in DmlCall
      /\ call.done \in Nat /\ call.done + 1 \in 1..Len(Current.recs)
      /\ rec \in Fields /\ Row(rec) \in Inputs /\ RecordStep(Row(rec))
  BY TurnFacts
<1>2. call.op # "idle" /\ call.key = "Id"
  BY DEF EngineTurn, DmlInv, Driving, Goes
<1>3. Next
  <2> HIDE DEF rec
  <2>1. QED
    BY <1>1 DEF Next, RecordStep, Inputs
<1>4. TypeOK /\ TypeOK'
  BY <1>3, StepType DEF DmlInv, DmlTypeOK
<1>5. Row(rec).id = rec.id
  BY DEF Row
<1>6. /\ call.op \in {"insert", "upsert"} /\ rec.id = Absent =>
           NewId(call.obj, counters[call.obj] + 1) \in Ids
      /\ Progress /\ Generates(NewIds(rec))
      /\ Adds(Row(rec))
  <2> HIDE DEF rec
  <2>1. QED
    BY <1>1, <1>2, <1>4, <1>5, RecordProgress DEF Generates, NewIds
<1>7. WithId(call.op, call.obj, rec) \in Fields
  <2> HIDE DEF rec
  <2>1. QED
    BY <1>1, <1>6 DEF WithId, Generated, Fields
<1>8. NextRecs \in Seq(Fields) /\ Len(NextRecs) = Len(Current.recs)
      /\ \A j \in 1..Len(NextRecs) :
           NextRecs[j] = IF j = call.done + 1
                         THEN WithId(call.op, call.obj, rec)
                         ELSE Current.recs[j]
  <2>1. Current.recs \in Seq(Fields)
    BY <1>1 DEF DmlCall
  <2>2. NextRecs = [Current.recs EXCEPT ![call.done + 1] =
                      WithId(call.op, call.obj, rec)]
    BY DEF NextRecs
  <2> HIDE DEF rec
  <2>3. QED
    BY <1>1, <1>7, <2>1, <2>2, ExceptSeq
<1>9. Becomes([Current EXCEPT !.recs = NextRecs])
  BY DEF EngineTurn, NextRecs
<1>10. QED
  BY <1>3, <1>4, <1>6, <1>8, <1>9

LEMMA EngineTurnStep ==
  ASSUME DmlInv, EngineTurn PROVE Next /\ DmlInv'
<1> DEFINE rec  == Current.recs[call.done + 1]
           recs == NextRecs
           c    == [Current EXCEPT !.recs = recs]
<1>1. /\ calls # <<>> /\ Current \in DmlCall
      /\ call.done \in Nat /\ call.done + 1 \in 1..Len(Current.recs)
      /\ rec \in Fields /\ Row(rec) \in Inputs
  BY TurnFacts
<1>2. call.op # "idle" /\ call.key = "Id" /\ Current.phase = "engine"
  BY DEF EngineTurn, DmlInv, Driving, Goes
<1>3. Next
  BY TurnRecs
<1>4. TypeOK'
  BY TurnRecs
<1>5. Row(rec).id = rec.id
  BY DEF Row
<1>6. Progress /\ Generates(NewIds(rec))
  BY TurnRecs
<1>7. Becomes(c)
  BY TurnRecs
<1>8. recs \in Seq(Fields) /\ Len(recs) = Len(Current.recs)
      /\ \A j \in 1..Len(recs) :
           recs[j] = IF j = call.done + 1 THEN WithId(call.op, call.obj, rec)
                                          ELSE Current.recs[j]
  BY TurnRecs
<1>9. c \in DmlCall /\ c.recs = recs /\ c.phase = "engine"
  <2> HIDE DEF recs
  <2>1. QED
    BY <1>1, <1>2, <1>8, RecsType DEF DmlCall
<1>10. calls' \in Seq(DmlCall) /\ calls' # <<>> /\ Current' = c
  <2> HIDE DEF c
  <2>1. QED
    BY <1>1, <1>7, <1>9, BecomesFacts DEF DmlInv
<1>11. DmlTypeOK'
  BY <1>4, <1>10 DEF EngineTurn, DmlInv, DmlTypeOK
<1>13. HeldIds'
  <2>1. held \subseteq held'
    BY <1>6 DEF Progress
  <2>2. QED
    BY <2>1 DEF EngineTurn, DmlInv, HeldIds
<1>14. Driving'
  <2>1. SUFFICES ASSUME call'.op # "idle" PROVE Driving'
    BY DEF Driving
  <2>2. /\ held' = held /\ call'.key = call.key
        /\ call'.done = call.done + 1
        /\ call.gen \subseteq call'.gen /\ NewIds(rec) \subseteq call'.gen
    BY <1>6, <2>1 DEF Progress, Generates
  <2>3. Goes("engine")'
    <3> HIDE DEF c
    <3>1. QED
      BY <1>9, <1>10 DEF Goes
  <2>4. ASSUME NEW j \in 1..Len(recs)
        PROVE  recs[j].id \in held \cup {Absent}
                 \cup (IF j <= call.done + 1 THEN call'.gen ELSE {})
    <3>1. \A i \in 1..Len(Current.recs) :
            Current.recs[i].id \in held \cup {Absent}
              \cup (IF i <= call.done THEN call.gen ELSE {})
      BY <1>2 DEF DmlInv, Driving
    <3>2. CASE j = call.done + 1
      <4>1. rec.id \in held \cup {Absent}
        BY <1>1, <1>5 DEF Inputs
      <4>2. WithId(call.op, call.obj, rec).id
              \in held \cup {Absent} \cup NewIds(rec)
        <5>1. CASE call.op \in {"insert", "upsert"} /\ rec.id = Absent
          <6>1. NewIds(rec) = {NewId(call.obj, counters[call.obj] + 1)}
            BY <5>1 DEF NewIds
          <6> HIDE DEF rec
          <6>2. QED
            BY <1>1, <5>1, <6>1 DEF WithId, Generated, Fields
        <5>2. CASE ~(call.op \in {"insert", "upsert"} /\ rec.id = Absent)
          BY <4>1, <5>2 DEF WithId
        <5>3. QED
          BY <5>1, <5>2
      <4>3. recs[j] = WithId(call.op, call.obj, rec)
        <5> HIDE DEF rec, recs
        <5>1. QED
          BY <1>8, <3>2
      <4>4. j <= call.done + 1
        BY <1>1, <3>2
      <4> HIDE DEF recs, rec
      <4>5. QED
        BY <2>2, <4>2, <4>3, <4>4
    <3>3. CASE j # call.done + 1
      <4>1. recs[j] = Current.recs[j] /\ j \in 1..Len(Current.recs)
        <5> HIDE DEF rec, recs
        <5>1. QED
          BY <1>8, <3>3
      <4>2. j <= call.done => j <= call.done + 1
        BY <1>1
      <4> HIDE DEF recs
      <4>3. QED
        BY <2>2, <3>1, <4>1, <4>2
    <3>4. QED
      BY <3>2, <3>3
  <2>5. Current'.recs = recs
    <3> HIDE DEF recs, c
    <3>1. QED
      BY <1>9, <1>10
  <2> HIDE DEF recs
  <2>6. QED
    BY <1>2, <2>2, <2>3, <2>4, <2>5 DEF Driving
<1>15. QED
  BY <1>3, <1>11, <1>13, <1>14 DEF DmlInv

----------------------------------------------------------------------------
LEMMA DmlStep == DmlInv /\ [DmlNext]_dmlVars => [Next]_vars /\ DmlInv'
<1> SUFFICES ASSUME DmlInv, [DmlNext]_dmlVars PROVE [Next]_vars /\ DmlInv'
  OBVIOUS
<1>1. CASE \E r \in Refs, u \in Data : SetOwner(r, u)
  BY <1>1, SetOwnerStep DEF SetOwner
<1>2. CASE \E u \in Users \cup {None} : RunAs(u)
  BY <1>2, RunAsStep DEF RunAs
<1>3. CASE \E op \in {"insert", "update", "delete", "upsert"}, l \in Lists,
              via \in {"statement", "Database"}, asUser \in BOOLEAN :
             Call(op, via, asUser, l)
  BY <1>3, CallStep DEF Call
<1>4. CASE Refuse
  BY <1>4, EngineIdle, ThrowStep DEF Refuse, Goes
<1>5. CASE Proceed
  BY <1>5, ProceedStep DEF Proceed
<1>6. CASE TriggerThrows
  BY <1>6, EngineIdle, ThrowStep DEF TriggerThrows, HasTrigger, Goes
<1>7. CASE CallEngine
  BY <1>7, CallEngineStep
<1>8. CASE EngineTurn
  BY <1>8, EngineTurnStep
<1>9. CASE EngineDone
  BY <1>9, EngineDoneStep
<1>10. CASE EngineFailed
  BY <1>10, ThrowStep, EndsStep DEF EngineFailed, Goes
<1>11. CASE EndCall
  BY <1>11, EndCallStep DEF EndCall
<1>12. CASE NextTest
  BY <1>12, NextTestStep
<1>13. CASE UNCHANGED dmlVars
  <2>1. call.op # "idle" => Goes("engine")
    BY DEF DmlInv, Driving
  <2>2. TypeOK'
    BY <1>13, StepType DEF DmlInv, DmlTypeOK, dmlVars
  <2>3. DmlTypeOK'
    BY <1>13, <2>2 DEF DmlInv, DmlTypeOK, dmlVars, script
  <2>4. HeldIds' /\ Driving'
    BY <1>13 DEF DmlInv, HeldIds, Driving, Goes, Current, dmlVars, vars, script
  <2>5. QED
    BY <1>13, <2>3, <2>4 DEF DmlInv, dmlVars
<1>14. QED
  BY <1>1, <1>2, <1>3, <1>4, <1>5, <1>6, <1>7, <1>8, <1>9, <1>10, <1>11,
     <1>12, <1>13 DEF DmlNext

LEMMA DmlStart == DmlInit => DmlInv
<1> SUFFICES ASSUME DmlInit PROVE DmlInv
  OBVIOUS
<1>1. TypeOK
  BY InitType DEF DmlInit
<1>2. <<>> \in Seq(DmlCall)
  BY EmptySeq
<1>3. objects \in [Refs -> Fields]
  BY DEF DmlInit, New, Fields
<1>4. DmlTypeOK
  BY <1>1, <1>2, <1>3 DEF DmlInit, DmlTypeOK
<1>5. HeldIds
  BY DEF DmlInit, New, HeldIds
<1>6. Driving
  BY DEF DmlInit, Init, Idle, Driving
<1>7. QED
  BY <1>4, <1>5, <1>6 DEF DmlInv

LEMMA DmlInvariant == DmlSpec => []DmlInv
BY DmlStart, DmlStep, PTL DEF DmlSpec

(* Types, whatever calls are in progress inside the triggers of others     *)
(* (interpreter.go:1867-2068, builtins.go:578-651).                        *)
THEOREM DmlTypeCorrect == DmlSpec => []DmlTypeOK
<1>1. DmlInv => DmlTypeOK
  BY DEF DmlInv
<1>2. QED
  BY <1>1, DmlInvariant, PTL

(* DML, with its triggers, errors and refusals, makes the engine take no   *)
(* steps but those of Engine.tla, so what is proved of that model's ids    *)
(* and tables holds under it (interpreter.go:1889-1896).                   *)
THEOREM DmlImplementsEngine == DmlSpec => DrivesEngine
<1>1. DmlInit => Init
  BY DEF DmlInit
<1>2. QED
  BY <1>1, DmlInvariant, DmlStep, PTL DEF DmlSpec, Spec, DrivesEngine

(* What it gives: under DML too a generated id collides only with an id    *)
(* the test brought in or one issued to an object of the same prefix.      *)
THEOREM DmlIdsAreFree == DmlSpec => []GeneratedIdIsFree
BY DmlImplementsEngine, GeneratedIdsAreFree, PTL DEF DrivesEngine

----------------------------------------------------------------------------
(* Permissions and owners.  A call that got past its check may go on, and  *)
(* has given its objects an owner if it gives one; objects keep the owner  *)
(* they have, and a user changes only when no call is in progress.         *)
Admitted(c, o) ==
  /\ c.phase # "check" =>
       /\ ~Refused(c)
       /\ TakesOwner(c) => \A r \in Listed(c.list) : o[r].owner # Absent
  /\ c.phase = "engine" /\ TakesOwner(c) =>
       \A j \in 1..Len(c.recs) : c.recs[j].owner # Absent

Admission ==
  \A i \in 1..Len(calls) :
    /\ Admitted(calls[i], objects)
    /\ i < Len(calls) => calls[i].phase # "check"

Keeps ==
  /\ user' = user /\ denied' = denied
  /\ \A r \in Refs : objects[r].owner # Absent => objects'[r].owner # Absent

LEMMA ListedType ==
  ASSUME NEW l \in Seq(Refs \cup {Hole})
  PROVE  Listed(l) \subseteq Refs /\ l \in Seq(Listed(l) \cup {Hole})
<1>1. /\ Len(l) \in Nat /\ DOMAIN l = 1..Len(l)
      /\ l \in [1..Len(l) -> Refs \cup {Hole}]
  BY LenProperties
<1>2. l \in [1..Len(l) -> Listed(l) \cup {Hole}]
  BY <1>1 DEF Listed
<1>3. l \in Seq(Listed(l) \cup {Hole})
  <2> DEFINE S == Listed(l) \cup {Hole}
  <2>1. [1..Len(l) -> S] \subseteq Seq(S)
    BY <1>1, SeqDef
  <2>2. QED
    BY <1>2, <2>1
<1>4. QED
  BY <1>1, <1>3 DEF Listed

LEMMA AdmittedStays ==
  ASSUME Keeps, NEW c \in DmlCall, Admitted(c, objects)
  PROVE  Admitted(c, objects')
<1>1. Listed(c.list) \subseteq Refs
  <2>1. c.list \in Seq(Refs \cup {Hole})
    BY DmlAssumption DEF DmlCall
  <2>2. QED
    BY <2>1, ListedType
<1>2. QED
  BY <1>1 DEF Keeps, Admitted

LEMMA AdmissionNext ==
  ASSUME Keeps,
         \A i \in 1..Len(calls') :
           /\ Admitted(calls'[i], objects')
           /\ i < Len(calls') => calls'[i].phase # "check"
  PROVE  Admission'
BY DEF Keeps, Admission, Admitted, Refused, TakesOwner

(* The calls below some depth stay as they were, and are admitted still.   *)
LEMMA PrefixAdmitted ==
  ASSUME DmlInv, Admission, Keeps, NEW n \in 0..Len(calls),
         Len(calls') = n, \A i \in 1..n : calls'[i] = calls[i]
  PROVE  Admission'
<1>1. calls \in Seq(DmlCall) /\ Len(calls) \in Nat
  BY LenProperties DEF DmlInv, DmlTypeOK
<1>2. ASSUME NEW i \in 1..n
      PROVE  /\ Admitted(calls'[i], objects')
             /\ i < n => calls'[i].phase # "check"
  <2>1. i \in 1..Len(calls) /\ (i < n => i < Len(calls))
    BY <1>1
  <2>2. calls[i] \in DmlCall
    BY <1>1, <2>1, LenProperties
  <2>3. Admitted(calls[i], objects')
    BY <2>1, <2>2, AdmittedStays DEF Admission
  <2>4. QED
    BY <2>1, <2>3 DEF Admission
<1>3. QED
  BY <1>2, AdmissionNext

(* The current call moves on, the ones below stay. *)
LEMMA BecomesAdmitted ==
  ASSUME DmlInv, Admission, Keeps, calls # <<>>,
         NEW c \in DmlCall, Becomes(c), Admitted(c, objects')
  PROVE  Admission'
<1>1. /\ calls \in Seq(DmlCall) /\ Len(calls) \in Nat \ {0}
      /\ Len(calls') = Len(calls)
      /\ \A i \in 1..(Len(calls) - 1) : calls'[i] = calls[i]
      /\ calls'[Len(calls)] = c
  BY CurrentFacts, ReplaceFacts DEF DmlInv, DmlTypeOK, Becomes
<1>2. ASSUME NEW i \in 1..(Len(calls) - 1)
      PROVE  Admitted(calls'[i], objects') /\ calls'[i].phase # "check"
  <2>1. i \in 1..Len(calls) /\ i < Len(calls)
    BY <1>1
  <2>2. calls[i] \in DmlCall /\ calls[i].phase # "check"
    BY <1>1, <2>1, LenProperties DEF Admission
  <2>3. Admitted(calls[i], objects')
    BY <2>1, <2>2, AdmittedStays DEF Admission
  <2>4. QED
    BY <1>1, <2>2, <2>3
<1>3. ASSUME NEW i \in 1..Len(calls')
      PROVE  /\ Admitted(calls'[i], objects')
             /\ i < Len(calls') => calls'[i].phase # "check"
  <2>1. CASE i = Len(calls)
    BY <1>1, <2>1
  <2>2. CASE i # Len(calls)
    <3>1. i \in 1..(Len(calls) - 1)
      BY <1>1, <2>2
    <3>2. QED
      BY <1>2, <3>1
  <2>3. QED
    BY <2>1, <2>2
<1>4. QED
  BY <1>3, AdmissionNext

LEMMA ThrowAdmitted ==
  ASSUME DmlInv, Admission, calls # <<>>, Throw,
         UNCHANGED <<objects, user, denied>>
  PROVE  Admission'
<1>1. Keeps
  BY DEF Keeps
<1>2. /\ calls' \in Seq(DmlCall) /\ Len(calls') < Len(calls)
      /\ \A i \in 1..Len(calls') : calls'[i] = calls[i]
  BY ThrowFacts DEF DmlInv
<1>3. Len(calls') \in 0..Len(calls)
  <2>1. Len(calls') \in Nat /\ Len(calls) \in Nat
    BY <1>2, CurrentFacts DEF DmlInv
  <2>2. QED
    BY <1>2, <2>1
<1>4. QED
  BY <1>1, <1>2, <1>3, PrefixAdmitted

LEMMA EndsAdmitted ==
  ASSUME DmlInv, Admission, Keeps, Goes("engine"),
         NEW failed \in BOOLEAN, Ends(failed)
  PROVE  Admission'
<1> DEFINE c == [Current EXCEPT !.phase = "after", !.recs = <<>>,
                                !.failed = failed]
<1>1. calls # <<>> /\ Current \in DmlCall /\ Len(calls) \in Nat \ {0}
      /\ Current = calls[Len(calls)]
  BY CurrentFacts DEF Goes, DmlInv
<1>2. <<>> \in Seq(Fields)
  BY EmptySeq
<1>3. c \in DmlCall
  BY <1>1, <1>2 DEF DmlCall
<1>4. Admitted(Current, objects')
  BY <1>1, AdmittedStays DEF Admission
<1>5. /\ c.phase = "after" /\ c.op = Current.op /\ c.via = Current.via
      /\ c.asUser = Current.asUser /\ c.list = Current.list
  BY <1>1 DEF DmlCall
<1>6. Admitted(c, objects')
  <2> HIDE DEF c
  <2>1. QED
    BY <1>4, <1>5 DEF Admitted, Refused, TakesOwner, Goes
<1>7. Becomes(c)
  BY DEF Ends
<1>8. QED
  <2> HIDE DEF c
  <2>1. QED
    BY <1>1, <1>3, <1>6, <1>7, BecomesAdmitted

LEMMA CallAdmitted ==
  ASSUME DmlInv, Admission, NEW l \in Lists, NEW asUser \in BOOLEAN,
         NEW op \in {"insert", "update", "delete", "upsert"},
         NEW via \in {"statement", "Database"}, Call(op, via, asUser, l)
  PROVE  Admission'
<1> DEFINE c == [op |-> op, via |-> via, asUser |-> asUser, list |-> l,
                 phase |-> "check", recs |-> <<>>, failed |-> FALSE]
           n == Len(calls)
<1>1. Keeps
  BY DEF Call, Keeps
<1>2. c \in DmlCall
  BY CalledType DEF DmlInv
<1>3. calls' = Append(calls, c)
  BY DEF Call
<1>4. /\ Len(calls') = n + 1 /\ calls'[n + 1] = c
      /\ \A i \in 1..n : calls'[i] = calls[i]
  <2> HIDE DEF c
  <2>1. QED
    BY <1>2, <1>3, AppendFacts DEF DmlInv
<1>5. calls \in Seq(DmlCall) /\ n \in Nat
  BY LenProperties DEF DmlInv, DmlTypeOK
<1>6. Admitted(c, objects')
  BY DEF Admitted
<1>7. ASSUME NEW i \in 1..n
      PROVE  Admitted(calls[i], objects') /\ calls[i].phase # "check"
  <2>1. calls[i] \in DmlCall /\ Admitted(calls[i], objects)
    BY <1>5, <1>7, LenProperties DEF Admission
  <2>2. calls[i].phase # "check"
    <3>1. CASE i < n
      BY <3>1 DEF Admission
    <3>2. CASE i = n
      <4>1. calls # <<>>
        BY <1>5, <3>2, EmptySeq
      <4>2. Current = calls[n]
        BY <4>1, CurrentFacts DEF DmlInv
      <4>3. QED
        BY <3>2, <4>1, <4>2 DEF Call, CodeRuns, HasTrigger
    <3>3. QED
      BY <1>5, <3>1, <3>2
  <2>3. QED
    BY <1>1, <2>1, <2>2, AdmittedStays
<1>8. ASSUME NEW i \in 1..Len(calls')
      PROVE  /\ Admitted(calls'[i], objects')
             /\ i < Len(calls') => calls'[i].phase # "check"
  <2>1. i \in 1..n \/ i = n + 1
    BY <1>4, <1>5
  <2>2. CASE i \in 1..n
    BY <1>4, <1>7, <2>2
  <2>3. CASE i = n + 1
    <3> HIDE DEF c
    <3>1. QED
      BY <1>4, <1>5, <1>6, <2>3
  <2>4. QED
    BY <2>1, <2>2, <2>3
<1>9. QED
  BY <1>1, <1>8, AdmissionNext

LEMMA ProceedAdmitted ==
  ASSUME DmlInv, Admission, Proceed PROVE Admission'
<1> DEFINE c == [Current EXCEPT !.phase = "before"]
<1>1. /\ calls # <<>> /\ Current \in DmlCall
      /\ Current.list \in Seq(Refs \cup {Hole})
  BY CurrentFacts DEF Proceed, Goes, DmlInv
<1>2. objects \in [Refs -> Fields] /\ user \in Users \cup {None}
  BY DEF DmlInv, DmlTypeOK
<1>3. ASSUME NEW r \in Refs, TakesOwner(Current)
      PROVE  WithOwner(objects[r]).owner # Absent
  <2>1. user \in Exts /\ user # Absent
    BY <1>2, <1>3, DmlAssumption, EngineAssumption DEF TakesOwner, Data
  <2>2. QED
    BY <1>2, <2>1 DEF WithOwner, Fields
<1>4. Keeps
  BY <1>3 DEF Proceed, Keeps
<1>5. c \in DmlCall
  BY <1>1, PhaseType
<1>6. TakesOwner(Current) =>
        \A r \in Listed(Current.list) : objects'[r].owner # Absent
  <2>1. Listed(Current.list) \subseteq Refs
    BY <1>1, ListedType
  <2>2. QED
    BY <1>3, <2>1 DEF Proceed
<1>7. /\ c.phase = "before" /\ c.op = Current.op /\ c.via = Current.via
      /\ c.asUser = Current.asUser /\ c.list = Current.list
  BY <1>1 DEF DmlCall
<1>8. Admitted(c, objects')
  <2> HIDE DEF c
  <2>1. QED
    BY <1>6, <1>7 DEF Proceed, Admitted, Refused, TakesOwner
<1>9. Becomes(c)
  BY DEF Proceed
<1>10. QED
  <2> HIDE DEF c
  <2>1. QED
    BY <1>1, <1>4, <1>5, <1>8, <1>9, BecomesAdmitted

LEMMA CallEngineAdmitted ==
  ASSUME DmlInv, Admission, CallEngine PROVE Admission'
<1> DEFINE l    == Current.list
           recs == Copies(l)
           c    == [Current EXCEPT !.phase = "engine", !.recs = recs]
<1>1. /\ calls # <<>> /\ Current \in DmlCall /\ Len(calls) \in Nat \ {0}
      /\ Current = calls[Len(calls)] /\ l \in Seq(Refs \cup {Hole})
  BY CurrentFacts DEF CallEngine, Goes, DmlInv
<1>2. Keeps
  BY DEF CallEngine, Keeps
<1>3. Admitted(Current, objects)
  BY <1>1 DEF Admission
<1>4. Current.phase = "before"
  BY DEF CallEngine, Goes
<1>5. recs \in Seq(Fields)
  BY <1>1, CopiesType
<1>6. /\ c \in DmlCall /\ c.phase = "engine" /\ c.recs = recs
      /\ c.op = Current.op /\ c.via = Current.via
      /\ c.asUser = Current.asUser /\ c.list = l
  <2> HIDE DEF recs
  <2>1. QED
    BY <1>1, <1>5 DEF DmlCall
<1>7. TakesOwner(Current) =>
        /\ \A r \in Listed(l) : objects[r].owner # Absent
        /\ \A j \in 1..Len(recs) : recs[j].owner # Absent
  <2>1. SUFFICES ASSUME TakesOwner(Current)
                 PROVE  /\ \A r \in Listed(l) : objects[r].owner # Absent
                        /\ \A j \in 1..Len(recs) : recs[j].owner # Absent
    OBVIOUS
  <2>2. \A r \in Listed(l) : objects[r].owner # Absent
    BY <1>3, <1>4, <2>1 DEF Admitted
  <2>3. SObjectsOf(l) \in Seq(Listed(l))
    <3>1. l \in Seq(Listed(l) \cup {Hole})
      BY <1>1, ListedType
    <3> HIDE DEF l
    <3>2. QED
      BY <3>1, SObjectsOfType
  <2> DEFINE q == SObjectsOf(l)
  <2>4. Len(q) \in Nat /\ \A j \in 1..Len(q) : q[j] \in Listed(l)
    BY <2>3, LenProperties
  <2>5. recs = [i \in 1..Len(q) |-> objects[q[i]]]
    BY DEF Copies
  <2>6. Len(recs) = Len(q)
    <3>1. DOMAIN recs = 1..Len(recs) /\ Len(recs) \in Nat
      <4> HIDE DEF recs
      <4>1. QED
        BY <1>5, LenProperties
    <3>2. DOMAIN recs = 1..Len(q)
      <4> HIDE DEF recs, q
      <4>1. QED
        BY <2>5
    <3> HIDE DEF recs, q
    <3>3. QED
      BY <2>4, <3>1, <3>2
  <2>7. ASSUME NEW j \in 1..Len(recs) PROVE recs[j].owner # Absent
    <3>1. recs[j] = objects[q[j]] /\ q[j] \in Listed(l)
      <4> HIDE DEF recs, q, l
      <4>1. QED
        BY <2>4, <2>5, <2>6
    <3> HIDE DEF recs, q, l
    <3>2. QED
      BY <2>2, <3>1
  <2>8. QED
    BY <2>2, <2>7
<1>8. Admitted(c, objects')
  <2>1. ~Refused(Current) /\ objects' = objects
    BY <1>3, <1>4 DEF CallEngine, Admitted
  <2> HIDE DEF c, recs, l
  <2>2. QED
    BY <1>6, <1>7, <2>1 DEF Admitted, Refused, TakesOwner
<1>9. Becomes(c)
  BY DEF CallEngine
<1>10. QED
  <2> HIDE DEF c
  <2>1. QED
    BY <1>1, <1>2, <1>6, <1>8, <1>9, BecomesAdmitted

LEMMA EngineTurnAdmitted ==
  ASSUME DmlInv, Admission, EngineTurn PROVE Admission'
<1> DEFINE rec == Current.recs[call.done + 1]
           c   == [Current EXCEPT !.recs = NextRecs]
<1>1. /\ calls # <<>> /\ Current \in DmlCall /\ Len(calls) \in Nat \ {0}
      /\ Current = calls[Len(calls)] /\ Current.phase = "engine"
  BY CurrentFacts DEF EngineTurn, Goes, DmlInv
<1>2. Keeps /\ objects' = objects
  BY DEF EngineTurn, Keeps
<1>3. Admitted(Current, objects)
  BY <1>1 DEF Admission
<1>4. rec \in Fields
  BY TurnFacts
<1>5. /\ c \in DmlCall /\ c.phase = "engine" /\ c.recs = NextRecs
      /\ c.op = Current.op /\ c.via = Current.via
      /\ c.asUser = Current.asUser /\ c.list = Current.list
  <2>1. NextRecs \in Seq(Fields)
    BY TurnRecs
  <2>2. QED
    BY <1>1, <2>1, RecsType DEF DmlCall
<1>6. /\ Len(NextRecs) = Len(Current.recs)
      /\ \A j \in 1..Len(NextRecs) : NextRecs[j].owner = Current.recs[j].owner
  <2>1. WithId(call.op, call.obj, rec).owner = rec.owner
    <3> HIDE DEF rec
    <3>1. QED
      BY <1>4 DEF WithId, Fields
  <2>2. QED
    BY <2>1, TurnRecs
<1>7. Admitted(c, objects')
  <2> HIDE DEF c
  <2>1. QED
    BY <1>1, <1>2, <1>3, <1>5, <1>6 DEF Admitted, Refused, TakesOwner
<1>8. Becomes(c)
  BY TurnRecs
<1>9. QED
  <2> HIDE DEF c
  <2>1. QED
    BY <1>1, <1>2, <1>5, <1>7, <1>8, BecomesAdmitted

LEMMA AdmissionStep ==
  DmlInv /\ Admission /\ [DmlNext]_dmlVars => Admission'
<1> SUFFICES ASSUME DmlInv, Admission, [DmlNext]_dmlVars PROVE Admission'
  OBVIOUS
<1>1. objects \in [Refs -> Fields] /\ calls \in Seq(DmlCall)
  BY DEF DmlInv, DmlTypeOK
<1>2. ASSUME calls' = <<>> PROVE Admission'
  <2>1. Len(<<>>) = 0
    BY EmptySeq
  <2>2. QED
    BY <1>2, <2>1 DEF Admission
<1>3. ASSUME Keeps, calls' = calls PROVE Admission'
  <2>1. Len(calls) \in 0..Len(calls)
    BY <1>1, LenProperties
  <2>2. QED
    BY <1>3, <2>1, PrefixAdmitted
<1>4. CASE \E r \in Refs, u \in Data : SetOwner(r, u)
  <2>1. PICK r \in Refs, u \in Data : SetOwner(r, u)
    BY <1>4
  <2>2. u # Absent
    BY EngineAssumption
  <2>3. Keeps
    BY <1>1, <2>1, <2>2 DEF SetOwner, Keeps, Fields
  <2>4. QED
    BY <1>3, <2>1, <2>3 DEF SetOwner
<1>5. CASE \E u \in Users \cup {None} : RunAs(u)
  BY <1>2, <1>5 DEF RunAs
<1>6. CASE \E op \in {"insert", "update", "delete", "upsert"}, l \in Lists,
              via \in {"statement", "Database"}, asUser \in BOOLEAN :
             Call(op, via, asUser, l)
  BY <1>6, CallAdmitted
<1>7. CASE Refuse
  BY <1>7, ThrowAdmitted DEF Refuse, Goes
<1>8. CASE Proceed
  BY <1>8, ProceedAdmitted
<1>9. CASE TriggerThrows
  BY <1>9, ThrowAdmitted DEF TriggerThrows
<1>10. CASE CallEngine
  BY <1>10, CallEngineAdmitted
<1>11. CASE EngineTurn
  BY <1>11, EngineTurnAdmitted
<1>12. CASE EngineDone
  <2>1. ASSUME NEW r \in Refs
        PROVE  WriteBack(Current)[r].owner = objects[r].owner
    BY <1>1 DEF WriteBack, Fields
  <2>2. Keeps
    BY <1>12, <2>1 DEF EngineDone, Keeps
  <2>3. QED
    BY <1>12, <2>2, EndsAdmitted DEF EngineDone
<1>13. CASE EngineFailed
  <2>1. Keeps /\ calls # <<>>
    BY <1>13 DEF EngineFailed, Keeps, Goes
  <2>2. QED
    BY <1>13, <2>1, ThrowAdmitted, EndsAdmitted DEF EngineFailed
<1>14. CASE EndCall
  <2>1. Keeps /\ calls # <<>> /\ calls' = Front(calls)
    BY <1>14 DEF EndCall, Keeps, Goes
  <2>2. /\ Len(calls') = Len(calls) - 1 /\ Len(calls) \in Nat \ {0}
        /\ \A i \in 1..(Len(calls) - 1) : calls'[i] = calls[i]
    BY <1>1, <2>1, FrontFacts
  <2>3. Len(calls) - 1 \in 0..Len(calls)
    BY <2>2
  <2>4. QED
    BY <2>1, <2>2, <2>3, PrefixAdmitted
<1>15. CASE NextTest
  BY <1>2, <1>15 DEF NextTest
<1>16. CASE UNCHANGED dmlVars
  BY <1>3, <1>16 DEF dmlVars, script, Keeps
<1>17. QED
  BY <1>4, <1>5, <1>6, <1>7, <1>8, <1>9, <1>10, <1>11, <1>12, <1>13, <1>14,
     <1>15, <1>16 DEF DmlNext

LEMMA AdmissionInvariant == DmlSpec => [](DmlInv /\ Admission)
<1>1. DmlInit => Admission
  <2> SUFFICES ASSUME DmlInit PROVE Admission
    OBVIOUS
  <2>1. Len(<<>>) = 0
    BY EmptySeq
  <2>2. QED
    BY <2>1 DEF DmlInit, Admission
<1>2. QED
  BY <1>1, DmlInvariant, AdmissionStep, PTL DEF DmlSpec

(* Rows change at a turn of the engine's loop and at the next test.        *)
LEMMA RowsChange ==
  ASSUME DmlInv, [DmlNext]_dmlVars, rows' # rows
  PROVE  EngineTurn \/ NextTest
<1>1. CASE CallEngine
  BY <1>1 DEF CallEngine, Start, Insert, Update, Delete, Upsert, Begin
<1>2. CASE EngineDone
  BY <1>2 DEF EngineDone, Finish, db
<1>3. CASE UNCHANGED vars
  BY <1>3 DEF vars, db
<1>4. QED
  BY <1>1, <1>2, <1>3 DEF DmlNext, SetOwner, RunAs, Call, Refuse, Proceed,
     TriggerThrows, EngineFailed, EndCall, dmlVars

(* However calls nest in triggers, fail and throw, no row changes while an *)
(* insert, update or delete AS USER waits that its user may not do         *)
(* (interpreter.go:1879-1882, 1937-1940, 1967-1970).                       *)
THEOREM RefusedNeverChangesAnything == DmlSpec => RefusedChangesNothing
<1>1. DmlInv /\ Admission /\ [DmlNext]_dmlVars =>
        [rows' # rows =>
           \A i \in DOMAIN calls :
             ~Barred(calls[i], {"insert", "update", "delete"})]_dmlVars
  <2> SUFFICES ASSUME DmlInv, Admission, [DmlNext]_dmlVars, rows' # rows,
                      NEW i \in DOMAIN calls
               PROVE  ~Barred(calls[i], {"insert", "update", "delete"})
    OBVIOUS
  <2>1. calls # <<>> /\ calls \in Seq(DmlCall)
    <3>1. calls \in Seq(DmlCall)
      BY DEF DmlInv, DmlTypeOK
    <3>2. DOMAIN <<>> = {}
      OBVIOUS
    <3>3. QED
      BY <3>1, <3>2
  <2>2. EngineTurn
    BY <2>1, RowsChange DEF NextTest
  <2>3. i \in 1..Len(calls)
    BY <2>1, LenProperties
  <2>4. calls[i].phase # "check"
    <3>1. /\ Len(calls) \in Nat \ {0} /\ Current = calls[Len(calls)]
      BY <2>1, CurrentFacts DEF DmlInv
    <3>2. CASE i = Len(calls)
      BY <2>2, <3>1, <3>2 DEF EngineTurn, Goes
    <3>3. CASE i # Len(calls)
      BY <2>3, <3>1, <3>3 DEF Admission
    <3>4. QED
      BY <3>2, <3>3
  <2>5. ~Refused(calls[i])
    BY <2>3, <2>4 DEF Admission, Admitted
  <2>6. QED
    BY <2>5 DEF Barred, Refused, Permission
<1>2. QED
  BY <1>1, AdmissionInvariant, PTL DEF DmlSpec, RefusedChangesNothing

(* A row that an insert statement adds in a runAs block has an owner: the  *)
(* one its object had, or got from the statement, or from a trigger.  It   *)
(* has none only if code set the OwnerId of the object to null             *)
(* (interpreter.go:1884-1887, 1903-1924).                                  *)
THEOREM InsertsAlwaysHaveAnOwner == DmlSpec => InsertsHaveAnOwner
<1>1. DmlInv /\ Admission /\ [DmlNext]_dmlVars =>
        [\A s \in SObjects : \A x \in DOMAIN rows'[s] \ DOMAIN rows[s] :
           user # None /\ Current.op = "insert"
             /\ Current.via = "statement" =>
               rows'[s][x] # Null \/ DisownedInCode]_dmlVars
  <2> SUFFICES ASSUME DmlInv, Admission, [DmlNext]_dmlVars,
                      NEW s \in SObjects, NEW x \in DOMAIN rows'[s] \ DOMAIN rows[s],
                      user # None, Current.op = "insert",
                      Current.via = "statement"
               PROVE  rows'[s][x] # Null \/ DisownedInCode
    OBVIOUS
  <2>1. ~NextTest
    <3>1. SUFFICES ASSUME NextTest PROVE FALSE
      OBVIOUS
    <3>2. rows'[s] = Empty \/ rows'[s] = rows[s]
      BY <3>1 DEF NextTest, Reset
    <3>3. DOMAIN Empty = {}
      BY DEF Empty
    <3>4. QED
      BY <3>2, <3>3
  <2>2. EngineTurn
    BY <2>1, RowsChange
  <2> DEFINE rec == Current.recs[call.done + 1]
  <2>3. rows'[s][x] = Column(Row(rec))
    <3>1. Adds(Row(rec))
      BY <2>2, TurnRecs
    <3> HIDE DEF rec
    <3>2. QED
      BY <3>1 DEF Adds
  <2>4. rec.owner \in Data
    <3>1. /\ calls # <<>> /\ rec \in Fields
          /\ call.done + 1 \in 1..Len(Current.recs)
      BY <2>2, TurnFacts
    <3>2. Admitted(Current, objects)
      <4>1. Len(calls) \in Nat \ {0} /\ Current = calls[Len(calls)]
        BY <3>1, CurrentFacts DEF DmlInv
      <4>2. QED
        BY <4>1 DEF Admission
    <3>3. rec.owner # Absent
      BY <2>2, <3>1, <3>2 DEF Admitted, TakesOwner, EngineTurn, Goes
    <3> HIDE DEF rec
    <3>4. QED
      BY <3>1, <3>3 DEF Fields
  <2>5. CASE rec.owner = Null
    BY <2>5 DEF DisownedInCode
  <2>6. CASE rec.owner # Null
    <3> HIDE DEF rec
    <3>1. Column(Row(rec)) \in Exts
      BY <2>4, <2>6 DEF Column, Row, Data
    <3>2. QED
      BY <2>3, <3>1, EngineAssumption
  <2>7. QED
    BY <2>5, <2>6
<1>2. QED
  BY <1>1, AdmissionInvariant, PTL DEF DmlSpec, InsertsHaveAnOwner
----------------------------------------------------------------------------
(* Rows and objects.  The records of the call the engine works on are      *)
(* those of its objects, in their order; of an insert or upsert, those     *)
(* done have rows.                                                         *)
Slots == SObjectsOf(Current.list)

Served ==
  call.op # "idle" =>
    /\ call.op = Current.op /\ call.obj = Obj(Current)
    /\ Len(Current.recs) = Len(Slots)
    /\ \A j \in 1..Len(Slots) :
         /\ Current.recs[j].owner = objects[Slots[j]].owner
         /\ j <= call.done /\ call.op \in {"insert", "upsert"} =>
              Current.recs[j].id \in DOMAIN rows[call.obj]
         /\ j <= call.done /\ call.op = "insert" =>
              rows[call.obj][Current.recs[j].id]
                = Column([ext |-> Current.recs[j].owner])

LEMMA SlotsFacts ==
  ASSUME DmlTypeOK, calls # <<>>
  PROVE  /\ Slots \in Seq(Refs) /\ Len(Slots) \in Nat
         /\ \A j \in 1..Len(Slots) :
              Slots[j] \in Refs /\ Slots[j] \in Listed(Current.list)
<1> DEFINE l == Current.list
<1>1. l \in Seq(Refs \cup {Hole})
  BY CurrentFacts
<1>2. l \in Seq(Listed(l) \cup {Hole})
  BY <1>1, ListedType
<1>3. Slots = SObjectsOf(l)
  BY DEF Slots
<1> HIDE DEF l
<1>4. SObjectsOf(l) \in Seq(Refs) /\ SObjectsOf(l) \in Seq(Listed(l))
  BY <1>1, <1>2, SObjectsOfType
<1>5. QED
  BY <1>3, <1>4, LenProperties DEF l

LEMMA CopiesFacts ==
  ASSUME NEW l \in Seq(Refs \cup {Hole})
  PROVE  /\ Len(Copies(l)) = Len(SObjectsOf(l))
         /\ \A j \in 1..Len(SObjectsOf(l)) :
              Copies(l)[j] = objects[SObjectsOf(l)[j]]
<1> DEFINE q == SObjectsOf(l)
<1>1. Len(q) \in Nat
  BY SObjectsOfType, LenProperties
<1>2. Copies(l) = [j \in 1..Len(q) |-> objects[q[j]]]
  BY DEF Copies
<1> HIDE DEF q
<1>3. Len([j \in 1..Len(q) |-> objects[q[j]]]) = Len(q)
  BY <1>1
<1>4. QED
  BY <1>2, <1>3 DEF q

(* The call as the engine gets it, and after a turn. *)
LEMMA EngineCalled ==
  ASSUME DmlInv, CallEngine
  PROVE  /\ calls # <<>> /\ Current'.op = Current.op
         /\ Current'.list = Current.list /\ Obj(Current)' = Obj(Current)
         /\ Slots' = Slots /\ Current'.recs = Copies(Current.list)
         /\ call'.op = Current.op /\ call'.obj = Obj(Current)
         /\ call'.done = 0 /\ objects' = objects /\ UNCHANGED counters
<1> DEFINE recs == Copies(Current.list)
           c == [Current EXCEPT !.phase = "engine", !.recs = recs]
<1>1. /\ calls # <<>> /\ Current \in DmlCall
      /\ Current.list \in Seq(Refs \cup {Hole})
  BY CurrentFacts DEF CallEngine, Goes, DmlInv
<1>2. recs \in Seq(Fields)
  BY <1>1, CopiesType
<1>3. c \in DmlCall /\ c.op = Current.op /\ c.list = Current.list /\ c.recs = recs
  <2> HIDE DEF recs
  <2>1. QED
    BY <1>1, <1>2 DEF DmlCall
<1>4. Current' = c
  <2>1. Becomes(c)
    BY DEF CallEngine
  <2> HIDE DEF c
  <2>2. QED
    BY <1>1, <1>3, <2>1, BecomesFacts DEF DmlInv
<1>5. Begin(Current.op, Obj(Current), "Id")
  BY DEF CallEngine, Start, Insert, Update, Delete, Upsert
<1>6. /\ call'.op = Current.op /\ call'.obj = Obj(Current)
      /\ call'.done = 0 /\ objects' = objects /\ UNCHANGED counters
  BY <1>5 DEF Begin, CallEngine
<1>7. Current'.op = Current.op /\ Current'.list = Current.list /\ Current'.recs = recs
  <2> HIDE DEF c, recs
  <2>1. QED
    BY <1>3, <1>4
<1>8. Slots' = Slots /\ Obj(Current)' = Obj(Current)
  BY <1>7 DEF Slots, Obj
<1>9. QED
  BY <1>1, <1>6, <1>7, <1>8

LEMMA TurnTaken ==
  ASSUME DmlInv, EngineTurn
  PROVE  /\ calls # <<>> /\ Current'.op = Current.op
         /\ Current'.list = Current.list /\ Obj(Current)' = Obj(Current)
         /\ Slots' = Slots /\ Current'.recs = NextRecs /\ objects' = objects
<1> DEFINE c == [Current EXCEPT !.recs = NextRecs]
<1>1. calls # <<>> /\ Current \in DmlCall
  BY TurnFacts
<1>2. Becomes(c) /\ NextRecs \in Seq(Fields)
  BY TurnRecs
<1>3. c \in DmlCall /\ c.op = Current.op /\ c.list = Current.list /\ c.recs = NextRecs
  BY <1>1, <1>2 DEF DmlCall
<1> HIDE DEF c
<1>4. Current' = c
  BY <1>1, <1>2, <1>3, BecomesFacts DEF DmlInv
<1>5. Slots' = Slots /\ Obj(Current)' = Obj(Current)
  BY <1>3, <1>4 DEF Slots, Obj
<1>6. QED
  BY <1>1, <1>3, <1>4, <1>5 DEF EngineTurn

(* Outside the engine's loop no call is in progress there.                 *)
LEMMA OtherSteps ==
  ASSUME DmlInv, [DmlNext]_dmlVars
  PROVE  CallEngine \/ EngineTurn \/ call'.op = "idle" \/ UNCHANGED dmlVars
<1>1. ASSUME ~Goes("engine"), UNCHANGED vars PROVE call'.op = "idle"
  BY <1>1, EngineIdle DEF vars
<1>2. CASE EngineDone
  BY <1>2 DEF EngineDone, Finish, Idle
<1>3. CASE EngineFailed
  BY <1>3 DEF EngineFailed, vars
<1>4. CASE Refuse \/ Proceed \/ EndCall
  BY <1>1, <1>4 DEF Refuse, Proceed, EndCall, Goes
<1>5. CASE TriggerThrows
  BY <1>1, <1>5 DEF TriggerThrows, HasTrigger, Goes
<1>6. CASE \E r \in Refs, u \in Data : SetOwner(r, u)
  BY <1>1, <1>6 DEF SetOwner, CodeRuns, HasTrigger, Goes
<1>7. CASE \E u \in Users \cup {None} : RunAs(u)
  BY <1>1, <1>7 DEF RunAs, Goes
<1>8. CASE \E op \in {"insert", "update", "delete", "upsert"}, l \in Lists,
              via \in {"statement", "Database"}, asUser \in BOOLEAN :
             Call(op, via, asUser, l)
  BY <1>1, <1>8 DEF Call, CodeRuns, HasTrigger, Goes
<1>9. CASE NextTest
  BY <1>9 DEF NextTest, Reset
<1>10. QED
  BY <1>2, <1>3, <1>4, <1>5, <1>6, <1>7, <1>8, <1>9 DEF DmlNext

(* A turn that gets by leaves a row for the record of an insert or upsert, *)
(* and takes none away.                                                    *)
RowId(rec) ==
  IF rec.id = Absent THEN NewId(call.obj, counters[call.obj] + 1) ELSE rec.id

Serves(rec) ==
  /\ DOMAIN rows[call.obj] \subseteq DOMAIN rows'[call.obj]
  /\ RowId(rec) \in DOMAIN rows'[call.obj]
  /\ call.op = "insert" =>
       /\ rows'[call.obj][RowId(rec)] = Column(rec)
       /\ \A y \in DOMAIN rows[call.obj] :
            rows'[call.obj][y] = rows[call.obj][y]

Counts(rec) ==
  /\ \A s \in SObjects : counters'[s] >= counters[s]
  /\ call.op \in {"insert", "upsert"} /\ rec.id = Absent =>
       counters'[call.obj] = counters[call.obj] + 1

LEMMA InsertServes ==
  ASSUME TypeOK, call.op # "idle", NEW rec \in Inputs, rec.spelt = "Id",
         ExecInsert(rec)
  PROVE  (call'.op # "idle" => Serves(rec)) /\ Counts(rec)
<1> DEFINE s   == call.obj
           x   == RowId(rec)
           t   == WithRow(rows[s], x, Column(rec))
           new == IF LacksId(rec) THEN {NewId(s, counters[s] + 1)} ELSE {}
           err == InsertError(s, x, rec)
<1>1. s \in SObjects /\ counters \in [SObjects -> 0..MaxCounter]
  BY DEF TypeOK, CallOK
<1>2. LacksId(rec) <=> rec.id = Absent
  BY DEF LacksId
<1>3. (err = "none" /\ Store(s, t)) \/ Fail(err, x, new)
  BY <1>2 DEF ExecInsert, RowId
<1>4. Counts(rec)
  <2>1. counters' = IF rec.id = Absent THEN [counters EXCEPT ![s] = @ + 1] ELSE counters
    BY <1>2 DEF ExecInsert
  <2>2. \A n \in 0..MaxCounter : n + 1 >= n /\ n >= n
    BY EngineAssumption
  <2>3. \A r \in SObjects : counters'[r] >= counters[r]
    BY <1>1, <2>1, <2>2
  <2>4. rec.id = Absent => counters'[s] = counters[s] + 1
    BY <1>1, <2>1
  <2>5. QED
    BY <2>3, <2>4 DEF Counts
<1>5. CASE Fail(err, x, new)
  <2> HIDE DEF err, x, new
  <2>1. call'.op = "idle"
    BY <1>5 DEF Fail, Idle
  <2>2. QED
    BY <1>4, <2>1
<1>6. CASE err = "none" /\ Store(s, t)
  <2>1. rows'[s] = t
    <3> HIDE DEF t, s
    <3>1. QED
      BY <1>1, <1>6 DEF Store, TypeOK, RowsOK
  <2>2. x \notin DOMAIN rows[s]
    <3> HIDE DEF x, s
    <3>1. QED
      BY <1>6 DEF InsertError
  <2>3. /\ DOMAIN t = DOMAIN rows[s] \cup {x} /\ t[x] = Column(rec)
        /\ \A y \in DOMAIN rows[s] : t[y] = rows[s][y]
    <3> HIDE DEF x, s
    <3>1. QED
      BY <2>2 DEF WithRow
  <2>4. Serves(rec)
    <3> HIDE DEF t
    <3>1. QED
      BY <2>1, <2>3 DEF Serves
  <2>5. QED
    BY <1>4, <2>4
<1>7. QED
  BY <1>3, <1>5, <1>6

LEMMA UpdateServes ==
  ASSUME TypeOK, call.op = "upsert", NEW rec \in Inputs,
         rec.id \in DOMAIN rows[call.obj], rec.id # Absent, ExecUpdate(rec)
  PROVE  Serves(rec) /\ Counts(rec)
<1> DEFINE s == call.obj
           t == SetRow(rows[s], rec.id, Column(rec))
<1>1. s \in SObjects /\ counters \in [SObjects -> 0..MaxCounter]
  BY DEF TypeOK, CallOK
<1>2. Counts(rec)
  <2>1. \A n \in 0..MaxCounter : n >= n
    BY EngineAssumption
  <2>2. QED
    BY <1>1, <2>1 DEF Counts, ExecUpdate
<1>3. UNCHANGED rows \/ Store(s, t)
  BY DEF ExecUpdate, Fail
<1>4. DOMAIN rows'[s] = DOMAIN rows[s]
  <2>1. CASE Store(s, t)
    <3>1. DOMAIN t = DOMAIN rows[s]
      BY DEF SetRow
    <3> HIDE DEF t, s
    <3>2. QED
      BY <1>1, <2>1, <3>1 DEF Store, TypeOK, RowsOK
  <2>2. QED
    BY <1>3, <2>1
<1>5. QED
  BY <1>2, <1>4 DEF Serves, RowId

LEMMA RecordServes ==
  ASSUME TypeOK, NEW rec \in Inputs, rec.spelt = "Id", call.key = "Id",
         RecordStep(rec)
  PROVE  /\ Counts(rec)
         /\ call'.op # "idle" => /\ call'.op = call.op /\ call'.obj = call.obj
                                 /\ call'.done = call.done + 1
         /\ call'.op # "idle" /\ call.op \in {"insert", "upsert"} => Serves(rec)
<1>1. call.op # "idle" /\ call.obj \in SObjects
  BY DEF RecordStep, InsertRecord, UpdateRecord, DeleteRecord, UpsertRecord,
         Turn, TypeOK, CallOK
<1>2. call'.op # "idle" => /\ call'.op = call.op /\ call'.obj = call.obj
                           /\ call'.done = call.done + 1
  <2>1. ASSUME NEW err, NEW x, NEW new, Fail(err, x, new)
        PROVE  call'.op = "idle"
    BY <2>1 DEF Fail, Idle
  <2>2. ASSUME NEW new, Accept(new)
        PROVE  /\ call'.op = call.op /\ call'.obj = call.obj
               /\ call'.done = call.done + 1
    BY <2>2 DEF Accept, TypeOK, CallOK
  <2>3. (\E new : Accept(new)) \/ (\E err, x, new : Fail(err, x, new))
    BY DEF RecordStep, InsertRecord, UpdateRecord, DeleteRecord, UpsertRecord,
           ExecInsert, ExecUpdate, ExecRekey
  <2>4. QED
    BY <2>1, <2>2, <2>3
<1>3. CASE call.op \notin {"insert", "upsert"}
  <2>1. UNCHANGED counters
    BY <1>3 DEF RecordStep, InsertRecord, UpdateRecord, DeleteRecord,
                UpsertRecord, Turn, ExecUpdate
  <2>2. \A n \in 0..MaxCounter : n >= n
    BY EngineAssumption
  <2>3. \A s \in SObjects : counters[s] \in 0..MaxCounter
    BY DEF TypeOK
  <2>4. Counts(rec)
    BY <1>3, <2>1, <2>2, <2>3 DEF Counts
  <2>5. QED
    BY <1>2, <1>3, <2>4
<1>4. CASE ExecInsert(rec)
  BY <1>1, <1>2, <1>4, InsertServes
<1>5. CASE /\ call.op = "upsert" /\ ExecUpdate(rec)
           /\ rec.id \in DOMAIN rows[call.obj]
  <2>1. rec.id # Absent
    BY <1>1, <1>5, EngineAssumption DEF TypeOK, RowsOK
  <2>2. QED
    BY <1>2, <1>5, <2>1, UpdateServes
<1>6. CASE call.op = "insert"
  BY <1>4, <1>6 DEF RecordStep, InsertRecord, UpdateRecord, DeleteRecord,
                    UpsertRecord, Turn
<1>7. CASE call.op = "upsert"
  <2>1. UpsertRecord(rec)
    BY <1>7 DEF RecordStep, InsertRecord, UpdateRecord, DeleteRecord, Turn
  <2>2. Matches(call.obj, rec) # {} => rec.id \in DOMAIN rows[call.obj]
    BY DEF Matches
  <2>3. QED
    BY <1>4, <1>5, <1>7, <2>1, <2>2 DEF UpsertRecord
<1>8. QED
  BY <1>3, <1>6, <1>7

LEMMA TurnServes ==
  ASSUME DmlInv, EngineTurn
  PROVE  /\ Counts(Row(Current.recs[call.done + 1]))
         /\ call'.op # "idle" => /\ call'.op = call.op /\ call'.obj = call.obj
                                 /\ call'.done = call.done + 1
         /\ call'.op # "idle" /\ call.op \in {"insert", "upsert"} =>
              Serves(Row(Current.recs[call.done + 1]))
<1> DEFINE rec == Row(Current.recs[call.done + 1])
<1>1. rec \in Inputs /\ RecordStep(rec)
  BY TurnFacts
<1>2. rec.spelt = "Id"
  BY DEF Row
<1>3. TypeOK /\ call.key = "Id"
  BY DEF EngineTurn, DmlInv, DmlTypeOK, Driving
<1> HIDE DEF rec
<1>4. QED
  BY <1>1, <1>2, <1>3, RecordServes DEF rec

(* The id in the record after the turn is that of its row. *)
LEMMA TurnIds ==
  ASSUME DmlInv, EngineTurn
  PROVE  LET rec == Current.recs[call.done + 1]
             new == NextRecs[call.done + 1]
         IN  /\ new.owner = rec.owner
             /\ call.op \in {"insert", "upsert"} => new.id = RowId(Row(rec))
             /\ call.op \notin {"insert", "upsert"} => new.id = rec.id
<1> DEFINE rec == Current.recs[call.done + 1]
           new == NextRecs[call.done + 1]
<1>1. rec \in Fields /\ call.done + 1 \in 1..Len(Current.recs)
  BY TurnFacts
<1>2. new = WithId(call.op, call.obj, rec)
  <2>1. call.done + 1 \in 1..Len(NextRecs)
    BY <1>1, TurnRecs
  <2>2. QED
    BY <2>1, TurnRecs
<1> HIDE DEF rec, new
<1>3. /\ new.owner = rec.owner
      /\ call.op \in {"insert", "upsert"} => new.id = RowId(Row(rec))
      /\ call.op \notin {"insert", "upsert"} => new.id = rec.id
  BY <1>1, <1>2 DEF WithId, Generated, Fields, RowId, Row
<1>4. QED
  BY <1>3 DEF rec, new

LEMMA ServedTurn ==
  ASSUME DmlInv, Served, EngineTurn PROVE Served'
<1> DEFINE i   == call.done + 1
           rec == Current.recs[i]
           s   == call.obj
<1>1. SUFFICES ASSUME call'.op # "idle" PROVE Served'
  BY DEF Served
<1>2. /\ call.op # "idle" /\ call.op = Current.op /\ s = Obj(Current)
      /\ Len(Current.recs) = Len(Slots)
      /\ \A j \in 1..Len(Slots) :
           /\ Current.recs[j].owner = objects[Slots[j]].owner
           /\ j <= call.done /\ call.op \in {"insert", "upsert"} =>
                Current.recs[j].id \in DOMAIN rows[s]
           /\ j <= call.done /\ call.op = "insert" =>
                rows[s][Current.recs[j].id]
                  = Column([ext |-> Current.recs[j].owner])
  BY DEF Served, EngineTurn
<1>3. /\ Current'.op = Current.op /\ Obj(Current)' = Obj(Current)
      /\ Slots' = Slots /\ Current'.recs = NextRecs /\ objects' = objects
  BY TurnTaken
<1>4. /\ call'.op = call.op /\ call'.obj = s /\ call'.done = i
      /\ call.op \in {"insert", "upsert"} => Serves(Row(rec))
  BY <1>1, TurnServes
<1>5. /\ Len(NextRecs) = Len(Current.recs)
      /\ \A j \in 1..Len(NextRecs) : j # i => NextRecs[j] = Current.recs[j]
  BY TurnRecs
<1>6. /\ NextRecs[i].owner = rec.owner
      /\ call.op \in {"insert", "upsert"} => NextRecs[i].id = RowId(Row(rec))
  BY TurnIds
<1>7. call.done \in Nat /\ i \in 1..Len(Current.recs) /\ rec \in Fields
  BY TurnFacts
<1>8. Column(Row(rec)) = Column([ext |-> rec.owner])
  <2> HIDE DEF rec
  <2>1. QED
    BY DEF Column, Row
<1>9. ASSUME NEW j \in 1..Len(Slots)
      PROVE  /\ NextRecs[j].owner = objects[Slots[j]].owner
             /\ j <= i /\ call.op \in {"insert", "upsert"} =>
                  NextRecs[j].id \in DOMAIN rows'[s]
             /\ j <= i /\ call.op = "insert" =>
                  rows'[s][NextRecs[j].id]
                    = Column([ext |-> NextRecs[j].owner])
  <2>1. CASE j = i
    <3>1. NextRecs[j].owner = objects[Slots[j]].owner
      BY <1>2, <1>6, <2>1
    <3> HIDE DEF rec, s, i
    <3>2. QED
      BY <1>4, <1>6, <1>8, <2>1, <3>1 DEF Serves, s
  <2>2. CASE j # i
    <3>1. NextRecs[j] = Current.recs[j]
      BY <1>2, <1>5, <2>2
    <3>2. j <= i => j <= call.done
      BY <1>7, <2>2
    <3> HIDE DEF rec, i
    <3>3. QED
      BY <1>2, <1>4, <3>1, <3>2 DEF Serves
  <2>3. QED
    BY <2>1, <2>2
<1> HIDE DEF i, s, rec
<1>10. QED
  BY <1>2, <1>3, <1>4, <1>5, <1>9 DEF Served

LEMMA ServedStep ==
  DmlInv /\ Served /\ [DmlNext]_dmlVars => Served'
<1> SUFFICES ASSUME DmlInv, Served, [DmlNext]_dmlVars PROVE Served'
  OBVIOUS
<1>1. CASE CallEngine
  <2> DEFINE l == Current.list
  <2>1. /\ calls # <<>> /\ Current'.op = Current.op
        /\ Obj(Current)' = Obj(Current) /\ Slots' = Slots
        /\ Current'.recs = Copies(l)
        /\ call'.op = Current.op /\ call'.obj = Obj(Current)
        /\ call'.done = 0 /\ objects' = objects
    BY <1>1, EngineCalled
  <2>2. l \in Seq(Refs \cup {Hole}) /\ Slots = SObjectsOf(l)
    BY <2>1, CurrentFacts DEF DmlInv, Slots
  <2>3. /\ Len(Copies(l)) = Len(Slots)
        /\ \A j \in 1..Len(Slots) : Copies(l)[j] = objects[Slots[j]]
    <3> HIDE DEF l
    <3>1. QED
      BY <2>2, CopiesFacts
  <2>4. \A j \in 1..Len(Slots) : ~(j <= 0)
    BY <2>1, SlotsFacts DEF DmlInv
  <2> HIDE DEF l
  <2>5. QED
    BY <2>1, <2>3, <2>4 DEF Served
<1>2. CASE EngineTurn
  BY <1>2, ServedTurn
<1>3. CASE call'.op = "idle"
  BY <1>3 DEF Served
<1>4. CASE UNCHANGED dmlVars
  BY <1>4 DEF Served, dmlVars, vars, db, script, Slots, Current, Obj
<1>5. QED
  BY <1>1, <1>2, <1>3, <1>4, OtherSteps

LEMMA ServedInvariant == DmlSpec => [](DmlInv /\ Served)
<1>1. DmlInit => Served
  BY DEF DmlInit, Init, Idle, Served
<1>2. QED
  BY <1>1, DmlInvariant, ServedStep, PTL DEF DmlSpec

(* Writing back gives an object the id of its own record.                  *)
LEMMA WriteBackFacts ==
  ASSUME DmlInv, Paired, calls # <<>>, Len(Current.recs) = Len(Slots),
         NEW r \in Refs
  PROVE  /\ WriteBack(Current)[r].owner = objects[r].owner
         /\ \/ /\ WriteBack(Current)[r].id = objects[r].id
               /\ Current.op \in {"insert", "upsert"} =>
                    r \notin BeforeHoles(Current.list)
            \/ /\ Current.op \in {"insert", "upsert"}
               /\ \E j \in 1..Len(Slots) :
                    /\ Slots[j] = r
                    /\ WriteBack(Current)[r].id = Current.recs[j].id
<1> DEFINE l  == Current.list
           n  == Len(Current.recs)
           at == {i \in DOMAIN l : l[i] = r /\ i <= n}
<1>1. /\ l \in Lists /\ l \in Seq(Refs \cup {Hole})
      /\ n \in Nat /\ DOMAIN l = 1..Len(l) /\ Len(l) \in Nat
  BY CurrentFacts, SlotsFacts, LenProperties DEF DmlInv
<1>2. objects[r] \in Fields
  BY DEF DmlInv, DmlTypeOK
<1>3. WriteBack(Current)[r]
        = IF Current.op \in {"insert", "upsert"} /\ at # {}
          THEN [objects[r] EXCEPT !.id = Current.recs[Max(at)].id]
          ELSE objects[r]
  BY DEF WriteBack
<1>4. WriteBack(Current)[r].owner = objects[r].owner
  <2> HIDE DEF at
  <2>1. QED
    BY <1>2, <1>3 DEF Fields
<1>5. CASE Current.op \in {"insert", "upsert"} /\ at # {}
  <2>1. at \subseteq 0..n
    <3> HIDE DEF l, n
    <3>1. QED
      BY <1>1
  <2>2. Max(at) \in at
    <3> HIDE DEF at, n
    <3>1. QED
      BY <1>1, <1>5, <2>1, Maximum
  <2> DEFINE j == Max(at)
  <2>3. j \in 1..Len(l) /\ l[j] = r /\ j <= n
    BY <1>1, <2>2
  <2>4. SObjectsOf(l)[j] = r
    <3>1. r # Hole
      BY DmlAssumption
    <3>2. j <= Len(SObjectsOf(l))
      BY <2>3 DEF Slots
    <3> HIDE DEF j, l
    <3>3. QED
      BY <1>1, <2>3, <3>1, <3>2 DEF Paired
  <2>5. j \in 1..Len(Slots) /\ Slots[j] = r
    <3>1. Slots[j] = r
      BY <2>4 DEF Slots
    <3>2. Len(Slots) = n
      OBVIOUS
    <3> HIDE DEF j, l, n
    <3>3. QED
      BY <1>1, <2>3, <3>1, <3>2
  <2>6. WriteBack(Current)[r].id = Current.recs[j].id
    <3> HIDE DEF at
    <3>1. QED
      BY <1>2, <1>3, <1>5 DEF Fields
  <2> HIDE DEF j, at
  <2>7. QED
    BY <1>4, <1>5, <2>5, <2>6
<1>6. CASE ~(Current.op \in {"insert", "upsert"} /\ at # {})
  <2>1. WriteBack(Current)[r].id = objects[r].id
    <3> HIDE DEF at
    <3>1. QED
      BY <1>3, <1>6
  <2>2. ASSUME r \in BeforeHoles(l) PROVE at # {}
    <3>1. PICK i \in DOMAIN l : l[i] = r /\ \A h \in 1..i : l[h] # Hole
      BY <2>2 DEF BeforeHoles
    <3>2. i <= Len(SObjectsOf(l))
      <4> HIDE DEF l
      <4>1. QED
        BY <1>1, <3>1, SObjectsOfFront
    <3>3. i <= n
      BY <3>2 DEF Slots
    <3>4. QED
      BY <3>1, <3>3
  <2>3. QED
    BY <1>4, <1>6, <2>1, <2>2
<1>7. QED
  BY <1>5, <1>6

(* A call that gets to its AFTER triggers without having failed has come   *)
(* there from the engine.                                                  *)
LEMMA ArrivesDone ==
  ASSUME DmlInv, [DmlNext]_dmlVars, Arrives PROVE EngineDone
<1>1. calls # <<>> /\ Current \in DmlCall /\ Current.phase = "engine"
  BY CurrentFacts DEF Arrives, DmlInv
<1>2. ~Throw
  BY <1>1, ThrowFacts, CurrentFacts, LenProperties DEF Arrives, DmlInv
<1>3. ~EngineFailed
  <2>1. SUFFICES ASSUME EngineFailed PROVE FALSE
    OBVIOUS
  <2>2. Current.via = "Database" /\ Ends(TRUE)
    BY <1>2, <2>1 DEF EngineFailed
  <2> DEFINE c == [Current EXCEPT !.phase = "after", !.recs = <<>>,
                                  !.failed = TRUE]
  <2>3. <<>> \in Seq(Fields)
    BY EmptySeq
  <2>4. c \in DmlCall /\ c.failed = TRUE
    BY <1>1, <2>3 DEF DmlCall
  <2>5. Becomes(c)
    BY <2>2 DEF Ends
  <2>6. Last(calls') = c
    <3> HIDE DEF c
    <3>1. QED
      BY <1>1, <2>4, <2>5, BecomesFacts DEF Current, DmlInv
  <2>7. QED
    BY <2>2, <2>4, <2>6 DEF Arrives
<1>4. ~EngineTurn
  <2>1. SUFFICES ASSUME EngineTurn PROVE FALSE
    OBVIOUS
  <2> DEFINE c == [Current EXCEPT !.recs = NextRecs]
  <2>2. Becomes(c) /\ NextRecs \in Seq(Fields)
    BY <2>1, TurnRecs
  <2>3. c \in DmlCall /\ c.phase = "engine"
    BY <1>1, <2>2 DEF DmlCall
  <2>4. Last(calls') = c
    <3> HIDE DEF c
    <3>1. QED
      BY <1>1, <2>2, <2>3, BecomesFacts DEF Current, DmlInv
  <2>5. QED
    BY <2>3, <2>4 DEF Arrives
<1>5. ~UNCHANGED calls
  BY <1>1 DEF Arrives, Current
<1>6. QED
  BY <1>1, <1>3, <1>4, <1>5 DEF DmlNext, SetOwner, RunAs, Call, CodeRuns,
     HasTrigger, Refuse, Proceed, TriggerThrows, CallEngine, EndCall,
     NextTest, Goes, dmlVars, script

(* If lists are paired, the AFTER triggers of an insert or upsert that did *)
(* not fail see objects with the ids of their rows, whatever calls failed  *)
(* before and whatever the BEFORE triggers did                             *)
(* (interpreter.go:1889-1899, 2004-2014; builtins.go:586-620).             *)
THEOREM AfterAlwaysSeesItsRows ==
  ASSUME Paired PROVE DmlSpec => AfterSeesItsRows
<1>1. DmlInv /\ Served /\ [DmlNext]_dmlVars =>
        [Arrives /\ Current.op \in {"insert", "upsert"} =>
           \A r \in BeforeHoles(Current.list) :
             LET table == rows'[Obj(Current)]
             IN  /\ objects'[r].id \in DOMAIN table
                 /\ Current.op = "insert" =>
                      table[objects'[r].id]
                        = Column([ext |-> objects'[r].owner])]_dmlVars
  <2> SUFFICES ASSUME DmlInv, Served, [DmlNext]_dmlVars, Arrives,
                      Current.op \in {"insert", "upsert"},
                      NEW r \in BeforeHoles(Current.list)
               PROVE  LET table == rows'[Obj(Current)]
                      IN  /\ objects'[r].id \in DOMAIN table
                          /\ Current.op = "insert" =>
                               table[objects'[r].id]
                                 = Column([ext |-> objects'[r].owner])
    OBVIOUS
  <2>1. EngineDone
    BY ArrivesDone
  <2>2. /\ rows' = rows /\ objects' = WriteBack(Current)
        /\ call.op # "idle" /\ call.done = Len(Current.recs) /\ calls # <<>>
    BY <2>1 DEF EngineDone, Finish, db, Goes
  <2>3. /\ call.op = Current.op /\ call.obj = Obj(Current)
        /\ Len(Current.recs) = Len(Slots)
    BY <2>2 DEF Served
  <2>4. r \in Refs
    <3>1. Current.list \in Seq(Refs \cup {Hole})
      BY <2>2, CurrentFacts DEF DmlInv
    <3>2. PICK i \in DOMAIN Current.list :
            r = Current.list[i] /\ \A h \in 1..i : Current.list[h] # Hole
      BY DEF BeforeHoles
    <3>3. i \in 1..Len(Current.list) /\ i \in 1..i
      BY <3>1, LenProperties
    <3>4. QED
      BY <3>1, <3>2, <3>3, LenProperties
  <2>5. PICK j \in 1..Len(Slots) :
          /\ Slots[j] = r /\ objects'[r].id = Current.recs[j].id
          /\ objects'[r].owner = objects[r].owner
    BY <2>2, <2>3, <2>4, WriteBackFacts
  <2>6. j <= call.done
    BY <2>2, <2>3, SlotsFacts DEF DmlInv
  <2>7. /\ Current.recs[j].owner = objects'[r].owner
        /\ Current.recs[j].id \in DOMAIN rows[Obj(Current)]
        /\ Current.op = "insert" =>
             rows[Obj(Current)][Current.recs[j].id]
               = Column([ext |-> Current.recs[j].owner])
    BY <2>2, <2>3, <2>5, <2>6 DEF Served
  <2>8. QED
    BY <2>2, <2>5, <2>7
<1>2. QED
  BY <1>1, ServedInvariant, PTL DEF DmlSpec, AfterSeesItsRows
----------------------------------------------------------------------------
(* One object per id.  The ids of objects are generated ones, of a name    *)
(* under which some list with the object is inserted; while the engine is  *)
(* at work, a record whose object has no id yet has none either, or one    *)
(* that was generated on the way and that nothing else carries.            *)
Unique ==
  /\ OneObjectPerId
  /\ \A r \in Refs : objects[r].id # Absent =>
       \E s \in Homes(r) : \E n \in 1..counters[s] : objects[r].id = NewId(s, n)

FreshIds ==
  call.op # "idle" =>
    \A j \in 1..Len(Slots) :
      /\ objects[Slots[j]].id # Absent =>
           Current.recs[j].id = objects[Slots[j]].id
      /\ objects[Slots[j]].id = Absent /\ Current.recs[j].id # Absent =>
           /\ \E n \in 1..counters[call.obj] :
                Current.recs[j].id = NewId(call.obj, n)
           /\ \A q \in Refs : Type[q] = Type[Slots[j]] =>
                objects[q].id # Current.recs[j].id
           /\ \A k \in 1..Len(Slots) :
                k # j /\ Type[Slots[k]] = Type[Slots[j]] =>
                  Current.recs[k].id # Current.recs[j].id

LEMMA HomesType == \A r \in Refs : Homes(r) \subseteq SObjects
<1> SUFFICES ASSUME NEW r \in Refs, NEW l \in Lists PROVE Type[l[1]] \in SObjects
  BY DEF Homes
<1>1. QED
  BY DmlAssumption

LEMMA ObjIsHome ==
  ASSUME DmlTypeOK, calls # <<>>, NEW j \in 1..Len(Slots)
  PROVE  Slots[j] \in Refs /\ Obj(Current) \in Homes(Slots[j])
BY CurrentFacts, SlotsFacts DEF Homes, Obj

(* The next id to generate is carried by no object of the type.            *)
LEMMA NextIdIsFree ==
  ASSUME DmlTypeOK, NoClash, Unique, NEW r \in Refs, NEW q \in Refs,
         Type[r] = Type[q], NEW s \in Homes(r), objects[q].id # Absent
  PROVE  objects[q].id # NewId(s, counters[s] + 1)
<1>1. PICK t \in Homes(q) : \E n \in 1..counters[t] : objects[q].id = NewId(t, n)
  BY DEF Unique
<1>2. PICK n \in 1..counters[t] : objects[q].id = NewId(t, n)
  BY <1>1
<1>3. SUFFICES ASSUME NewId(t, n) = NewId(s, counters[s] + 1) PROVE FALSE
  BY <1>2
<1>4. Prefix[s] = Prefix[t] /\ n = counters[s] + 1
  BY <1>3 DEF NewId
<1>5. s = t
  BY <1>4 DEF NoClash
<1>6. counters[s] \in Nat
  BY HomesType, EngineAssumption DEF DmlTypeOK, TypeOK
<1>7. QED
  BY <1>2, <1>4, <1>5, <1>6

(* What a turn does to the ids of the records and to the counters. *)
Generating ==
  call.op \in {"insert", "upsert"} /\ Current.recs[call.done + 1].id = Absent

LEMMA TurnGenerates ==
  ASSUME DmlInv, EngineTurn
  PROVE  /\ \A j \in 1..Len(Current.recs) :
              NextRecs[j].id = IF j = call.done + 1 /\ Generating
                               THEN NewId(call.obj, counters[call.obj] + 1)
                               ELSE Current.recs[j].id
         /\ \A s \in SObjects : /\ counters[s] \in Nat /\ counters'[s] \in Nat
                                /\ counters[s] <= counters'[s]
         /\ Generating =>
              /\ counters'[call.obj] = counters[call.obj] + 1
              /\ NewId(call.obj, counters[call.obj] + 1) # Absent
<1> DEFINE i   == call.done + 1
           rec == Current.recs[i]
           x   == NewId(call.obj, counters[call.obj] + 1)
<1>1. /\ \A j \in 1..Len(Current.recs) : j # i => NextRecs[j] = Current.recs[j]
      /\ TypeOK'
  BY TurnRecs
<1>2. /\ call.op \in {"insert", "upsert"} => NextRecs[i].id = RowId(Row(rec))
      /\ call.op \notin {"insert", "upsert"} => NextRecs[i].id = rec.id
  BY TurnIds
<1>3. NextRecs[i].id = IF Generating THEN x ELSE rec.id
  BY <1>2 DEF RowId, Row, Generating
<1>4. Counts(Row(rec))
  BY TurnServes
<1>5. /\ \A s \in SObjects : counters[s] \in Nat /\ counters'[s] \in Nat
      /\ \A s \in SObjects : counters'[s] \in 0..MaxCounter
      /\ call.obj \in SObjects
  BY <1>1, EngineAssumption
  DEF EngineTurn, DmlInv, DmlTypeOK, TypeOK, CallOK
<1>6. \A s \in SObjects : counters[s] <= counters'[s]
  BY <1>4, <1>5 DEF Counts
<1>7. ASSUME Generating
      PROVE  counters'[call.obj] = counters[call.obj] + 1 /\ x # Absent
  <2>1. counters'[call.obj] = counters[call.obj] + 1
    BY <1>4, <1>7 DEF Counts, Generating, Row
  <2>2. counters[call.obj] + 1 \in 1..MaxCounter
    BY <1>5, <2>1, EngineAssumption
  <2>3. x \in Ids
    BY <1>5, <2>2 DEF Ids
  <2>4. QED
    BY <2>1, <2>3, EngineAssumption
<1> HIDE DEF i, rec, x
<1>8. ASSUME NEW j \in 1..Len(Current.recs)
      PROVE  NextRecs[j].id = IF j = i /\ Generating THEN x
                              ELSE Current.recs[j].id
  BY <1>1, <1>3 DEF rec
<1>9. QED
  BY <1>5, <1>6, <1>7, <1>8 DEF i, x

LEMMA FreshTurn ==
  ASSUME DmlInv, NoClash, Served, Unique, FreshIds, EngineTurn
  PROVE  FreshIds'
<1> DEFINE i == call.done + 1
           s == call.obj
           x == NewId(s, counters[s] + 1)
           id(j)  == Current.recs[j].id
           new(j) == NextRecs[j].id
           own(j) == objects[Slots[j]].id
<1>1. SUFFICES ASSUME call'.op # "idle" PROVE FreshIds'
  BY DEF FreshIds
<1>2. /\ call.op # "idle" /\ s = Obj(Current) /\ calls # <<>>
      /\ Len(Current.recs) = Len(Slots)
  BY TurnFacts DEF Served, EngineTurn
<1>3. /\ \A j \in 1..Len(Slots) :
           new(j) = IF j = i /\ Generating THEN x ELSE id(j)
      /\ \A t \in SObjects : /\ counters[t] \in Nat /\ counters'[t] \in Nat
                             /\ counters[t] <= counters'[t]
      /\ Generating => counters'[s] = counters[s] + 1 /\ x # Absent
      /\ s \in SObjects
  BY <1>2, TurnGenerates, CurrentFacts DEF DmlInv
<1>4. /\ call'.obj = s /\ Slots' = Slots /\ objects' = objects
      /\ Current'.recs = NextRecs
  BY <1>1, TurnServes, TurnTaken
<1>5. \A j \in 1..Len(Slots) : Slots[j] \in Refs /\ s \in Homes(Slots[j])
  BY <1>2, ObjIsHome DEF DmlInv
<1>6. i \in 1..Len(Slots) /\ (Generating => id(i) = Absent)
  BY <1>2, TurnFacts DEF Generating
<1>7. ASSUME NEW j \in 1..Len(Slots)
      PROVE  /\ own(j) # Absent => id(j) = own(j)
             /\ own(j) = Absent /\ id(j) # Absent =>
                  /\ \E n \in 1..counters[s] : id(j) = NewId(s, n)
                  /\ \A q \in Refs : Type[q] = Type[Slots[j]] =>
                       objects[q].id # id(j)
                  /\ \A k \in 1..Len(Slots) :
                       k # j /\ Type[Slots[k]] = Type[Slots[j]] => id(k) # id(j)
  BY <1>2 DEF FreshIds
<1>8. ASSUME NEW r \in Refs, NEW q \in Refs, Type[r] = Type[q],
             s \in Homes(r), Generating
      PROVE  objects[q].id # x
  BY <1>3, <1>8, NextIdIsFree DEF DmlInv
<1>9. ASSUME NEW j \in 1..Len(Slots), Generating,
             Type[Slots[j]] = Type[Slots[i]]
      PROVE  id(j) # x
  <2>1. CASE own(j) # Absent
    BY <1>5, <1>6, <1>7, <1>8, <1>9, <2>1
  <2>2. CASE own(j) = Absent /\ id(j) # Absent
    <3>1. PICK n \in 1..counters[s] : id(j) = NewId(s, n)
      BY <1>7, <2>2
    <3>2. n # counters[s] + 1
      BY <1>3
    <3>3. QED
      BY <3>1, <3>2 DEF NewId
  <2>3. CASE id(j) = Absent
    BY <1>3, <1>9, <2>3
  <2>4. QED
    BY <2>1, <2>2, <2>3
<1>10. Generating => own(i) = Absent
  BY <1>6, <1>7
<1> HIDE DEF i, x, s
<1>11. ASSUME NEW j \in 1..Len(Slots)
       PROVE  own(j) # Absent => new(j) = own(j)
  BY <1>3, <1>7, <1>10
<1>12. ASSUME NEW j \in 1..Len(Slots), own(j) = Absent, new(j) # Absent
       PROVE  \E n \in 1..counters'[s] : new(j) = NewId(s, n)
  <2>1. CASE j = i /\ Generating
    <3>1. counters[s] + 1 \in 1..counters'[s]
      BY <1>3, <2>1
    <3>2. new(j) = NewId(s, counters[s] + 1)
      BY <1>3, <2>1 DEF x
    <3>3. QED
      BY <3>1, <3>2
  <2>2. CASE ~(j = i /\ Generating)
    <3>1. new(j) = id(j)
      BY <1>3, <2>2
    <3>2. PICK n \in 1..counters[s] : id(j) = NewId(s, n)
      BY <1>7, <1>12, <3>1
    <3>3. n \in 1..counters'[s]
      BY <1>3
    <3>4. QED
      BY <3>1, <3>2, <3>3
  <2>3. QED
    BY <2>1, <2>2
<1>13. ASSUME NEW j \in 1..Len(Slots), own(j) = Absent, new(j) # Absent,
              NEW q \in Refs, Type[q] = Type[Slots[j]]
       PROVE  objects[q].id # new(j)
  <2>1. CASE j = i /\ Generating
    BY <1>3, <1>5, <1>8, <1>13, <2>1
  <2>2. CASE ~(j = i /\ Generating)
    BY <1>3, <1>7, <1>13, <2>2
  <2>3. QED
    BY <2>1, <2>2
<1>14. ASSUME NEW j \in 1..Len(Slots), own(j) = Absent, new(j) # Absent,
              NEW k \in 1..Len(Slots), k # j, Type[Slots[k]] = Type[Slots[j]]
       PROVE  new(k) # new(j)
  <2>1. CASE j = i /\ Generating
    BY <1>3, <1>9, <1>14, <2>1
  <2>2. CASE k = i /\ Generating
    BY <1>3, <1>9, <1>14, <2>2
  <2>3. CASE ~(j = i /\ Generating) /\ ~(k = i /\ Generating)
    BY <1>3, <1>7, <1>14, <2>3
  <2>4. QED
    BY <2>1, <2>2, <2>3
<1>15. QED
  BY <1>4, <1>11, <1>12, <1>13, <1>14 DEF FreshIds

LEMMA FreshStep ==
  ASSUME DmlInv, NoClash, Served, Unique, FreshIds, [DmlNext]_dmlVars
  PROVE  FreshIds'
<1>1. CASE CallEngine
  <2> DEFINE l == Current.list
  <2>1. /\ calls # <<>> /\ Slots' = Slots /\ Current'.recs = Copies(l)
        /\ objects' = objects
    BY <1>1, EngineCalled
  <2>2. l \in Seq(Refs \cup {Hole}) /\ Slots = SObjectsOf(l)
    BY <2>1, CurrentFacts DEF DmlInv, Slots
  <2>3. \A j \in 1..Len(Slots) : Copies(l)[j] = objects[Slots[j]]
    <3> HIDE DEF l
    <3>1. QED
      BY <2>2, CopiesFacts
  <2> HIDE DEF l
  <2>4. QED
    BY <2>1, <2>3 DEF FreshIds
<1>2. CASE EngineTurn
  BY <1>2, FreshTurn
<1>3. CASE call'.op = "idle"
  BY <1>3 DEF FreshIds
<1>4. CASE UNCHANGED dmlVars
  BY <1>4 DEF FreshIds, dmlVars, vars, db, script, Slots, Current
<1>5. QED
  BY <1>1, <1>2, <1>3, <1>4, OtherSteps

(* Writing back makes no two objects carry one id.                         *)
LEMMA UniqueDone ==
  ASSUME DmlInv, Paired, NoClash, Served, Unique, FreshIds, EngineDone
  PROVE  Unique'
<1> DEFINE id(r)  == objects[r].id
           new(r) == objects'[r].id
           s      == call.obj
<1>1. /\ call.op # "idle" /\ calls # <<>> /\ objects' = WriteBack(Current)
      /\ counters' = counters
  BY DEF EngineDone, Finish, db, Goes
<1>2. Len(Current.recs) = Len(Slots) /\ s = Obj(Current)
  BY <1>1 DEF Served
<1>3. ASSUME NEW r \in Refs, new(r) # id(r)
      PROVE  \E j \in 1..Len(Slots) : Slots[j] = r /\ new(r) = Current.recs[j].id
  BY <1>1, <1>2, <1>3, WriteBackFacts
<1>4. ASSUME NEW r \in Refs, new(r) # id(r), new(r) # Absent
      PROVE  \E j \in 1..Len(Slots) :
               /\ Slots[j] = r /\ new(r) = Current.recs[j].id
               /\ id(r) = Absent
               /\ s \in Homes(r)
               /\ \E n \in 1..counters[s] : new(r) = NewId(s, n)
               /\ \A q \in Refs : Type[q] = Type[r] => id(q) # new(r)
               /\ \A k \in 1..Len(Slots) : k # j /\ Type[Slots[k]] = Type[r] =>
                    Current.recs[k].id # new(r)
  <2>1. PICK j \in 1..Len(Slots) : Slots[j] = r /\ new(r) = Current.recs[j].id
    BY <1>3, <1>4
  <2>2. s \in Homes(r)
    BY <1>1, <1>2, <2>1, ObjIsHome DEF DmlInv
  <2>3. id(r) = Absent
    BY <1>1, <1>4, <2>1 DEF FreshIds
  <2> HIDE DEF new
  <2>4. /\ \E n \in 1..counters[s] : new(r) = NewId(s, n)
        /\ \A q \in Refs : Type[q] = Type[r] => id(q) # new(r)
        /\ \A k \in 1..Len(Slots) : k # j /\ Type[Slots[k]] = Type[r] =>
             Current.recs[k].id # new(r)
    BY <1>1, <1>4, <2>1, <2>3 DEF FreshIds
  <2>5. QED
    BY <2>1, <2>2, <2>3, <2>4
<1>5. ASSUME NEW r \in Refs, NEW q \in Refs, r # q, Type[r] = Type[q],
             new(r) # Absent
      PROVE  new(r) # new(q)
  <2>1. CASE new(r) = id(r) /\ new(q) = id(q)
    BY <1>5, <2>1 DEF Unique, OneObjectPerId
  <2>2. CASE new(r) # id(r) /\ new(q) = id(q)
    <3> HIDE DEF new, id
    <3>1. QED
      BY <1>4, <1>5, <2>2
  <2>3. CASE new(r) = id(r) /\ new(q) # id(q)
    <3> HIDE DEF new, id
    <3>1. QED
      BY <1>4, <1>5, <2>3
  <2>4. CASE new(r) # id(r) /\ new(q) # id(q)
    <3>1. PICK k \in 1..Len(Slots) : Slots[k] = q /\ new(q) = Current.recs[k].id
      BY <1>3, <2>4
    <3>2. PICK j \in 1..Len(Slots) :
            /\ Slots[j] = r
            /\ \A h \in 1..Len(Slots) : h # j /\ Type[Slots[h]] = Type[r] =>
                 Current.recs[h].id # new(r)
      <4> HIDE DEF new, id
      <4>1. QED
        BY <1>4, <1>5, <2>4
    <3>3. k # j
      BY <1>5, <3>1, <3>2
    <3>4. QED
      BY <1>5, <3>1, <3>2, <3>3
  <2>5. QED
    BY <2>1, <2>2, <2>3, <2>4
<1>6. ASSUME NEW r \in Refs, new(r) # Absent
      PROVE  \E t \in Homes(r) : \E n \in 1..counters[t] : new(r) = NewId(t, n)
  <2>1. CASE new(r) = id(r)
    BY <1>6, <2>1 DEF Unique
  <2>2. CASE new(r) # id(r)
    <3> HIDE DEF new, id
    <3>1. QED
      BY <1>4, <1>6, <2>2
  <2>3. QED
    BY <2>1, <2>2
<1>7. OneObjectPerId'
  BY <1>5 DEF OneObjectPerId
<1>8. QED
  BY <1>1, <1>6, <1>7 DEF Unique

(* Other steps change no object's id.                                      *)
LEMMA IdsStay ==
  ASSUME DmlInv, [DmlNext]_dmlVars
  PROVE  \/ EngineTurn \/ EngineDone \/ NextTest
         \/ /\ counters' = counters
            /\ \A r \in Refs : objects'[r].id = objects[r].id
<1>1. objects \in [Refs -> Fields]
  BY DEF DmlInv, DmlTypeOK
<1>2. CASE \E r \in Refs, u \in Data : SetOwner(r, u)
  <2>1. PICK r \in Refs, u \in Data : SetOwner(r, u)
    BY <1>2
  <2>2. \A q \in Refs : objects'[q].id = objects[q].id
    BY <1>1, <2>1 DEF SetOwner, Fields
  <2>3. QED
    BY <2>1, <2>2 DEF SetOwner, vars, db
<1>3. CASE Proceed
  <2>1. \A q \in Refs : WithOwner(objects[q]).id = objects[q].id
    BY <1>1 DEF WithOwner, Fields
  <2>2. QED
    BY <1>3, <2>1 DEF Proceed, vars, db
<1>4. CASE CallEngine
  BY <1>4, EngineCalled
<1>5. CASE UNCHANGED <<vars, objects>>
  BY <1>5 DEF vars, db
<1>6. QED
  BY <1>2, <1>3, <1>4, <1>5 DEF DmlNext, RunAs, Call, Refuse,
     TriggerThrows, EngineFailed, EndCall, dmlVars, script

LEMMA UniqueStep ==
  ASSUME DmlInv, Paired, NoClash, Served, Unique, FreshIds,
         [DmlNext]_dmlVars
  PROVE  Unique'
<1>1. CASE EngineTurn
  <2>1. /\ objects' = objects
        /\ \A s \in SObjects : /\ counters[s] \in Nat /\ counters'[s] \in Nat
                               /\ counters[s] <= counters'[s]
    BY <1>1, TurnGenerates, TurnTaken
  <2>2. ASSUME NEW r \in Refs, objects[r].id # Absent
        PROVE  \E s \in Homes(r) : \E n \in 1..counters'[s] :
                 objects[r].id = NewId(s, n)
    <3>1. PICK s \in Homes(r) : \E n \in 1..counters[s] : objects[r].id = NewId(s, n)
      BY <2>2 DEF Unique
    <3>2. PICK n \in 1..counters[s] : objects[r].id = NewId(s, n)
      BY <3>1
    <3>3. s \in SObjects
      BY HomesType
    <3>4. n \in 1..counters'[s]
      BY <2>1, <3>3
    <3>5. QED
      BY <3>2, <3>4
  <2>3. QED
    BY <2>1, <2>2 DEF Unique, OneObjectPerId
<1>2. CASE EngineDone
  BY <1>2, UniqueDone
<1>3. CASE NextTest
  BY <1>3 DEF NextTest, New, Unique, OneObjectPerId
<1>4. CASE /\ counters' = counters
           /\ \A r \in Refs : objects'[r].id = objects[r].id
  BY <1>4 DEF Unique, OneObjectPerId
<1>5. QED
  BY <1>1, <1>2, <1>3, <1>4, IdsStay

(* If lists are paired and names do not clash, two objects never carry the *)
(* id of one row, whatever calls fail on the way and however triggers nest *)
(* (interpreter.go:2041-2068, id.go:43-63).                                *)
THEOREM ObjectsHaveIdsOfTheirOwn ==
  ASSUME Paired, NoClash PROVE DmlSpec => []OneObjectPerId
<1> DEFINE I == DmlInv /\ Served /\ Unique /\ FreshIds
<1>1. DmlInit => Unique /\ FreshIds
  BY DEF DmlInit, Init, Idle, New, Unique, OneObjectPerId, FreshIds
<1>2. I /\ [DmlNext]_dmlVars => I'
  BY DmlStep, ServedStep, UniqueStep, FreshStep
<1>3. I => OneObjectPerId
  BY DEF Unique
<1>4. DmlSpec => []I
  <2>1. DmlInit => I
    BY <1>1, DmlStart DEF DmlInit, Init, Idle, Served
  <2>2. QED
    BY <1>2, <2>1, PTL DEF DmlSpec
<1>5. QED
  BY <1>3, <1>4, PTL
=============================================================================
