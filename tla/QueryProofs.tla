---------------------------- MODULE QueryProofs ----------------------------
(***************************************************************************)
(* That a query answers with the rows its condition means, whatever the     *)
(* conditions, the table and its rows; that the filter of sharing, the      *)
(* check of fields and the child subqueries do what they promise; and that  *)
(* a path of parents is followed to its end, whatever lookups a project     *)
(* adds, because a name of a relationship means one lookup.                 *)
(*                                                                          *)
(* The SQL text of a condition is a sequence of tokens that SQLite reads    *)
(* by its own precedence.  A text is balanced when its parentheses are;     *)
(* texts joined by an operator that is not outside parentheses in the last  *)
(* of them are split where they were joined (JoinedByOr, JoinedByAnd), so   *)
(* the truth of a condition's text is made of those of its parts            *)
(* (TextsNest), and by induction over the height of the condition it is     *)
(* what the condition means (ConditionsSayWhatTheyMean).                    *)
(***************************************************************************)
EXTENDS Soql, Relations, ListFacts, FunctionTheorems, FiniteSetTheorems
-----------------------------------------------------------------------------
(* One hop of Hops, named. *)
Hop(before, name) ==
  LET found == ResolveParent(before.at, name, before.met)
  IN IF before.at = Blank \/ found = {} THEN [before EXCEPT !.at = Blank]
     ELSE LET l == CHOOSE l \in found : TRUE
          IN [at |-> l.ref, met |-> before.met \cup {l.ref}, joins |-> Append(before.joins, l)]
Start(o, among) == [at |-> o, met |-> among \cup {o}, joins |-> <<>>]

(* A query's path has at most two names, so that its hops can be written down. *)
LEMMA HopsOfPath ==
  ASSUME NEW o, NEW among, NEW p, NEW S, p \in Seq(S), Len(p) \in 0..2
  PROVE  /\ Len(p) = 0 => Hops(o, p, among) = Start(o, among)
         /\ Len(p) = 1 => Hops(o, p, among) = Hop(Start(o, among), p[1])
         /\ Len(p) = 2 => Hops(o, p, among) = Hop(Hop(Start(o, among), p[1]), p[2])
<1> DEFINE F(h) == [k \in 0..Len(p) |-> IF k = 0 THEN Start(o, among) ELSE Hop(h[k - 1], p[k])]
           hops == CHOOSE h : h = F(h)
           a == Start(o, among)
           b == Hop(a, p[1])
           c == Hop(b, p[2])
           table == [k \in 0..Len(p) |-> IF k = 0 THEN a ELSE IF k = 1 THEN b ELSE c]
<1>1. Hops(o, p, among) = hops[Len(p)]
  BY DEF Hops, Hop, Start
<1>2. table = F(table)
  <2>1. ASSUME NEW k \in 0..Len(p) PROVE table[k] = F(table)[k]
    <3>1. k \in {0, 1, 2}
      <4>1. PICK n \in {0, 1, 2} : n = Len(p)
        OBVIOUS
      <4>2. k \in 0..n
        BY <4>1
      <4> QED
        BY <4>2
    <3> HIDE DEF a, b, c
    <3>2. CASE k = 0
      BY <3>2 DEF a
    <3>3. CASE k = 1
      <4>1. 0 \in 0..Len(p) /\ table[0] = a /\ table[1] = b
        BY <3>3
      <4>2. F(table)[1] = Hop(table[1 - 1], p[1])
        BY <3>3
      <4> QED
        BY <3>3, <4>1, <4>2 DEF b
    <3>4. CASE k = 2
      <4>1. 1 \in 0..Len(p) /\ table[1] = b /\ table[2] = c
        BY <3>4
      <4>2. F(table)[2] = Hop(table[2 - 1], p[2])
        BY <3>4
      <4> QED
        BY <3>4, <4>1, <4>2 DEF c
    <3> QED
      BY <3>1, <3>2, <3>3, <3>4
  <2> HIDE DEF a, b, c
  <2>2. QED
    BY <2>1
<1> HIDE DEF a, b, c
<1>3. hops = F(hops)
  <2> HIDE DEF F, table
  <2> QED
    BY <1>2
<1>4. hops[0] = a /\ \A k \in 1..Len(p) : hops[k] = Hop(hops[k - 1], p[k])
  <2>1. 0 \in 0..Len(p) /\ \A k \in 1..Len(p) : k \in 0..Len(p) /\ k # 0
    OBVIOUS
  <2> HIDE DEF hops
  <2> QED
    BY <1>3, <2>1 DEF a
<1> HIDE DEF hops, F
<1>5. CASE Len(p) = 0
  BY <1>1, <1>4, <1>5 DEF a
<1>6. CASE Len(p) = 1
  BY <1>1, <1>4, <1>6 DEF a
<1>7. CASE Len(p) = 2
  <2>1. 1 \in 1..Len(p) /\ 2 \in 1..Len(p) /\ 1 - 1 = 0 /\ 2 - 1 = 1
    BY <1>7
  <2>2. hops[1] = Hop(hops[1 - 1], p[1]) /\ hops[2] = Hop(hops[2 - 1], p[2])
    BY <1>4, <2>1
  <2> QED
    BY <1>1, <1>4, <1>7, <2>1, <2>2 DEF a
<1> QED
  BY <1>5, <1>6, <1>7

(* A hop ends the path where no lookup resolves its name, and else follows one that does. *)
LEMMA HopFacts ==
  ASSUME NEW at, NEW met, NEW joined, NEW name
  PROVE  LET before == [at |-> at, met |-> met, joins |-> joined]
         IN \/ /\ at = Blank \/ ResolveParent(at, name, met) = {}
               /\ Hop(before, name) = [at |-> Blank, met |-> met, joins |-> joined]
            \/ /\ at # Blank
               /\ \E l \in ResolveParent(at, name, met) :
                    Hop(before, name) = [at |-> l.ref, met |-> met \cup {l.ref}, joins |-> Append(joined, l)]
BY DEF Hop

(* What a query's path leads to, of the lookups of its objects. *)
LEMMA PathFacts ==
  ASSUME NEW o, NEW p \in Paths(o)
  PROVE  \/ p = <<>>
         \/ \E n \in Named(o) : p = <<n>>
         \/ \E n \in Named(o) : \E x \in Beyond(o, n) : \E m \in Named(x) : p = <<n, m>>
BY DEF Paths

(* The lookups of an object, and those a name of a parent resolves to. *)
LEMMA LookupFacts ==
  ASSUME NEW o, NEW name, NEW among
  PROVE  /\ \A l \in Lookups(o) : l.object = o
         /\ \A l \in ResolveParent(o, name, among) :
              l \in Lookups(o) /\ o \in among /\ l.ref # Blank /\ ParentName(l) = name
         /\ o \in among =>
              \A l \in Lookups(o) : l.ref # Blank /\ ParentName(l) = name => l \in ResolveParent(o, name, among)
<1>1. PICK st : st = Standard(o)
  OBVIOUS
<1>2. Lookups(o) \subseteq
        {l \in project : l.object = o} \cup {Lookup(o, f, "Id", st[f], Blank) : f \in DOMAIN st}
  BY <1>1 DEF Lookups
<1>3. \A l \in Lookups(o) : l.object = o
  BY <1>2 DEF Lookup
<1>4. ResolveParent(o, name, among) =
        {l \in (IF o \in among THEN Lookups(o) ELSE {}) : l.ref # Blank /\ ParentName(l) = name}
  BY DEF ResolveParent
<1> QED
  BY <1>3, <1>4

(* Short sequences, put together. *)
LEMMA Tuples ==
  ASSUME NEW S, NEW a \in S, NEW b \in S, NEW c \in S
  PROVE  /\ <<a>> \o <<>> = <<a>>
         /\ <<a>> \o <<b>> = <<a, b>>
         /\ <<a>> \o <<b, c>> = <<a, b, c>>
         /\ Append(<<>>, a) = <<a>>
         /\ Append(<<a>>, b) = <<a, b>>
<1>1. <<a>> \in Seq(S) /\ <<b>> \in Seq(S) /\ <<b, c>> \in Seq(S)
      /\ <<a, b>> \in Seq(S) /\ <<a, b, c>> \in Seq(S)
  OBVIOUS
<1>2. ASSUME NEW s \in Seq(S), NEW t \in Seq(S), Len(s) = Len(t), \A i \in 1..Len(s) : s[i] = t[i]
      PROVE  s = t
  BY <1>2, SeqEqual
<1>3. <<a>> \o <<>> = <<a>> /\ Append(<<>>, a) = <<a>>
  OBVIOUS
<1>4. <<a>> \o <<b>> = <<a, b>>
  <2>1. PICK s : s = <<a>> \o <<b>>
    OBVIOUS
  <2>2. PICK t : t = <<a, b>>
    OBVIOUS
  <2>3. s \in Seq(S) /\ Len(s) = 2 /\ s[1] = a /\ s[2] = b
    BY <1>1, <2>1, ConcatProperties
  <2>4. t \in Seq(S) /\ Len(t) = 2 /\ t[1] = a /\ t[2] = b
    BY <2>2
  <2>5. \A i \in 1..2 : i = 1 \/ i = 2
    OBVIOUS
  <2>6. \A i \in 1..Len(s) : s[i] = t[i]
    BY <2>3, <2>4, <2>5
  <2>7. s = t
    BY <1>2, <2>3, <2>4, <2>6
  <2> QED
    BY <2>1, <2>2, <2>7
<1>5. <<a>> \o <<b, c>> = <<a, b, c>>
  <2>1. PICK s : s = <<a>> \o <<b, c>>
    OBVIOUS
  <2>2. PICK t : t = <<a, b, c>>
    OBVIOUS
  <2>3. s \in Seq(S) /\ Len(s) = 3 /\ s[1] = a /\ s[2] = b /\ s[3] = c
    BY <1>1, <2>1, ConcatProperties
  <2>4. t \in Seq(S) /\ Len(t) = 3 /\ t[1] = a /\ t[2] = b /\ t[3] = c
    BY <2>2
  <2>5. \A i \in 1..3 : i = 1 \/ i = 2 \/ i = 3
    OBVIOUS
  <2>6. \A i \in 1..Len(s) : s[i] = t[i]
    BY <2>3, <2>4, <2>5
  <2>7. s = t
    BY <1>2, <2>3, <2>4, <2>6
  <2> QED
    BY <2>1, <2>2, <2>7
<1>6. Append(<<a>>, b) = <<a, b>>
  <2>1. PICK s : s = Append(<<a>>, b)
    OBVIOUS
  <2>2. PICK t : t = <<a, b>>
    OBVIOUS
  <2>3. s \in Seq(S) /\ Len(s) = 2 /\ s[1] = a /\ s[2] = b
    BY <1>1, <2>1, AppendProperties
  <2>4. t \in Seq(S) /\ Len(t) = 2 /\ t[1] = a /\ t[2] = b
    BY <2>2
  <2>5. \A i \in 1..2 : i = 1 \/ i = 2
    OBVIOUS
  <2>6. \A i \in 1..Len(s) : s[i] = t[i]
    BY <2>3, <2>4, <2>5
  <2>7. s = t
    BY <1>2, <2>3, <2>4, <2>6
  <2> QED
    BY <2>1, <2>2, <2>7
<1> QED
  BY <1>3, <1>4, <1>5, <1>6

Followed(q, joined, met) ==
  /\ \A k \in DOMAIN joined :
       /\ joined[k].object = (IF k = 1 THEN q[1] ELSE joined[k - 1].ref)
       /\ ParentName(joined[k]) = q[k + 1]
       /\ joined[k].ref \in met
  /\ Len(joined) < Len(q) - 1 =>
       LET at == IF joined = <<>> THEN q[1] ELSE Last(joined).ref
       IN \E l \in Lookups(at) : ParentName(l) = q[Len(joined) + 2] /\ l.ref = Blank

Unambiguous(met) ==
  \A x \in met : \A name \in Named(x) : \A l, m \in ResolveParent(x, name, met) : l = m

(* A lookup from o by the name n, and one to no object. *)
Leads(l, o, n, met) == l.object = o /\ ParentName(l) = n /\ l.ref \in met
EndsAt(o, n) == \E l \in Lookups(o) : ParentName(l) = n /\ l.ref = Blank

(* The five ways a path may be followed. *)
LEMMA WaysToFollow ==
  ASSUME NEW o, NEW n, NEW m, NEW l, NEW j, NEW met
  PROVE  /\ Followed(<<o>>, <<>>, met)
         /\ EndsAt(o, n) => Followed(<<o, n>>, <<>>, met)
         /\ Leads(l, o, n, met) => Followed(<<o, n>>, <<l>>, met)
         /\ Leads(l, o, n, met) /\ EndsAt(l.ref, m) => Followed(<<o, n, m>>, <<l>>, met)
         /\ Leads(l, o, n, met) /\ Leads(j, l.ref, m, met) => Followed(<<o, n, m>>, <<l, j>>, met)
<1> DEFINE S == {o, n, m}
           L == {l, j}
<1>1. /\ Len(<<o>>) = 1 /\ <<o>>[1] = o
      /\ Len(<<o, n>>) = 2 /\ <<o, n>>[1] = o /\ <<o, n>>[2] = n
      /\ Len(<<o, n, m>>) = 3 /\ <<o, n, m>>[1] = o /\ <<o, n, m>>[2] = n /\ <<o, n, m>>[3] = m
  OBVIOUS
<1>2. /\ Len(<<>>) = 0 /\ DOMAIN <<>> = {}
      /\ Len(<<l>>) = 1 /\ <<l>>[1] = l /\ DOMAIN <<l>> = {1} /\ <<l>> # <<>> /\ Last(<<l>>) = l
      /\ Len(<<l, j>>) = 2 /\ <<l, j>>[1] = l /\ <<l, j>>[2] = j /\ DOMAIN <<l, j>> = {1, 2}
  BY DEF Last
<1>3. Followed(<<o>>, <<>>, met)
  BY <1>1, <1>2 DEF Followed
<1>4. ASSUME EndsAt(o, n) PROVE Followed(<<o, n>>, <<>>, met)
  BY <1>1, <1>2, <1>4 DEF Followed, EndsAt
<1>5. ASSUME Leads(l, o, n, met) PROVE Followed(<<o, n>>, <<l>>, met)
  BY <1>1, <1>2, <1>5 DEF Followed, Leads
<1>6. ASSUME Leads(l, o, n, met), EndsAt(l.ref, m) PROVE Followed(<<o, n, m>>, <<l>>, met)
  BY <1>1, <1>2, <1>6 DEF Followed, Leads, EndsAt
<1>7. ASSUME Leads(l, o, n, met), Leads(j, l.ref, m, met) PROVE Followed(<<o, n, m>>, <<l, j>>, met)
  BY <1>1, <1>2, <1>7 DEF Followed, Leads
<1> QED
  BY <1>3, <1>4, <1>5, <1>6, <1>7

(* A name of an object that resolves leads on, and one that does not leads to no object. *)
LEMMA NameLeads ==
  ASSUME NEW o, NEW n \in Named(o), NEW among, o \in among, NEW met
  PROVE  /\ ResolveParent(o, n, among) = {} => EndsAt(o, n)
         /\ \A l \in ResolveParent(o, n, among) : l.ref \in met => Leads(l, o, n, met)
<1>1. PICK k \in Lookups(o) : ParentName(k) = n
  BY DEF Named
<1>2. ResolveParent(o, n, among) = {} => k.ref = Blank
  BY <1>1, LookupFacts
<1> QED
  BY <1>1, <1>2, LookupFacts DEF EndsAt, Leads

(* A path whose every hop is a lookup is followed along those lookups. *)
LEMMA PathIsFollowed ==
  ASSUME NEW o, o # Blank, NEW p \in Paths(o), NEW among, NEW met,
         Hops(o, p, among).met \subseteq met, Unambiguous(met)
  PROVE  Followed(<<o>> \o p, Hops(o, p, among).joins, met)
<1> DEFINE known == among \cup {o}
<1>0. Start(o, among) = [at |-> o, met |-> known, joins |-> <<>>] /\ o \in known
  BY DEF Start
<1> HIDE DEF known
<1>4. ASSUME NEW n, ResolveParent(o, n, known) # {}
      PROVE  \E l \in ResolveParent(o, n, known) :
               Hop(Start(o, among), n) = [at |-> l.ref, met |-> known \cup {l.ref}, joins |-> Append(<<>>, l)]
  <2>1. PICK joined : joined = <<>>
    OBVIOUS
  <2>2. \E l \in ResolveParent(o, n, known) :
          Hop([at |-> o, met |-> known, joins |-> joined], n)
            = [at |-> l.ref, met |-> known \cup {l.ref}, joins |-> Append(joined, l)]
    BY <1>4 DEF Hop
  <2> QED
    BY <1>0, <2>1, <2>2
<1>1. CASE p = <<>>
  <2>1. p \in Seq({o}) /\ Len(p) = 0 /\ Len(p) \in 0..2
    BY <1>1
  <2>2. Hops(o, p, among) = Start(o, among)
    BY <2>1, HopsOfPath
  <2>3. <<o>> \o p = <<o>>
    BY <1>1, Tuples
  <2>4. Hops(o, p, among).joins = <<>>
    BY <1>0, <2>2
  <2>5. Followed(<<o>>, <<>>, met)
    BY WaysToFollow
  <2> QED
    BY <2>3, <2>4, <2>5
<1>2. ASSUME NEW n \in Named(o), p = <<n>>
      PROVE  Followed(<<o>> \o p, Hops(o, p, among).joins, met)
  <2>1. p \in Seq({n}) /\ Len(p) = 1 /\ p[1] = n /\ Len(p) \in 0..2
    BY <1>2
  <2>2. Hops(o, p, among) = Hop(Start(o, among), n)
    BY <2>1, HopsOfPath
  <2>3. <<o>> \o p = <<o, n>>
    <3>1. o \in {o, n} /\ n \in {o, n}
      OBVIOUS
    <3> QED
      BY <1>2, <3>1, Tuples
  <2>4. CASE ResolveParent(o, n, known) = {}
    <3>1. PICK joined : joined = <<>>
      OBVIOUS
    <3>2. Hop([at |-> o, met |-> known, joins |-> joined], n) = [at |-> Blank, met |-> known, joins |-> joined]
      BY <2>4, HopFacts
    <3>3. Hops(o, p, among).joins = joined
      BY <1>0, <2>2, <3>1, <3>2
    <3>4. EndsAt(o, n)
      BY <1>0, <2>4, NameLeads
    <3>5. Followed(<<o, n>>, <<>>, met)
      BY <3>4, WaysToFollow
    <3> QED
      BY <2>3, <3>1, <3>3, <3>5
  <2>5. CASE ResolveParent(o, n, known) # {}
    <3>1. PICK l \in ResolveParent(o, n, known) :
            Hop(Start(o, among), n) = [at |-> l.ref, met |-> known \cup {l.ref}, joins |-> Append(<<>>, l)]
      BY <1>4, <2>5
    <3>2. Append(<<>>, l) = <<l>>
      BY l \in {l}, Tuples
    <3>3. Hops(o, p, among).joins = <<l>> /\ l.ref \in Hops(o, p, among).met
      BY <2>2, <3>1, <3>2
    <3>4. Leads(l, o, n, met)
      BY <1>0, <3>3, NameLeads
    <3>5. Followed(<<o, n>>, <<l>>, met)
      BY <3>4, WaysToFollow
    <3> QED
      BY <2>3, <3>3, <3>5
  <2> QED
    BY <2>4, <2>5
<1>3. ASSUME NEW n \in Named(o), NEW x \in Beyond(o, n), NEW m \in Named(x), p = <<n, m>>
      PROVE  Followed(<<o>> \o p, Hops(o, p, among).joins, met)
  <2>1. p \in Seq({n, m}) /\ Len(p) = 2 /\ p[1] = n /\ p[2] = m /\ Len(p) \in 0..2
    BY <1>3
  <2>2. Hops(o, p, among) = Hop(Hop(Start(o, among), n), m)
    BY <2>1, HopsOfPath
  <2>3. <<o>> \o p = <<o, n, m>>
    <3>1. o \in {o, n, m} /\ n \in {o, n, m} /\ m \in {o, n, m}
      OBVIOUS
    <3> QED
      BY <1>3, <3>1, Tuples
  <2>4. PICK k \in Lookups(o) : k.ref = x /\ x # Blank /\ ParentName(k) = n
    BY DEF Beyond
  <2>5. k \in ResolveParent(o, n, known)
    BY <1>0, <2>4, LookupFacts
  <2>6. PICK l \in ResolveParent(o, n, known) :
          Hop(Start(o, among), n) = [at |-> l.ref, met |-> known \cup {l.ref}, joins |-> Append(<<>>, l)]
    BY <1>4, <2>5
  <2>7. Append(<<>>, l) = <<l>>
    BY l \in {l}, Tuples
  <2>8. PICK further : further = known \cup {l.ref}
    OBVIOUS
  <2>9. l.ref # Blank /\ l.ref \in further /\ o \in further
    BY <1>0, <2>8, LookupFacts
  <2>10. \/ /\ ResolveParent(l.ref, m, further) = {}
            /\ Hops(o, p, among) = [at |-> Blank, met |-> further, joins |-> <<l>>]
         \/ \E j \in ResolveParent(l.ref, m, further) :
              Hops(o, p, among) = [at |-> j.ref, met |-> further \cup {j.ref}, joins |-> Append(<<l>>, j)]
    <3>1. Hops(o, p, among) = Hop([at |-> l.ref, met |-> further, joins |-> <<l>>], m)
      BY <2>2, <2>6, <2>7, <2>8
    <3>2. PICK joined : joined = <<l>>
      OBVIOUS
    <3>3. PICK to : to = l.ref
      OBVIOUS
    <3>4. \/ /\ ResolveParent(to, m, further) = {}
             /\ Hop([at |-> to, met |-> further, joins |-> joined], m)
                 = [at |-> Blank, met |-> further, joins |-> joined]
          \/ \E j \in ResolveParent(to, m, further) :
               Hop([at |-> to, met |-> further, joins |-> joined], m)
                 = [at |-> j.ref, met |-> further \cup {j.ref}, joins |-> Append(joined, j)]
      BY <2>9, <3>3 DEF Hop
    <3> QED
      BY <3>1, <3>2, <3>3, <3>4
  <2>11. further \subseteq met
    BY <2>10
  <2>12. l.ref = x
    <3>1. o \in met
      BY <2>9, <2>11
    <3>2. l \in ResolveParent(o, n, met) /\ k \in ResolveParent(o, n, met)
      BY <2>4, <3>1, LookupFacts
    <3> QED
      BY <2>4, <3>1, <3>2 DEF Unambiguous
  <2>13. Leads(l, o, n, met)
    BY <1>0, <2>9, <2>11, NameLeads
  <2>14. CASE ResolveParent(l.ref, m, further) = {} /\ Hops(o, p, among).joins = <<l>>
    <3>1. EndsAt(l.ref, m)
      BY <2>9, <2>12, <2>14, NameLeads
    <3> QED
      BY <2>3, <2>13, <2>14, <3>1, WaysToFollow
  <2>15. ASSUME NEW j \in ResolveParent(l.ref, m, further),
                Hops(o, p, among) = [at |-> j.ref, met |-> further \cup {j.ref}, joins |-> Append(<<l>>, j)]
         PROVE  Followed(<<o>> \o p, Hops(o, p, among).joins, met)
    <3>1. Append(<<l>>, j) = <<l, j>>
      BY l \in {l, j}, j \in {l, j}, Tuples
    <3>2. j.ref \in met
      BY <2>15
    <3>3. Leads(j, l.ref, m, met)
      BY <2>9, <2>12, <3>2, NameLeads
    <3>4. Followed(<<o, n, m>>, <<l, j>>, met)
      BY <2>13, <3>3, WaysToFollow
    <3>5. Hops(o, p, among).joins = <<l, j>>
      BY <2>15, <3>1
    <3> QED
      BY <2>3, <3>4, <3>5
  <2> QED
    BY <2>10, <2>14, <2>15
<1> QED
  BY <1>1, <1>2, <1>3, PathFacts

(* The object whose lookups give a child name, but for DirectReports, which two objects do. *)
Home ==
  [ChildAccounts |-> "Account", MergedAccounts |-> "Account", Contacts |-> "Contact",
   MergedContacts |-> "Contact", ConvertedLeads |-> "Lead", MergedLeads |-> "Lead",
   Opportunities |-> "Opportunity", OpportunityLineItems |-> "OpportunityLineItem",
   Cases |-> "Case", ChildCases |-> "Case", MergedCases |-> "Case", Tasks |-> "Task",
   Events |-> "Event", Users |-> "User", ChildRoles |-> "UserRole",
   ChildCampaigns |-> "Campaign", CampaignMembers |-> "CampaignMember",
   Contracts |-> "Contract", Orders |-> "Order", ChildOrders |-> "Order",
   OrderItems |-> "OrderItem", ChildOrderItems |-> "OrderItem",
   PricebookEntries |-> "PricebookEntry", Assets |-> "Asset", ChildAssets |-> "Asset",
   DescendantAssets |-> "Asset", ContentVersions |-> "ContentVersion",
   Attachments |-> "Attachment", Notes |-> "Note", Feeds |-> "FeedItem",
   EmailMessages |-> "EmailMessage", Replies |-> "EmailMessage",
   OpportunityContactRoles |-> "OpportunityContactRole",
   AccountContactRelations |-> "AccountContactRelation"]

(* What is to be known of the child names of an object: they are of lookups it has, tell who    *)
(* it is, and apart its lookups to one object.                                                  *)
Fits(c, names, refs) ==
  \A f \in DOMAIN names :
    /\ f \in DOMAIN refs
    /\ IF names[f] = "DirectReports" THEN refs[f] = c ELSE Home[names[f]] = c
    /\ \A g \in DOMAIN names : names[f] = names[g] /\ refs[f] = refs[g] => f = g

(* The tables of child names and of lookups, object by object. *)
LEMMA ChildNamesFit ==
  \A c \in DOMAIN childRelationshipNames :
    c \in DOMAIN StandardObjects /\ Fits(c, childRelationshipNames[c], StandardObjects[c])
<1> USE DEF Fits, Home
<1>1. Fits("Account", accountChildren, accountSchema)
  BY DEF accountChildren, accountSchema
<1>2. Fits("Contact", contactChildren, contactSchema)
  BY DEF contactChildren, contactSchema
<1>3. Fits("Lead", leadChildren, leadSchema)
  BY DEF leadChildren, leadSchema
<1>4. Fits("Opportunity", opportunityChildren, opportunitySchema)
  BY DEF opportunityChildren, opportunitySchema
<1>5. Fits("OpportunityLineItem", opportunityLineItemChildren, opportunityLineItemSchema)
  BY DEF opportunityLineItemChildren, opportunityLineItemSchema
<1>6. Fits("Case", caseChildren, caseSchema)
  BY DEF caseChildren, caseSchema
<1>7. Fits("Task", taskChildren, taskSchema)
  BY DEF taskChildren, taskSchema
<1>8. Fits("Event", eventChildren, eventSchema)
  BY DEF eventChildren, eventSchema
<1>9. Fits("User", userChildren, userSchema)
  BY DEF userChildren, userSchema
<1>10. Fits("UserRole", userRoleChildren, userRoleSchema)
  BY DEF userRoleChildren, userRoleSchema
<1>11. Fits("Campaign", campaignChildren, campaignSchema)
  BY DEF campaignChildren, campaignSchema
<1>12. Fits("CampaignMember", campaignMemberChildren, campaignMemberSchema)
  BY DEF campaignMemberChildren, campaignMemberSchema
<1>13. Fits("Contract", contractChildren, contractSchema)
  BY DEF contractChildren, contractSchema
<1>14. Fits("Order", orderChildren, orderSchema)
  BY DEF orderChildren, orderSchema
<1>15. Fits("OrderItem", orderItemChildren, orderItemSchema)
  BY DEF orderItemChildren, orderItemSchema
<1>16. Fits("PricebookEntry", pricebookEntryChildren, pricebookEntrySchema)
  BY DEF pricebookEntryChildren, pricebookEntrySchema
<1>17. Fits("Asset", assetChildren, assetSchema)
  BY DEF assetChildren, assetSchema
<1>18. Fits("ContentVersion", contentVersionChildren, contentVersionSchema)
  BY DEF contentVersionChildren, contentVersionSchema
<1>19. Fits("Attachment", attachmentChildren, attachmentSchema)
  BY DEF attachmentChildren, attachmentSchema
<1>20. Fits("Note", noteChildren, noteSchema)
  BY DEF noteChildren, noteSchema
<1>21. Fits("FeedItem", feedItemChildren, feedItemSchema)
  BY DEF feedItemChildren, feedItemSchema
<1>22. Fits("EmailMessage", emailMessageChildren, emailMessageSchema)
  BY DEF emailMessageChildren, emailMessageSchema
<1>23. Fits("OpportunityContactRole", opportunityContactRoleChildren, opportunityContactRoleSchema)
  BY DEF opportunityContactRoleChildren, opportunityContactRoleSchema
<1>24. Fits("AccountContactRelation", accountContactRelationChildren, accountContactRelationSchema)
  BY DEF accountContactRelationChildren, accountContactRelationSchema
<1> HIDE DEF Fits, Home
<1>25. childRelationshipNames["Account"] = accountChildren /\ StandardObjects["Account"] = accountSchema
  BY DEF childRelationshipNames, StandardObjects
<1>26. childRelationshipNames["Contact"] = contactChildren /\ StandardObjects["Contact"] = contactSchema
  BY DEF childRelationshipNames, StandardObjects
<1>27. childRelationshipNames["Lead"] = leadChildren /\ StandardObjects["Lead"] = leadSchema
  BY DEF childRelationshipNames, StandardObjects
<1>28. childRelationshipNames["Opportunity"] = opportunityChildren /\ StandardObjects["Opportunity"] = opportunitySchema
  BY DEF childRelationshipNames, StandardObjects
<1>29. childRelationshipNames["OpportunityLineItem"] = opportunityLineItemChildren /\ StandardObjects["OpportunityLineItem"] = opportunityLineItemSchema
  BY DEF childRelationshipNames, StandardObjects
<1>30. childRelationshipNames["Case"] = caseChildren /\ StandardObjects["Case"] = caseSchema
  BY DEF childRelationshipNames, StandardObjects
<1>31. childRelationshipNames["Task"] = taskChildren /\ StandardObjects["Task"] = taskSchema
  BY DEF childRelationshipNames, StandardObjects
<1>32. childRelationshipNames["Event"] = eventChildren /\ StandardObjects["Event"] = eventSchema
  BY DEF childRelationshipNames, StandardObjects
<1>33. childRelationshipNames["User"] = userChildren /\ StandardObjects["User"] = userSchema
  BY DEF childRelationshipNames, StandardObjects
<1>34. childRelationshipNames["UserRole"] = userRoleChildren /\ StandardObjects["UserRole"] = userRoleSchema
  BY DEF childRelationshipNames, StandardObjects
<1>35. childRelationshipNames["Campaign"] = campaignChildren /\ StandardObjects["Campaign"] = campaignSchema
  BY DEF childRelationshipNames, StandardObjects
<1>36. childRelationshipNames["CampaignMember"] = campaignMemberChildren /\ StandardObjects["CampaignMember"] = campaignMemberSchema
  BY DEF childRelationshipNames, StandardObjects
<1>37. childRelationshipNames["Contract"] = contractChildren /\ StandardObjects["Contract"] = contractSchema
  BY DEF childRelationshipNames, StandardObjects
<1>38. childRelationshipNames["Order"] = orderChildren /\ StandardObjects["Order"] = orderSchema
  BY DEF childRelationshipNames, StandardObjects
<1>39. childRelationshipNames["OrderItem"] = orderItemChildren /\ StandardObjects["OrderItem"] = orderItemSchema
  BY DEF childRelationshipNames, StandardObjects
<1>40. childRelationshipNames["PricebookEntry"] = pricebookEntryChildren /\ StandardObjects["PricebookEntry"] = pricebookEntrySchema
  BY DEF childRelationshipNames, StandardObjects
<1>41. childRelationshipNames["Asset"] = assetChildren /\ StandardObjects["Asset"] = assetSchema
  BY DEF childRelationshipNames, StandardObjects
<1>42. childRelationshipNames["ContentVersion"] = contentVersionChildren /\ StandardObjects["ContentVersion"] = contentVersionSchema
  BY DEF childRelationshipNames, StandardObjects
<1>43. childRelationshipNames["Attachment"] = attachmentChildren /\ StandardObjects["Attachment"] = attachmentSchema
  BY DEF childRelationshipNames, StandardObjects
<1>44. childRelationshipNames["Note"] = noteChildren /\ StandardObjects["Note"] = noteSchema
  BY DEF childRelationshipNames, StandardObjects
<1>45. childRelationshipNames["FeedItem"] = feedItemChildren /\ StandardObjects["FeedItem"] = feedItemSchema
  BY DEF childRelationshipNames, StandardObjects
<1>46. childRelationshipNames["EmailMessage"] = emailMessageChildren /\ StandardObjects["EmailMessage"] = emailMessageSchema
  BY DEF childRelationshipNames, StandardObjects
<1>47. childRelationshipNames["OpportunityContactRole"] = opportunityContactRoleChildren /\ StandardObjects["OpportunityContactRole"] = opportunityContactRoleSchema
  BY DEF childRelationshipNames, StandardObjects
<1>48. childRelationshipNames["AccountContactRelation"] = accountContactRelationChildren /\ StandardObjects["AccountContactRelation"] = accountContactRelationSchema
  BY DEF childRelationshipNames, StandardObjects
<1>49. DOMAIN childRelationshipNames = {"Account", "Contact", "Lead", "Opportunity", "OpportunityLineItem", "Case", "Task", "Event", "User", "UserRole", "Campaign", "CampaignMember", "Contract", "Order", "OrderItem", "PricebookEntry", "Asset", "ContentVersion", "Attachment", "Note", "FeedItem", "EmailMessage", "OpportunityContactRole", "AccountContactRelation"}
  BY DEF childRelationshipNames
<1>50. DOMAIN childRelationshipNames \subseteq DOMAIN StandardObjects
  BY DEF childRelationshipNames, StandardObjects
<1> QED
  BY <1>1, <1>2, <1>3, <1>4, <1>5, <1>6, <1>7, <1>8, <1>9, <1>10, <1>11, <1>12, <1>13, <1>14, <1>15, <1>16, <1>17, <1>18, <1>19, <1>20, <1>21, <1>22, <1>23, <1>24, <1>25, <1>26, <1>27, <1>28, <1>29, <1>30, <1>31, <1>32, <1>33, <1>34, <1>35, <1>36, <1>37, <1>38, <1>39, <1>40, <1>41, <1>42, <1>43, <1>44, <1>45, <1>46, <1>47, <1>48, <1>49, <1>50

(* Looked up on the standard objects, a child name and the object it is of tell the lookup. *)
LEMMA ChildNamesTell ==
  ASSUME NEW c \in DOMAIN childRelationshipNames, NEW f \in DOMAIN childRelationshipNames[c],
         NEW d \in DOMAIN childRelationshipNames, NEW g \in DOMAIN childRelationshipNames[d],
         childRelationshipNames[c][f] = childRelationshipNames[d][g],
         Standard(c)[f] = Standard(d)[g]
  PROVE  c = d /\ f = g /\ f \in DOMAIN Standard(c)
<1>1. ASSUME NEW x \in DOMAIN childRelationshipNames, NEW h \in DOMAIN childRelationshipNames[x]
      PROVE  h \in DOMAIN Standard(x) /\ Standard(x)[h] = StandardObjects[x][h]
  <2>1. x \in DOMAIN StandardObjects /\ h \in DOMAIN StandardObjects[x]
    BY ChildNamesFit DEF Fits
  <2>2. PICK own : own = StandardObjects[x]
    OBVIOUS
  <2>3. Standard(x) = [k \in DOMAIN StandardFields \cup DOMAIN own |->
                         IF k \in DOMAIN own THEN own[k] ELSE StandardFields[k]]
    BY <2>1, <2>2 DEF Standard
  <2> QED
    BY <2>1, <2>2, <2>3
<1>2. StandardObjects[c][f] = StandardObjects[d][g]
  BY <1>1
<1>3. Fits(c, childRelationshipNames[c], StandardObjects[c])
      /\ Fits(d, childRelationshipNames[d], StandardObjects[d])
  BY ChildNamesFit
<1>4. c = d
  BY <1>2, <1>3 DEF Fits
<1> QED
  BY <1>1, <1>2, <1>3, <1>4 DEF Fits

(* The lookups of an object: the project's own, which keep to what the standard ones refer to,  *)
(* and the standard ones that the project leaves as they are.                                   *)
LEMMA LookupKinds ==
  ASSUME project \in Projects, NEW o, NEW l \in Lookups(o)
  PROVE  /\ l.object = o /\ l.suffix \in {"Id", "__c"}
         /\ l.suffix = "Id" /\ l.field \in DOMAIN Standard(o) /\ l.ref # Blank => l.ref = Standard(o)[l.field]
         /\ \/ l \in project
            \/ /\ l = Lookup(o, l.field, "Id", Standard(o)[l.field], Blank) /\ l.child = Blank
               /\ \A m \in project : m.object = o /\ m.suffix = "Id" => m.field # l.field
<1>1. CASE l \in project
  <2>1. l.object = o
    BY LookupFacts
  <2> QED
    BY <1>1, <2>1, ProjectsAssumption
<1>2. CASE l \notin project
  <2>1. PICK f \in DOMAIN Standard(o) :
          /\ l = Lookup(o, f, "Id", Standard(o)[f], Blank)
          /\ \A m \in project : m.object = o /\ m.suffix = "Id" => m.field # f
    BY <1>2 DEF Lookups
  <2> QED
    BY <2>1 DEF Lookup
<1> QED
  BY <1>1, <1>2

(* A lookup is known by its object, its field and whether that is custom. *)
LEMMA LookupsAreFields ==
  ASSUME project \in Projects, NEW o, NEW l \in Lookups(o), NEW m \in Lookups(o),
         l.field = m.field, (l.suffix = "__c") = (m.suffix = "__c")
  PROVE  l = m
<1>1. l.object = o /\ m.object = o /\ l.suffix = m.suffix
  BY LookupKinds
<1>2. CASE l \in project /\ m \in project
  BY <1>1, <1>2, ProjectsAssumption
<1>3. CASE l \notin project /\ m \notin project
  BY <1>3, LookupKinds
<1>4. CASE l \in project /\ m \notin project
  <2>1. m.suffix = "Id"
    BY <1>4, LookupKinds DEF Lookup
  <2> QED
    BY <1>1, <1>4, <2>1, LookupKinds
<1>5. CASE l \notin project /\ m \in project
  <2>1. l.suffix = "Id"
    BY <1>5, LookupKinds DEF Lookup
  <2> QED
    BY <1>1, <1>5, <2>1, LookupKinds
<1> QED
  BY <1>2, <1>3, <1>4, <1>5

(* A child name that the project does not give comes from the table. *)
LEMMA ChildNameFacts ==
  ASSUME project \in Projects, NEW o, o # Blank, NEW name, name # Blank, ~GivenByProject(o, name),
         NEW c, NEW l \in Lookups(c), l.ref = o, ChildName(l) = name
  PROVE  /\ l.object = c /\ l.suffix = "Id"
         /\ c \in DOMAIN childRelationshipNames /\ l.field \in DOMAIN childRelationshipNames[c]
         /\ childRelationshipNames[c][l.field] = name
         /\ Standard(c)[l.field] = o
<1>1. l.object = c
  BY LookupKinds
<1>2. l.child = Blank
  <2>1. SUFFICES ASSUME l.child # Blank PROVE FALSE
    OBVIOUS
  <2>2. l \in project /\ l.child = name
    BY <2>1, LookupKinds DEF ChildName
  <2> QED
    BY <2>2 DEF GivenByProject
<1>3. /\ l.suffix = "Id"
      /\ c \in DOMAIN childRelationshipNames /\ l.field \in DOMAIN childRelationshipNames[c]
      /\ childRelationshipNames[c][l.field] = name
  BY <1>1, <1>2 DEF ChildName
<1>4. l.field \in DOMAIN Standard(c)
  BY <1>3, ChildNamesTell
<1> QED
  BY <1>1, <1>3, <1>4, LookupKinds

(* No two lookups of an object have one name. *)
LEMMA NamesOfParentsAreUnambiguous ==
  ASSUME project \in Projects, NEW among
  PROVE  Unambiguous(among)
<1> SUFFICES ASSUME NEW x \in among, NEW name, NEW l \in ResolveParent(x, name, among),
                    NEW m \in ResolveParent(x, name, among)
             PROVE  l = m
  BY DEF Unambiguous
<1>1. l \in Lookups(x) /\ m \in Lookups(x) /\ ParentName(l) = ParentName(m)
  BY LookupFacts
<1>2. l.field = m.field /\ (l.suffix = "__c") = (m.suffix = "__c")
  BY <1>1 DEF ParentName
<1> QED
  BY <1>1, <1>2, LookupsAreFields

(* No two lookups to an object have one child name, but for those the project names. *)
LEMMA NamesOfChildrenAreUnambiguous ==
  ASSUME project \in Projects, NEW o, o # Blank, NEW name, ~GivenByProject(o, name), NEW among
  PROVE  ~(Cardinality(ResolveChild(o, name, among)) > 1)
<1>1. ASSUME NEW l \in ResolveChild(o, name, among), NEW m \in ResolveChild(o, name, among)
      PROVE  l = m
  <2>1. PICK c \in among : l \in Lookups(c)
    BY DEF ResolveChild
  <2>2. PICK d \in among : m \in Lookups(d)
    BY DEF ResolveChild
  <2>3. /\ l.ref = o /\ ChildName(l) = name /\ name # Blank
        /\ m.ref = o /\ ChildName(m) = name
    BY DEF ResolveChild
  <2>4. /\ l.suffix = "Id"
        /\ c \in DOMAIN childRelationshipNames /\ l.field \in DOMAIN childRelationshipNames[c]
        /\ childRelationshipNames[c][l.field] = name
        /\ Standard(c)[l.field] = o
    BY <2>1, <2>3, ChildNameFacts
  <2>5. /\ m.suffix = "Id"
        /\ d \in DOMAIN childRelationshipNames /\ m.field \in DOMAIN childRelationshipNames[d]
        /\ childRelationshipNames[d][m.field] = name
        /\ Standard(d)[m.field] = o
    BY <2>2, <2>3, ChildNameFacts
  <2>6. c = d /\ l.field = m.field
    BY <2>4, <2>5, ChildNamesTell
  <2> QED
    BY <2>1, <2>2, <2>4, <2>5, <2>6, LookupsAreFields
<1>2. PICK kids : kids = ResolveChild(o, name, among)
  OBVIOUS
<1>3. CASE kids = {}
  BY <1>2, <1>3, FS_EmptySet
<1>4. ASSUME NEW l \in kids PROVE ~(Cardinality(kids) > 1)
  <2>1. kids = {l}
    BY <1>1, <1>2
  <2>2. Cardinality({l}) = 1
    BY FS_Singleton
  <2> QED
    BY <2>1, <2>2
<1> QED
  BY <1>2, <1>3, <1>4

(* What a path meets are objects, for a lookup it follows refers to one. *)
MeetsObjects(h) ==
  \E at, met, joined : h = [at |-> at, met |-> met, joins |-> joined] /\ Blank \notin met

LEMMA HopMeetsObjects == ASSUME NEW h, NEW name, MeetsObjects(h) PROVE MeetsObjects(Hop(h, name))
<1>1. PICK at, met, joined : h = [at |-> at, met |-> met, joins |-> joined] /\ Blank \notin met
  BY DEF MeetsObjects
<1>2. CASE Hop(h, name) = [at |-> Blank, met |-> met, joins |-> joined]
  BY <1>1, <1>2 DEF MeetsObjects
<1>3. ASSUME NEW l \in ResolveParent(at, name, met),
             Hop(h, name) = [at |-> l.ref, met |-> met \cup {l.ref}, joins |-> Append(joined, l)]
      PROVE  MeetsObjects(Hop(h, name))
  <2>1. l.ref # Blank
    BY LookupFacts
  <2>2. PICK to, further, rest : to = l.ref /\ further = met \cup {l.ref} /\ rest = Append(joined, l)
    OBVIOUS
  <2>3. Hop(h, name) = [at |-> to, met |-> further, joins |-> rest] /\ Blank \notin further
    BY <1>1, <1>3, <2>1, <2>2
  <2> QED
    BY <2>3 DEF MeetsObjects
<1> QED
  BY <1>1, <1>2, <1>3, HopFacts

(* Along a whole path. *)
LEMMA PathsMeetObjects ==
  ASSUME NEW o, o # Blank, NEW p \in Paths(o), NEW among, Blank \notin among
  PROVE  Blank \notin Hops(o, p, among).met
<1>1. MeetsObjects(Start(o, among))
  <2>1. PICK met, joined : met = among \cup {o} /\ joined = <<>>
    OBVIOUS
  <2>2. Start(o, among) = [at |-> o, met |-> met, joins |-> joined] /\ Blank \notin met
    BY <2>1 DEF Start
  <2> QED
    BY <2>2 DEF MeetsObjects
<1>2. SUFFICES MeetsObjects(Hops(o, p, among))
  BY DEF MeetsObjects
<1>3. CASE p = <<>>
  <2>1. p \in Seq({o}) /\ Len(p) = 0 /\ Len(p) \in 0..2
    BY <1>3
  <2>2. Hops(o, p, among) = Start(o, among)
    BY <2>1, HopsOfPath
  <2> QED
    BY <1>1, <2>2
<1>4. ASSUME NEW n, p = <<n>> PROVE MeetsObjects(Hops(o, p, among))
  <2>1. p \in Seq({n}) /\ Len(p) = 1 /\ p[1] = n /\ Len(p) \in 0..2
    BY <1>4
  <2>2. Hops(o, p, among) = Hop(Start(o, among), n)
    BY <2>1, HopsOfPath
  <2> QED
    BY <1>1, <2>2, HopMeetsObjects
<1>5. ASSUME NEW n, NEW m, p = <<n, m>> PROVE MeetsObjects(Hops(o, p, among))
  <2>1. p \in Seq({n, m}) /\ Len(p) = 2 /\ p[1] = n /\ p[2] = m /\ Len(p) \in 0..2
    BY <1>5
  <2>2. Hops(o, p, among) = Hop(Hop(Start(o, among), n), m)
    BY <2>1, HopsOfPath
  <2> QED
    BY <1>1, <2>2, HopMeetsObjects
<1> QED
  BY <1>3, <1>4, <1>5, PathFacts

(* The inductive invariant: the schema holds objects that have names. *)
RelationInv == project \in Projects /\ Blank \notin registered

(* It holds in every behaviour. *)
LEMMA RelationInvariance == RelationSpec => []RelationInv
<1>1. RelationInit => RelationInv
  BY ProjectsAssumption DEF RelationInit, RelationInv
<1>2. RelationInv /\ [RelationNext]_relationVars => RelationInv'
  <2>1. SUFFICES ASSUME RelationInv, RelationNext PROVE RelationInv'
    BY DEF RelationInv, relationVars
  <2>2. PICK o \in Queried : \E p \in Paths(o), child \in ChildNames : QueryRelated(o, p, child)
    BY <2>1 DEF RelationNext
  <2>3. PICK p \in Paths(o), child \in ChildNames : QueryRelated(o, p, child)
    BY <2>2
  <2>4. PICK met : met = Hops(o, p, registered).met
    OBVIOUS
  <2>5. project' = project
        /\ registered' = met \cup {l.object : l \in ResolveChild(o, child, met)}
    BY <2>3, <2>4 DEF QueryRelated
  <2>6. Blank \notin met
    BY <2>1, <2>4, RelationAssumption, PathsMeetObjects DEF RelationInv
  <2>7. \A l \in ResolveChild(o, child, met) : l.object \in met
    BY LookupFacts DEF ResolveChild
  <2> QED
    BY <2>1, <2>5, <2>6, <2>7 DEF RelationInv
<1> QED
  BY <1>1, <1>2, PTL DEF RelationSpec

(* A relationship name means one lookup, whatever lookups a project adds, but for child names  *)
(* it gives itself (RelationshipsAreUnambiguous).                                              *)
THEOREM NamesMeanOneLookup == RelationSpec => []RelationshipsAreUnambiguous
<1>1. RelationInv => RelationshipsAreUnambiguous
  <2>1. SUFFICES ASSUME RelationInv, NEW o \in registered
                 PROVE  /\ \A name \in Named(o) : \A l, m \in ResolveParent(o, name, registered) : l = m
                        /\ \A name \in {ChildName(l) : l \in UNION {Lookups(c) : c \in registered}} :
                             Cardinality(ResolveChild(o, name, registered)) > 1 => GivenByProject(o, name)
    BY DEF RelationshipsAreUnambiguous
  <2>2. Unambiguous(registered)
    BY <2>1, NamesOfParentsAreUnambiguous DEF RelationInv
  <2>3. ASSUME NEW name, ~GivenByProject(o, name)
        PROVE  ~(Cardinality(ResolveChild(o, name, registered)) > 1)
    BY <2>1, <2>3, NamesOfChildrenAreUnambiguous DEF RelationInv
  <2> QED
    BY <2>2, <2>3 DEF Unambiguous
<1> QED
  BY <1>1, RelationInvariance, PTL
(* However a project extends the standard lookups, a query's joins reach the objects its path   *)
(* names, and stop only past a lookup to no object (PathsReachTheirObjects).                    *)
THEOREM PathsAreFollowed == RelationSpec => []PathsReachTheirObjects
<1>1. RelationInit => PathsReachTheirObjects
  BY DEF RelationInit, PathsReachTheirObjects
<1>2. PathsReachTheirObjects /\ RelationshipsAreUnambiguous' /\ [RelationNext]_relationVars
        => PathsReachTheirObjects'
  <2>1. SUFFICES ASSUME PathsReachTheirObjects, RelationshipsAreUnambiguous', [RelationNext]_relationVars
                 PROVE  PathsReachTheirObjects'
    OBVIOUS
  <2>2. CASE UNCHANGED relationVars
    BY <2>1, <2>2 DEF relationVars, PathsReachTheirObjects, Lookups
  <2>3. CASE RelationNext
    <3>1. PICK o \in Queried : \E p \in Paths(o), child \in ChildNames : QueryRelated(o, p, child)
      BY <2>3 DEF RelationNext
    <3>2. PICK p \in Paths(o), child \in ChildNames : QueryRelated(o, p, child)
      BY <3>1
    <3>3. /\ Hops(o, p, registered).met \subseteq registered'
          /\ joins' = Hops(o, p, registered).joins
          /\ path' = <<o>> \o p
          /\ project' = project
      BY <3>2 DEF QueryRelated
    <3>4. o # Blank
      BY RelationAssumption
    <3>5. PICK met : met = registered'
      OBVIOUS
    <3>6. Unambiguous(met)
      <4>1. \A x : Lookups(x)' = Lookups(x)
        BY <3>3 DEF Lookups
      <4>2. \A x \in met : \A name \in Named(x)' : \A l, m \in ResolveParent(x, name, met)' : l = m
        BY <2>1, <3>5 DEF RelationshipsAreUnambiguous, Named, ResolveParent
      <4> QED
        BY <4>1, <4>2 DEF Unambiguous, Named, ResolveParent
    <3>7. Followed(<<o>> \o p, Hops(o, p, registered).joins, met)
      BY <3>3, <3>4, <3>5, <3>6, PathIsFollowed
    <3>8. PICK q, joined : q = <<o>> \o p /\ joined = Hops(o, p, registered).joins
      OBVIOUS
    <3>9. PICK at : at = IF joined = <<>> THEN q[1] ELSE Last(joined).ref
      OBVIOUS
    <3>10. Followed(q, joined, met) /\ path' = q /\ joins' = joined
      BY <3>3, <3>7, <3>8
    <3>11. Lookups(at)' = Lookups(at) /\ at = IF joins' = <<>> THEN path'[1] ELSE Last(joins').ref
      BY <3>3, <3>9, <3>10 DEF Lookups
    <3>12. Len(joined) < Len(q) - 1 =>
             \E l \in Lookups(at) : ParentName(l) = q[Len(joined) + 2] /\ l.ref = Blank
      BY <3>9, <3>10 DEF Followed
    <3>13. \A k \in DOMAIN joined :
             /\ joined[k].object = (IF k = 1 THEN q[1] ELSE joined[k - 1].ref)
             /\ ParentName(joined[k]) = q[k + 1]
             /\ joined[k].ref \in met
      BY <3>10 DEF Followed
    <3>14. Len(joins') < Len(path') - 1 =>
             \E l \in Lookups(IF joins' = <<>> THEN path'[1] ELSE Last(joins').ref) :
               ParentName(l) = path'[Len(joins') + 2] /\ l.ref = Blank
      BY <3>10, <3>11, <3>12
    <3> QED
      BY <3>3, <3>5, <3>10, <3>13, <3>14 DEF PathsReachTheirObjects, Lookups
  <2> QED
    BY <2>1, <2>2, <2>3
<1> QED
  BY <1>1, <1>2, NamesMeanOneLookup, PTL DEF RelationSpec
-----------------------------------------------------------------------------
(* The truths of texts. *)
Truths == {"T", "F", "U"}

(* The operators of truths give truths. *)
LEMMA TruthsStay ==
  /\ \A x : Not(x) \in Truths
  /\ \A x, y : And(x, y) \in Truths /\ Or(x, y) \in Truths
  /\ \A b : Truth(b) \in Truths
  /\ \A v, vs : Among(v, vs) \in Truths
  /\ \A ts : AllOf(ts) \in Truths /\ AnyOf(ts) \in Truths
BY DEF Truths, Not, And, Or, Truth, Among, AllOf, AnyOf

(* So do comparisons. *)
LEMMA AtomsAreTrueOrNot ==
  ASSUME NEW a, NEW i, NEW found
  PROVE  OfAtom(a, i, found) \in Truths
BY TruthsStay DEF OfAtom, Truths

(* What a condition is. *)
LEMMA Comparisons ==
  ASSUME NEW c \in Conditions, c.is = "compare"
  PROVE  /\ c # Anything
         /\ c.val.as \in {"text", "null", "bind", "bindlist", "list", "rows"}
         /\ c.val.as \in {"list", "rows"} => c.op \in {"IN", "NOT IN"}
         /\ c.val.as \in {"text", "null"} => c.op \in {"=", "!=", "<"}
         /\ c.op \in {"=", "!=", "<", "IN", "NOT IN"}
         /\ c.val.as = "rows" =>
              c.val.where \in Conditions /\ Height[c.val.where] < Height[c]
         /\ Condition(c.field, c.op, c.val) \in Atoms
BY ConditionsAssumption DEF Anything, Logical, Atoms

(* Null is no literal. *)
LEMMA Literals ==
  ASSUME NEW c \in Conditions, c.is = "compare", c.val.as = "text"
  PROVE  c.val.v # Null
BY ConditionsAssumption

(* What a condition made of conditions is. *)
LEMMA Connectives ==
  ASSUME NEW c \in Conditions, c.is # "compare"
  PROVE  /\ c.is \in {"not", "and", "or"} /\ c.parts \in Seq(Conditions \ {Anything})
         /\ \A k \in DOMAIN c.parts :
              /\ c.parts[k] \in Conditions /\ c.parts[k] # Anything
              /\ Height[c.parts[k]] < Height[c]
         /\ c.is = "not" => Len(c.parts) = 1 /\ 1 \in DOMAIN c.parts
         /\ c # Anything => Len(c.parts) \in Nat \ {0} /\ DOMAIN c.parts = 1..Len(c.parts)
<1>1. /\ c.is \in {"not", "and", "or"} /\ c.parts \in Seq(Conditions \ {Anything})
      /\ \A k \in DOMAIN c.parts : Height[c.parts[k]] < Height[c]
      /\ c.parts = <<>> => c = Anything
      /\ c.is = "not" => Len(c.parts) = 1
  BY ConditionsAssumption
<1>2. Len(c.parts) \in Nat /\ DOMAIN c.parts = 1..Len(c.parts)
  BY <1>1, LenProperties
<1>3. \A k \in DOMAIN c.parts : c.parts[k] \in Conditions \ {Anything}
  BY <1>1, <1>2, ElementOfSeq
<1>4. c # Anything => Len(c.parts) # 0
  BY <1>1, EmptySeq
<1> QED
  BY <1>1, <1>2, <1>3, <1>4

(* Anything is no comparison and has no parts. *)
LEMMA AnythingFacts ==
  /\ Anything \in Conditions /\ Anything.is = "and" /\ Anything.parts = <<>>
  /\ Height \in [Conditions -> Nat]
BY ConditionsAssumption DEF Anything, Logical

(* The tokens of texts, by what they are. *)
LEMMA TokenFacts ==
  /\ \A a \in Atoms : a.t = "atom" /\ a \in Tokens
  /\ \A t \in {"and", "or", "not", "(", ")"} : Token(t) \in Tokens /\ Token(t).t = t
  /\ \A t \in Tokens : t.t = "atom" => t \in Atoms
  /\ \A u \in Users : IsOwner(u) \in Atoms
  /\ \A id \in Range(Ids) : Atom("ref", "=", Text(id)) \in Atoms
<1>1. \A col, op, val : Condition(col, op, val).t = "atom"
  BY DEF Condition, Atom
<1>2. \A u : IsOwner(u).t = "atom"
  BY DEF IsOwner
<1>3. \A id : Atom("ref", "=", Text(id)).t = "atom"
  BY DEF Atom
<1>4. \A t : Token(t).t = t
  BY DEF Token
<1> QED
  BY <1>1, <1>2, <1>3, <1>4 DEF Tokens, Atoms, Joiners

(* Parentheses in texts put together. *)
At(ts, k, t) == {j \in 1 .. k : ts[j].t = t}

(* The places of a kind of token in two texts, one behind the other. *)
LEMMA AtOfJoined ==
  ASSUME NEW s \in Seq(Tokens), NEW u \in Seq(Tokens), NEW t
  PROVE  /\ \A k \in 0..Len(s) : At(s \o u, k, t) = At(s, k, t)
         /\ \A k \in 0..Len(u) :
              /\ IsFiniteSet(At(u, k, t)) /\ Cardinality(At(u, k, t)) \in Nat
              /\ Cardinality(At(s \o u, Len(s) + k, t))
                   = Cardinality(At(s, Len(s), t)) + Cardinality(At(u, k, t))
<1>1. /\ Len(s) \in Nat /\ Len(u) \in Nat
      /\ Len(s \o u) = Len(s) + Len(u)
      /\ \A i \in 1..Len(s) : (s \o u)[i] = s[i]
      /\ \A i \in 1..Len(u) : (s \o u)[Len(s) + i] = u[i]
  BY LenProperties, ConcatProperties
<1> DEFINE w == s \o u
<1> HIDE DEF w
<1>2. /\ \A i \in 1..Len(s) : w[i] = s[i]
      /\ \A i \in 1..Len(u) : w[Len(s) + i] = u[i]
  BY <1>1 DEF w
<1>3. ASSUME NEW k \in 0..Len(s) PROVE At(w, k, t) = At(s, k, t)
  <2>1. \A j \in 1..k : j \in 1..Len(s)
    BY <1>1
  <2> QED
    BY <1>2, <2>1 DEF At
<1>4. ASSUME NEW k \in 0..Len(u)
      PROVE  /\ IsFiniteSet(At(u, k, t)) /\ Cardinality(At(u, k, t)) \in Nat
             /\ Cardinality(At(w, Len(s) + k, t))
                  = Cardinality(At(s, Len(s), t)) + Cardinality(At(u, k, t))
  <2> DEFINE A == At(s, Len(s), t)
             B == At(u, k, t)
             C == {Len(s) + j : j \in B}
             shift == [j \in B |-> Len(s) + j]
  <2>1. IsFiniteSet(A) /\ IsFiniteSet(B)
    <3>1. IsFiniteSet(1..Len(s)) /\ IsFiniteSet(1..k)
      BY <1>1, FS_Interval
    <3>2. A \in SUBSET (1..Len(s)) /\ B \in SUBSET (1..k)
      BY DEF At
    <3> HIDE DEF A, B
    <3> QED
      BY <3>1, <3>2, FS_Subset
  <2>2. B \subseteq 1..k /\ A \subseteq 1..Len(s)
    BY DEF At
  <2>3. shift \in Bijection(B, C)
    <3>1. \A i, j \in B : shift[i] = shift[j] => i = j
      BY <1>1, <2>2
    <3>2. shift \in [B -> C] /\ \A x \in C : \E j \in B : shift[j] = x
      OBVIOUS
    <3> HIDE DEF shift, B, C
    <3> QED
      BY <3>1, <3>2, Fun_IsBij
  <2>4. IsFiniteSet(C) /\ Cardinality(C) = Cardinality(B)
    <3> HIDE DEF shift, B, C
    <3> QED
      BY <2>1, <2>3, FS_Bijection DEF ExistsBijection
  <2>5. At(w, Len(s) + k, t) = A \cup C
    <3>1. ASSUME NEW j \in At(w, Len(s) + k, t) PROVE j \in A \cup C
      <4>1. j \in 1..(Len(s) + k) /\ w[j].t = t
        BY DEF At
      <4>2. CASE j <= Len(s)
        BY <1>1, <1>2, <4>1, <4>2 DEF At
      <4>3. CASE j > Len(s)
        <5>1. j - Len(s) \in 1..k /\ j - Len(s) \in 1..Len(u) /\ j = Len(s) + (j - Len(s))
          BY <1>1, <4>1, <4>3
        <5>2. u[j - Len(s)].t = t
          BY <1>2, <4>1, <5>1
        <5>3. j - Len(s) \in B
          BY <5>1, <5>2 DEF At
        <5> HIDE DEF B
        <5> QED
          BY <5>1, <5>3
      <4> QED
        BY <1>1, <4>1, <4>2, <4>3
    <3>2. ASSUME NEW j \in A PROVE j \in At(w, Len(s) + k, t)
      BY <1>1, <1>2 DEF At
    <3>3. ASSUME NEW j \in B PROVE Len(s) + j \in At(w, Len(s) + k, t)
      <4>1. j \in 1..k /\ j \in 1..Len(u) /\ u[j].t = t
        BY <1>1 DEF At
      <4>2. Len(s) + j \in 1..(Len(s) + k)
        BY <1>1, <4>1
      <4> QED
        BY <1>2, <4>1, <4>2 DEF At
    <3> HIDE DEF A, B
    <3> QED
      BY <3>1, <3>2, <3>3
  <2>6. A \cap C = {}
    <3>1. \A j \in B : Len(s) + j \notin 1..Len(s)
      BY <1>1, <2>2
    <3> HIDE DEF A, B
    <3> QED
      BY <2>2, <3>1
  <2> HIDE DEF A, B, C
  <2>7. Cardinality(A \cup C) = Cardinality(A) + Cardinality(C)
    <3>1. Cardinality(A \cup C) = Cardinality(A) + Cardinality(C) - Cardinality(A \cap C)
      BY <2>1, <2>4, FS_Union
    <3>2. Cardinality(A \cap C) = 0
      BY <2>6, FS_EmptySet
    <3>3. Cardinality(A) \in Nat /\ Cardinality(C) \in Nat
      BY <2>1, <2>4, FS_CardinalityType
    <3> QED
      BY <3>1, <3>2, <3>3
  <2>8. Cardinality(B) \in Nat
    BY <2>1, FS_CardinalityType
  <2> QED
    BY <2>1, <2>4, <2>5, <2>7, <2>8 DEF A, B
<1> QED
  BY <1>3, <1>4 DEF w

(* The parentheses open in two texts, one behind the other. *)
LEMMA OpenOfJoined ==
  ASSUME NEW s \in Seq(Tokens), NEW u \in Seq(Tokens)
  PROVE  /\ \A k \in 0..Len(s) : Open(s \o u, k) = Open(s, k) /\ Open(s, k) \in Int
         /\ \A k \in 0..Len(u) : Open(s \o u, Len(s) + k) = Open(s, Len(s)) + Open(u, k)
<1>1. \A x, k : Open(x, k) = Cardinality(At(x, k, "(")) - Cardinality(At(x, k, ")"))
  BY DEF Open, At
<1>2. Len(s) \in Nat /\ Len(s) \in 0..Len(s)
  BY LenProperties
<1>3. ASSUME NEW t \in {"(", ")"}
      PROVE  \A k \in 0..Len(s) : Cardinality(At(s, k, t)) \in Nat
  BY AtOfJoined
<1>4. ASSUME NEW k \in 0..Len(s) PROVE Open(s \o u, k) = Open(s, k) /\ Open(s, k) \in Int
  <2>1. /\ At(s \o u, k, "(") = At(s, k, "(") /\ At(s \o u, k, ")") = At(s, k, ")")
        /\ Cardinality(At(s, k, "(")) \in Nat /\ Cardinality(At(s, k, ")")) \in Nat
    BY <1>3, AtOfJoined
  <2> QED
    BY <1>1, <2>1
<1>5. ASSUME NEW k \in 0..Len(u)
      PROVE  Open(s \o u, Len(s) + k) = Open(s, Len(s)) + Open(u, k)
  <2> DEFINE a(x, n, t) == Cardinality(At(x, n, t))
  <2>1. \A t : a(u, k, t) \in Nat /\ a(s \o u, Len(s) + k, t) = a(s, Len(s), t) + a(u, k, t)
    BY AtOfJoined
  <2>2. a(s, Len(s), "(") \in Nat /\ a(s, Len(s), ")") \in Nat
    BY <1>2, <1>3
  <2>3. /\ Open(s \o u, Len(s) + k) = a(s \o u, Len(s) + k, "(") - a(s \o u, Len(s) + k, ")")
        /\ Open(s, Len(s)) = a(s, Len(s), "(") - a(s, Len(s), ")")
        /\ Open(u, k) = a(u, k, "(") - a(u, k, ")")
    BY <1>1
  <2> HIDE DEF a
  <2> QED
    BY <2>1, <2>2, <2>3
<1> QED
  BY <1>4, <1>5

(* A text whose parentheses match. *)
Balanced(ts) == Open(ts, Len(ts)) = 0 /\ \A k \in 0..Len(ts) : Open(ts, k) >= 0

(* The operators outside parentheses in two texts, the first of which is balanced. *)
LEMMA OuterOfJoined ==
  ASSUME NEW s \in Seq(Tokens), NEW u \in Seq(Tokens), Balanced(s), NEW op
  PROVE  /\ Outer(s \o u, op) = Outer(s, op) \cup {Len(s) + k : k \in Outer(u, op)}
         /\ Balanced(u) => Balanced(s \o u)
<1> DEFINE w == s \o u
<1>1. /\ Len(s) \in Nat /\ Len(u) \in Nat
      /\ w \in Seq(Tokens) /\ Len(w) = Len(s) + Len(u)
      /\ \A i \in 1..Len(s) : w[i] = s[i]
      /\ \A i \in 1..Len(u) : w[Len(s) + i] = u[i]
  BY LenProperties, ConcatProperties
<1>2. DOMAIN s = 1..Len(s) /\ DOMAIN u = 1..Len(u) /\ DOMAIN w = 1..Len(w)
  <2> HIDE DEF w
  <2> QED
    BY <1>1, LenProperties
<1>3. /\ \A k \in 0..Len(s) : Open(w, k) = Open(s, k)
      /\ \A k \in 0..Len(u) : Open(w, Len(s) + k) = Open(u, k) /\ Open(u, k) \in Int
  <2>1. /\ \A k \in 0..Len(s) : Open(w, k) = Open(s, k)
        /\ \A k \in 0..Len(u) : Open(w, Len(s) + k) = Open(s, Len(s)) + Open(u, k)
    BY OpenOfJoined
  <2>2. \A k \in 0..Len(u) : Open(u, k) \in Int
    BY OpenOfJoined
  <2> HIDE DEF w
  <2> QED
    BY <2>1, <2>2 DEF Balanced
<1> HIDE DEF w
<1>4. ASSUME NEW j \in Outer(w, op)
      PROVE  j \in Outer(s, op) \cup {Len(s) + k : k \in Outer(u, op)}
  <2>1. j \in 1..Len(w) /\ w[j].t = op /\ Open(w, j) = 0
    BY <1>2 DEF Outer
  <2>2. CASE j <= Len(s)
    <3>1. j \in 1..Len(s) /\ j \in 0..Len(s)
      BY <1>1, <2>1, <2>2
    <3> QED
      BY <1>1, <1>2, <1>3, <2>1, <3>1 DEF Outer
  <2>3. CASE j > Len(s)
    <3> DEFINE k == j - Len(s)
    <3>1. k \in 1..Len(u) /\ k \in 0..Len(u) /\ j = Len(s) + k
      BY <1>1, <2>1, <2>3
    <3> HIDE DEF k
    <3>2. k \in Outer(u, op)
      BY <1>1, <1>2, <1>3, <2>1, <3>1 DEF Outer
    <3> QED
      BY <3>1, <3>2
  <2> QED
    BY <1>1, <2>1, <2>2, <2>3
<1>5. ASSUME NEW j \in Outer(s, op) PROVE j \in Outer(w, op)
  <2>1. j \in 1..Len(s) /\ j \in 0..Len(s) /\ j \in 1..Len(w)
    BY <1>1, <1>2 DEF Outer
  <2> QED
    BY <1>1, <1>2, <1>3, <2>1 DEF Outer
<1>6. ASSUME NEW k \in Outer(u, op) PROVE Len(s) + k \in Outer(w, op)
  <2>1. k \in 1..Len(u) /\ k \in 0..Len(u) /\ Len(s) + k \in 1..Len(w)
    BY <1>1, <1>2 DEF Outer
  <2> QED
    BY <1>1, <1>2, <1>3, <2>1 DEF Outer
<1>7. ASSUME Balanced(u) PROVE Balanced(w)
  <2>1. Open(w, Len(w)) = 0
    BY <1>1, <1>3, <1>7 DEF Balanced
  <2>2. ASSUME NEW k \in 0..Len(w) PROVE Open(w, k) >= 0
    <3>1. CASE k <= Len(s)
      BY <1>1, <1>3, <3>1 DEF Balanced
    <3>2. CASE k > Len(s)
      <4>1. k - Len(s) \in 0..Len(u) /\ k = Len(s) + (k - Len(s))
        BY <1>1, <3>2
      <4> QED
        BY <1>3, <1>7, <4>1 DEF Balanced
    <3> QED
      BY <1>1, <3>1, <3>2
  <2> QED
    BY <2>1, <2>2 DEF Balanced
<1> QED
  BY <1>4, <1>5, <1>6, <1>7 DEF w

(* A text of one token. *)
LEMMA OneToken ==
  ASSUME NEW a \in Tokens
  PROVE  /\ <<a>> \in Seq(Tokens) /\ Len(<<a>>) = 1 /\ <<a>>[1] = a
         /\ Open(<<a>>, 0) = 0
         /\ a.t = "(" => Open(<<a>>, 1) = 1
         /\ a.t = ")" => Open(<<a>>, 1) = 0 - 1
         /\ a.t \notin {"(", ")"} => Open(<<a>>, 1) = 0
         /\ a.t \notin {"(", ")"} => Balanced(<<a>>)
         /\ \A op : Outer(<<a>>, op) \subseteq {1} /\ (a.t # op => Outer(<<a>>, op) = {})
         /\ \A op : a.t = op /\ op \notin {"(", ")"} => Outer(<<a>>, op) = {1}
<1> DEFINE s == <<a>>
<1>1. s \in Seq(Tokens) /\ Len(s) = 1 /\ s[1] = a /\ DOMAIN s = {1}
  OBVIOUS
<1> HIDE DEF s
<1>2. \A t : At(s, 0, t) = {} /\ At(s, 1, t) = IF a.t = t THEN {1} ELSE {}
  <2>1. 1..0 = {} /\ 1..1 = {1}
    OBVIOUS
  <2> QED
    BY <1>1, <2>1 DEF At
<1>3. Cardinality({}) = 0 /\ Cardinality({1}) = 1
  BY FS_EmptySet, FS_Singleton
<1>4. \A k : Open(s, k) = Cardinality(At(s, k, "(")) - Cardinality(At(s, k, ")"))
  BY DEF Open, At
<1>5. Open(s, 0) = 0
  <2>1. At(s, 0, "(") = {} /\ At(s, 0, ")") = {}
    BY <1>2
  <2> QED
    BY <1>3, <1>4, <2>1
<1>6. /\ a.t = "(" => Open(s, 1) = 1
      /\ a.t = ")" => Open(s, 1) = 0 - 1
      /\ a.t \notin {"(", ")"} => Open(s, 1) = 0
  <2>1. At(s, 1, "(") = (IF a.t = "(" THEN {1} ELSE {}) /\ At(s, 1, ")") = (IF a.t = ")" THEN {1} ELSE {})
    BY <1>2
  <2>2. /\ Cardinality(At(s, 1, "(")) = IF a.t = "(" THEN 1 ELSE 0
        /\ Cardinality(At(s, 1, ")")) = IF a.t = ")" THEN 1 ELSE 0
    BY <1>3, <2>1
  <2>3. Open(s, 1) = Cardinality(At(s, 1, "(")) - Cardinality(At(s, 1, ")"))
    BY <1>4
  <2> QED
    BY <2>2, <2>3
<1>7. a.t \notin {"(", ")"} => Balanced(s)
  <2>1. 0..1 = {0, 1}
    OBVIOUS
  <2> QED
    BY <1>1, <1>5, <1>6, <2>1 DEF Balanced
<1>8. \A op : /\ Outer(s, op) \subseteq {1} /\ (a.t # op => Outer(s, op) = {})
              /\ a.t = op /\ op \notin {"(", ")"} => Outer(s, op) = {1}
  BY <1>1, <1>6 DEF Outer
<1> QED
  BY <1>1, <1>5, <1>6, <1>7, <1>8 DEF s

(* The empty text. *)
LEMMA NoTokens ==
  /\ <<>> \in Seq(Tokens) /\ Balanced(<<>>) /\ \A op : Outer(<<>>, op) = {}
<1>1. \A t : At(<<>>, 0, t) = {}
  <2>1. 1..0 = {}
    OBVIOUS
  <2> QED
    BY <2>1 DEF At
<1>2. Open(<<>>, 0) = Cardinality(At(<<>>, 0, "(")) - Cardinality(At(<<>>, 0, ")"))
  BY DEF Open, At
<1>3. Open(<<>>, 0) = 0
  <2>1. At(<<>>, 0, "(") = {} /\ At(<<>>, 0, ")") = {}
    BY <1>1
  <2>2. Open(<<>>, 0) = 0 - 0
    BY <1>2, <2>1, FS_EmptySet
  <2> QED
    BY <2>2
<1>4. Len(<<>>) = 0 /\ 0..0 = {0} /\ DOMAIN <<>> = {} /\ <<>> \in Seq(Tokens)
  OBVIOUS
<1> QED
  BY <1>3, <1>4 DEF Balanced, Outer

(* In parentheses nothing is outside parentheses. *)
LEMMA EnclosedFacts ==
  ASSUME NEW ts \in Seq(Tokens), Balanced(ts)
  PROVE  /\ Enclosed(ts) \in Seq(Tokens)
         /\ Len(Enclosed(ts)) = Len(ts) + 2
         /\ Enclosed(ts)[1] = Token("(") /\ Enclosed(ts) # <<>>
         /\ SubSeq(Enclosed(ts), 2, Len(Enclosed(ts)) - 1) = ts
         /\ Balanced(Enclosed(ts))
         /\ \A op \in Joiners : Outer(Enclosed(ts), op) = {}
<1> DEFINE l == <<Token("(")>>
           r == <<Token(")")>>
           a == l \o ts
           e == a \o r
<1>1. Enclosed(ts) = e
  BY DEF Enclosed
<1>2. /\ l \in Seq(Tokens) /\ Len(l) = 1 /\ l[1] = Token("(") /\ l[1].t = "("
      /\ Open(l, 0) = 0 /\ Open(l, 1) = 1
      /\ r \in Seq(Tokens) /\ Len(r) = 1 /\ r[1] = Token(")") /\ r[1].t = ")"
      /\ Open(r, 0) = 0 /\ Open(r, 1) = 0 - 1
  BY OneToken, TokenFacts
<1> HIDE DEF l, r
<1>3. /\ a \in Seq(Tokens) /\ Len(a) = Len(ts) + 1 /\ Len(ts) \in Nat
      /\ a[1] = Token("(") /\ \A k \in 1..Len(ts) : a[k + 1] = ts[k]
  <2>1. /\ a \in Seq(Tokens) /\ Len(a) = Len(l) + Len(ts)
        /\ \A k \in 1..Len(l) : a[k] = l[k]
        /\ \A k \in 1..Len(ts) : a[Len(l) + k] = ts[k]
    BY <1>2, ConcatProperties
  <2> HIDE DEF a
  <2>2. 1 \in 1..Len(l) /\ Len(ts) \in Nat
    BY <1>2, LenProperties
  <2> QED
    BY <1>2, <2>1, <2>2
<1>4. Open(a, 0) = 0 /\ \A k \in 0..Len(ts) : Open(a, k + 1) = 1 + Open(ts, k)
  <2>1. /\ \A k \in 0..Len(l) : Open(a, k) = Open(l, k)
        /\ \A k \in 0..Len(ts) : Open(a, Len(l) + k) = Open(l, Len(l)) + Open(ts, k)
    BY <1>2, OpenOfJoined
  <2> HIDE DEF a
  <2> QED
    BY <1>2, <1>3, <2>1
<1>5. \A k \in 0..Len(ts) : Open(ts, k) \in Int /\ Open(ts, k) >= 0
  BY OpenOfJoined DEF Balanced
<1> HIDE DEF a
<1>6. /\ e \in Seq(Tokens) /\ Len(e) = Len(ts) + 2
      /\ \A k \in 1..(Len(ts) + 1) : e[k] = a[k]
      /\ e[Len(ts) + 2] = Token(")")
  <2>1. /\ e \in Seq(Tokens) /\ Len(e) = Len(a) + Len(r)
        /\ \A k \in 1..Len(a) : e[k] = a[k]
        /\ \A k \in 1..Len(r) : e[Len(a) + k] = r[k]
    BY <1>2, <1>3, ConcatProperties
  <2> HIDE DEF e
  <2>2. 1 \in 1..Len(r) /\ Len(a) + 1 = Len(ts) + 2
    BY <1>2, <1>3
  <2> QED
    BY <1>2, <1>3, <2>1, <2>2
<1>7. /\ \A k \in 0..(Len(ts) + 1) : Open(e, k) = Open(a, k)
      /\ Open(e, Len(ts) + 2) = 0
  <2>1. /\ \A k \in 0..Len(a) : Open(e, k) = Open(a, k)
        /\ \A k \in 0..Len(r) : Open(e, Len(a) + k) = Open(a, Len(a)) + Open(r, k)
    BY <1>2, <1>3, OpenOfJoined
  <2> HIDE DEF e
  <2>2. Open(a, Len(a)) = 1
    BY <1>3, <1>4 DEF Balanced
  <2>3. 1 \in 0..Len(r) /\ Len(a) + 1 = Len(ts) + 2
    BY <1>2, <1>3
  <2> QED
    BY <1>2, <1>3, <2>1, <2>2, <2>3
<1> HIDE DEF e
<1>8. \A k \in 1..(Len(ts) + 1) : Open(e, k) \in Int /\ Open(e, k) >= 1
  <2>1. ASSUME NEW k \in 1..(Len(ts) + 1) PROVE Open(e, k) \in Int /\ Open(e, k) >= 1
    <3>1. k - 1 \in 0..Len(ts) /\ k = (k - 1) + 1 /\ k \in 0..(Len(ts) + 1)
      BY <1>3
    <3>2. Open(e, k) = 1 + Open(ts, k - 1)
      BY <1>4, <1>7, <3>1
    <3> QED
      BY <1>5, <3>1, <3>2
  <2> QED
    BY <2>1
<1>9. Balanced(e)
  <2>1. \A k \in 0..Len(e) : k = 0 \/ k \in 1..(Len(ts) + 1) \/ k = Len(ts) + 2
    BY <1>3, <1>6
  <2>2. Open(e, 0) = 0
    BY <1>3, <1>4, <1>7
  <2> QED
    BY <1>6, <1>7, <1>8, <2>1, <2>2 DEF Balanced
<1>10. ASSUME NEW op \in Joiners PROVE Outer(e, op) = {}
  <2>1. SUFFICES ASSUME NEW k \in Outer(e, op) PROVE FALSE
    OBVIOUS
  <2>2. k \in 1..Len(e) /\ e[k].t = op /\ Open(e, k) = 0
    BY <1>6, LenProperties DEF Outer
  <2>3. k = Len(ts) + 2
    BY <1>3, <1>6, <1>8, <2>2
  <2> QED
    BY <1>6, <2>2, <2>3, TokenFacts DEF Joiners
<1>11. SubSeq(e, 2, Len(e) - 1) = ts
  <2> DEFINE m == SubSeq(e, 2, Len(e) - 1)
  <2>1. \A k \in 2..(Len(e) - 1) : e[k] \in Tokens
    BY <1>3, <1>6, ElementOfSeq
  <2>2. 2 \in Int /\ Len(e) - 1 \in Int /\ Len(e) - 1 = Len(ts) + 1
    BY <1>3, <1>6
  <2>3. /\ m \in Seq(Tokens)
        /\ Len(m) = IF 2 <= Len(e) - 1 THEN Len(e) - 1 - 2 + 1 ELSE 0
        /\ \A k \in 1..(Len(e) - 1 - 2 + 1) : m[k] = e[2 + k - 1]
    BY <2>1, <2>2, SubSeqProperties
  <2> HIDE DEF m
  <2>4. Len(m) = Len(ts)
    BY <1>3, <2>2, <2>3
  <2>5. ASSUME NEW k \in 1..Len(ts) PROVE m[k] = ts[k]
    <3>1. k \in 1..(Len(e) - 1 - 2 + 1) /\ 2 + k - 1 = k + 1 /\ k + 1 \in 1..(Len(ts) + 1)
      BY <1>3, <2>2
    <3> QED
      BY <1>3, <1>6, <2>3, <3>1
  <2> QED
    BY <2>3, <2>4, <2>5, SeqEqual DEF m
<1>12. e[1] = Token("(") /\ e # <<>>
  BY <1>3, <1>6, EmptySeq
<1> QED
  BY <1>1, <1>6, <1>9, <1>10, <1>11, <1>12
-----------------------------------------------------------------------------
(* A part of a text is shorter than the text. *)
LEMMA PartsAreShorter ==
  ASSUME NEW S, NEW ts \in Seq(S), ts # <<>>, NEW m \in Int, NEW n \in Int,
         1 <= m, n <= Len(ts), m > 1 \/ n < Len(ts)
  PROVE  SubSeq(ts, m, n) \in Seq(S) /\ Len(SubSeq(ts, m, n)) < Len(ts)
<1>1. Len(ts) \in Nat \ {0}
  BY LenProperties, EmptySeq
<1>2. \A k \in m..n : ts[k] \in S
  BY <1>1, ElementOfSeq
<1>3. /\ SubSeq(ts, m, n) \in Seq(S)
      /\ Len(SubSeq(ts, m, n)) = IF m <= n THEN n - m + 1 ELSE 0
  BY <1>2, SubSeqProperties
<1> QED
  BY <1>1, <1>3

(* Where a text is split. *)
Split(ts, op) == Max(Outer(ts, op))
Before(ts, op) == SubSeq(ts, 1, Split(ts, op) - 1)
After(ts, op) == SubSeq(ts, Split(ts, op) + 1, Len(ts))

(* A text is split at the last of its operators, into shorter texts. *)
LEMMA SplitFacts ==
  ASSUME NEW ts \in Seq(Tokens), NEW op, Outer(ts, op) # {}
  PROVE  /\ ts # <<>> /\ Split(ts, op) \in 1..Len(ts) /\ Split(ts, op) \in Outer(ts, op)
         /\ \A k \in Outer(ts, op) : k <= Split(ts, op)
         /\ Before(ts, op) \in Seq(Tokens) /\ Len(Before(ts, op)) < Len(ts)
         /\ After(ts, op) \in Seq(Tokens) /\ Len(After(ts, op)) < Len(ts)
<1>1. Len(ts) \in Nat /\ DOMAIN ts = 1..Len(ts)
  BY LenProperties
<1>2. Outer(ts, op) \subseteq 1..Len(ts) /\ Outer(ts, op) \subseteq 0..Len(ts)
  BY <1>1 DEF Outer
<1>3. /\ Split(ts, op) \in Outer(ts, op)
      /\ \A k \in Outer(ts, op) : k <= Split(ts, op)
  BY <1>1, <1>2, Maximum DEF Split
<1>4. Split(ts, op) \in 1..Len(ts) /\ ts # <<>>
  BY <1>1, <1>2, <1>3, EmptySeq
<1> DEFINE k == Split(ts, op)
<1> HIDE DEF k
<1>5. k \in 1..Len(ts)
  BY <1>4 DEF k
<1>6. SubSeq(ts, 1, k - 1) \in Seq(Tokens) /\ Len(SubSeq(ts, 1, k - 1)) < Len(ts)
  <2>1. k - 1 \in Int /\ 1 \in Int /\ k - 1 < Len(ts) /\ k - 1 <= Len(ts) /\ 1 <= 1
    BY <1>1, <1>5
  <2> QED
    BY <1>4, <2>1, PartsAreShorter
<1>7. SubSeq(ts, k + 1, Len(ts)) \in Seq(Tokens) /\ Len(SubSeq(ts, k + 1, Len(ts))) < Len(ts)
  <2>1. k + 1 \in Int /\ Len(ts) \in Int /\ 1 <= k + 1 /\ k + 1 > 1 /\ Len(ts) <= Len(ts)
    BY <1>1, <1>5
  <2> QED
    BY <1>4, <2>1, PartsAreShorter
<1> QED
  BY <1>3, <1>4, <1>6, <1>7 DEF k, Before, After

(* What a text's truth is made of. *)
LEMMA VerdictOfText ==
  ASSUME NEW atoms \in [Atoms -> Truths], NEW ts \in Seq(Tokens)
  PROVE  /\ Verdict(ts, atoms) \in Truths
         /\ Outer(ts, "or") # {} =>
              Verdict(ts, atoms) = Or(Verdict(Before(ts, "or"), atoms), Verdict(After(ts, "or"), atoms))
         /\ Outer(ts, "or") = {} /\ Outer(ts, "and") # {} =>
              Verdict(ts, atoms) = And(Verdict(Before(ts, "and"), atoms), Verdict(After(ts, "and"), atoms))
         /\ Outer(ts, "or") = {} /\ Outer(ts, "and") = {} /\ ts # <<>> =>
              /\ ts[1].t = "not" =>
                   Verdict(ts, atoms) = Not(Verdict(SubSeq(ts, 2, Len(ts)), atoms))
              /\ ts[1].t = "(" => Verdict(ts, atoms) = Verdict(SubSeq(ts, 2, Len(ts) - 1), atoms)
              /\ ts[1].t = "atom" => Verdict(ts, atoms) = atoms[ts[1]]
<1> DEFINE Op(s) == IF Outer(s, "or") # {} THEN "or" ELSE "and"
           K(s) == Max(Outer(s, Op(s)))
           L(s) == SubSeq(s, 1, K(s) - 1)
           R(s) == SubSeq(s, K(s) + 1, Len(s))
           body(s, f) ==
             IF Outer(s, Op(s)) # {}
             THEN IF Op(s) = "or" THEN Or(f[L(s)], f[R(s)]) ELSE And(f[L(s)], f[R(s)])
             ELSE IF s = <<>> THEN "U"
             ELSE IF s[1].t = "not" THEN Not(f[SubSeq(s, 2, Len(s))])
             ELSE IF s[1].t = "(" THEN f[SubSeq(s, 2, Len(s) - 1)]
             ELSE IF s[1].t = "atom" THEN atoms[s[1]] ELSE "U"
           S == Seq(Tokens)
           height == [s \in S |-> Len(s)]
           truth == CHOOSE f : f = [s \in S |-> body(s, f)]
<1>1. \A s : Verdict(s, atoms) = truth[s]
  BY Zenon DEF Verdict
<1>2. height \in [S -> Nat] /\ \A s \in S : height[s] = Len(s)
  <2>1. \A s \in S : Len(s) \in Nat
    BY LenProperties
  <2> QED
    BY <2>1
<1>3. ASSUME NEW s \in S, Outer(s, Op(s)) # {}
      PROVE  L(s) \in S /\ R(s) \in S /\ Len(L(s)) < Len(s) /\ Len(R(s)) < Len(s)
  BY <1>3, SplitFacts DEF Split, Before, After
<1>4. ASSUME NEW s \in S, s # <<>>
      PROVE  /\ SubSeq(s, 2, Len(s)) \in S /\ Len(SubSeq(s, 2, Len(s))) < Len(s)
             /\ SubSeq(s, 2, Len(s) - 1) \in S /\ Len(SubSeq(s, 2, Len(s) - 1)) < Len(s)
             /\ s[1] \in Tokens /\ (s[1].t = "atom" => s[1] \in Atoms)
  <2>1. Len(s) \in Nat \ {0}
    BY <1>4, LenProperties, EmptySeq
  <2>2. /\ Len(s) \in Int /\ Len(s) - 1 \in Int /\ 2 \in Int /\ 1 <= 2 /\ 2 > 1
        /\ Len(s) <= Len(s) /\ Len(s) - 1 <= Len(s) /\ 1 \in 1..Len(s)
    BY <2>1
  <2>3. s[1] \in Tokens
    BY <2>2, ElementOfSeq
  <2> QED
    BY <1>4, <2>2, <2>3, PartsAreShorter, TokenFacts
<1> HIDE DEF Op, L, R, height, S
<1>5. ASSUME NEW s \in S, NEW f, NEW g, \A r \in S : Len(r) < Len(s) => f[r] = g[r]
      PROVE  body(s, f) = body(s, g)
  <2>1. CASE Outer(s, Op(s)) # {}
    BY <1>3, <1>5, <2>1
  <2>2. CASE Outer(s, Op(s)) = {}
    BY <1>4, <1>5, <2>2
  <2> QED
    BY <2>1, <2>2
<1>6. ASSUME NEW s \in S, NEW f, \A r \in S : Len(r) < Len(s) => f[r] \in Truths
      PROVE  body(s, f) \in Truths
  <2>1. CASE Outer(s, Op(s)) # {}
    BY <2>1, TruthsStay
  <2>2. CASE Outer(s, Op(s)) = {}
    <3>1. "U" \in Truths
      BY DEF Truths
    <3> QED
      BY <1>4, <1>6, <2>2, <3>1, TruthsStay
  <2> QED
    BY <2>1, <2>2
<1>7. \E f \in [S -> Truths] : \A s \in S : f[s] = body(s, f)
  <2> DEFINE step == [f \in [S -> Truths] |-> [s \in S |-> body(s, f)]]
  <2> HIDE DEF body
  <2>1. \A f \in [S -> Truths], s \in S : step[f][s] = body(s, f)
    OBVIOUS
  <2>2. \A f \in [S -> Truths], s \in S : body(s, f) \in Truths
    BY <1>6
  <2>3. step \in [[S -> Truths] -> [S -> Truths]]
    BY <2>2
  <2> HIDE DEF step
  <2>4. ASSUME NEW s \in S, NEW f \in [S -> Truths], NEW g \in [S -> Truths],
               \A r \in S : height[r] < height[s] => f[r] = g[r]
        PROVE  step[f][s] = step[g][s]
    <3>1. body(s, f) = body(s, g)
      BY <1>2, <1>5, <2>4
    <3> QED
      BY <2>1, <3>1
  <2>5. Truths # {}
    BY DEF Truths
  <2>6. Recursive(S, Truths, height, step)
    BY <1>2, <2>3, <2>4, <2>5 DEF Recursive
  <2>7. PICK f \in [S -> Truths] : f = step[f]
    BY <2>6, Recursion
  <2> QED
    BY <2>1, <2>7
<1>8. truth = [s \in S |-> body(s, truth)]
  <2>1. PICK f \in [S -> Truths] : \A s \in S : f[s] = body(s, f)
    BY <1>7
  <2>2. f = [s \in S |-> body(s, f)]
    <3> HIDE DEF body
    <3> QED
      BY <2>1
  <2> HIDE DEF body
  <2> QED
    BY <2>2
<1> HIDE DEF truth
<1>9. \A s \in S : truth[s] = body(s, truth)
  <2> HIDE DEF body
  <2> QED
    BY <1>8
<1>10. \A s \in S : truth[s] \in Truths
  <2> DEFINE P == {s \in S : truth[s] \in Truths}
  <2>1. ASSUME NEW s \in S, \A r \in S : height[r] < height[s] => r \in P PROVE s \in P
    <3>1. body(s, truth) \in Truths
      <4> HIDE DEF body
      <4> QED
        BY <1>2, <1>6, <2>1
    <3> HIDE DEF body
    <3> QED
      BY <1>9, <3>1
  <2>2. S \subseteq P
    <3> HIDE DEF P
    <3> QED
      BY <1>2, <2>1, HeightInduction
  <2> QED
    BY <2>2
<1>11. truth[ts] = body(ts, truth) /\ truth[ts] \in Truths
  BY <1>9, <1>10 DEF S
<1> USE DEF Op, L, R
<1>12. CASE Outer(ts, "or") # {}
  BY <1>1, <1>11, <1>12 DEF Split, Before, After
<1>13. CASE Outer(ts, "or") = {} /\ Outer(ts, "and") # {}
  BY <1>1, <1>11, <1>13 DEF Split, Before, After
<1>14. CASE Outer(ts, "or") = {} /\ Outer(ts, "and") = {}
  BY <1>1, <1>11, <1>14
<1> QED
  BY <1>12, <1>13, <1>14

(* What is in two sequences, one behind the other. *)
LEMMA ConcatFacts ==
  ASSUME NEW S, NEW s \in Seq(S), NEW u \in Seq(S)
  PROVE  /\ s \o u \in Seq(S) /\ Len(s \o u) = Len(s) + Len(u)
         /\ Len(s) \in Nat /\ Len(u) \in Nat
         /\ \A k \in 1..Len(s) : (s \o u)[k] = s[k]
         /\ \A k \in 1..Len(u) : (s \o u)[Len(s) + k] = u[k]
BY LenProperties, ConcatProperties

(* Texts joined by an operator. *)
Between(a, op, b) == a \o <<Token(op)>> \o b

(* A text joined by an operator is balanced and is split where it was joined. *)
LEMMA JoinedFacts ==
  ASSUME NEW a \in Seq(Tokens), NEW b \in Seq(Tokens), Balanced(a), Balanced(b),
         NEW op \in Joiners
  PROVE  LET w == Between(a, op, b)
         IN /\ w \in Seq(Tokens) /\ w # <<>> /\ Balanced(w)
            /\ \A o \in Joiners : o # op /\ Outer(a, o) = {} /\ Outer(b, o) = {} => Outer(w, o) = {}
            /\ Outer(w, op) # {}
            /\ Outer(b, op) = {} =>
                 Before(w, op) = a /\ After(w, op) = b
<1> DEFINE m == <<Token(op)>>
           l == a \o m
           w == l \o b
           n == Len(a) + 1
<1>1. /\ m \in Seq(Tokens) /\ Len(m) = 1 /\ m[1].t = op /\ Balanced(m)
      /\ \A o \in Joiners : Outer(m, o) = IF o = op THEN {1} ELSE {}
  <2>1. PICK c \in Tokens : c = Token(op) /\ c.t = op /\ op \notin {"(", ")"}
    BY TokenFacts DEF Joiners
  <2>2. m = <<c>>
    BY <2>1
  <2> HIDE DEF m
  <2>3. m \in Seq(Tokens) /\ Len(m) = 1 /\ m[1] = c
    BY <2>2, OneToken
  <2>4. Balanced(m)
    BY <2>1, <2>2, OneToken
  <2>5. Outer(m, op) = {1}
    BY <2>1, <2>2, OneToken
  <2>6. ASSUME NEW o, o # op PROVE Outer(m, o) = {}
    BY <2>1, <2>2, <2>6, OneToken
  <2> QED
    BY <2>1, <2>3, <2>4, <2>5, <2>6
<1>2. Len(a) \in Nat /\ Len(b) \in Nat
  BY LenProperties
<1> HIDE DEF m
<1>3. /\ l \in Seq(Tokens) /\ Len(l) = n
      /\ \A k \in 1..Len(a) : l[k] = a[k]
  BY <1>1, ConcatFacts
<1>4. /\ Balanced(l)
      /\ \A o \in Joiners : Outer(l, o) = Outer(a, o) \cup (IF o = op THEN {n} ELSE {})
  <2>1. /\ \A o : Outer(l, o) = Outer(a, o) \cup {Len(a) + k : k \in Outer(m, o)}
        /\ Balanced(l)
    BY <1>1, OuterOfJoined
  <2>2. \A o \in Joiners : {Len(a) + k : k \in Outer(m, o)} = IF o = op THEN {n} ELSE {}
    BY <1>1
  <2> HIDE DEF l, n
  <2> QED
    BY <2>1, <2>2
<1> HIDE DEF l
<1>5. /\ w \in Seq(Tokens) /\ Len(w) = n + Len(b)
      /\ \A k \in 1..n : w[k] = l[k]
      /\ \A k \in 1..Len(b) : w[n + k] = b[k]
  <2>1. /\ w \in Seq(Tokens) /\ Len(w) = Len(l) + Len(b)
        /\ \A k \in 1..Len(l) : w[k] = l[k]
        /\ \A k \in 1..Len(b) : w[Len(l) + k] = b[k]
    <3>1. l \in Seq(Tokens)
      BY <1>3
    <3> QED
      BY <3>1, ConcatFacts
  <2> HIDE DEF w, n
  <2> QED
    BY <1>3, <2>1
<1>6. /\ Balanced(w)
      /\ \A o : Outer(w, o) = Outer(l, o) \cup {n + k : k \in Outer(b, o)}
  <2>1. /\ Balanced(w)
        /\ \A o : Outer(w, o) = Outer(l, o) \cup {Len(l) + k : k \in Outer(b, o)}
    BY <1>3, <1>4, OuterOfJoined
  <2> HIDE DEF w, n
  <2> QED
    BY <1>3, <2>1
<1> HIDE DEF w
<1>7. n \in Outer(w, op) /\ w # <<>>
  <2>1. Len(w) # 0
    BY <1>2, <1>5
  <2> QED
    BY <1>4, <1>5, <1>6, <2>1, EmptySeq
<1>8. ASSUME NEW o \in Joiners, o # op, Outer(a, o) = {}, Outer(b, o) = {} PROVE Outer(w, o) = {}
  BY <1>4, <1>6, <1>8
<1>9. ASSUME Outer(b, op) = {}
      PROVE  Before(w, op) = a /\ After(w, op) = b
  <2>1. Outer(w, op) = Outer(a, op) \cup {n}
    BY <1>4, <1>6, <1>9
  <2>2. \A k \in Outer(a, op) : k \in 1..Len(a)
    BY LenProperties DEF Outer
  <2>3. Split(w, op) \in Outer(w, op) /\ \A k \in Outer(w, op) : k <= Split(w, op)
    BY <1>5, <1>7, SplitFacts
  <2>4. Split(w, op) = n
    <3> HIDE DEF n
    <3>1. Split(w, op) = n \/ Split(w, op) \in 1..Len(a)
      BY <2>1, <2>2, <2>3
    <3>2. n <= Split(w, op)
      BY <1>7, <2>3
    <3> QED
      BY <1>2, <3>1, <3>2 DEF n
  <2>5. SubSeq(w, 1, n - 1) = a
    <3>1. n - 1 = Len(a) /\ Len(a) \in 0..Len(w)
      BY <1>2, <1>5
    <3>2. /\ SubSeq(w, 1, Len(a)) \in Seq(Tokens) /\ Len(SubSeq(w, 1, Len(a))) = Len(a)
          /\ \A k \in 1..Len(a) : SubSeq(w, 1, Len(a))[k] = w[k]
      BY <1>5, <3>1, PrefixFacts
    <3>3. \A k \in 1..Len(a) : w[k] = a[k]
      BY <1>2, <1>3, <1>5
    <3> HIDE DEF n
    <3>4. SubSeq(w, 1, Len(a)) = a
      BY <3>2, <3>3, SeqEqual
    <3> QED
      BY <3>1, <3>4
  <2>6. SubSeq(w, n + 1, Len(w)) = b
    <3> DEFINE r == SubSeq(w, n + 1, Len(w))
    <3>1. \A k \in (n + 1)..Len(w) : w[k] \in Tokens
      BY <1>2, <1>5, ElementOfSeq
    <3>2. n + 1 \in Int /\ Len(w) \in Int
      BY <1>2, <1>5
    <3>3. /\ r \in Seq(Tokens)
          /\ Len(r) = IF n + 1 <= Len(w) THEN Len(w) - (n + 1) + 1 ELSE 0
          /\ \A k \in 1..(Len(w) - (n + 1) + 1) : r[k] = w[n + 1 + k - 1]
      BY <3>1, <3>2, SubSeqProperties
    <3> HIDE DEF r
    <3>4. Len(r) = Len(b)
      BY <1>2, <1>5, <3>3
    <3>5. ASSUME NEW k \in 1..Len(b) PROVE r[k] = b[k]
      <4>1. k \in 1..(Len(w) - (n + 1) + 1) /\ n + 1 + k - 1 = n + k
        BY <1>2, <1>5
      <4> QED
        BY <1>5, <3>3, <4>1
    <3> QED
      BY <3>3, <3>4, <3>5, SeqEqual DEF r
  <2> HIDE DEF n
  <2> QED
    BY <2>4, <2>5, <2>6 DEF Before, After
<1> QED
  BY <1>5, <1>6, <1>7, <1>8, <1>9 DEF w, l, m, Between

(* OR joins any texts whose last has no other OR. *)
LEMMA JoinedByOr ==
  ASSUME NEW a \in Seq(Tokens), NEW b \in Seq(Tokens),
         Balanced(a), Balanced(b), Outer(b, "or") = {}
  PROVE  \A atoms \in [Atoms -> Truths] :
           Verdict(Between(a, "or", b), atoms) = Or(Verdict(a, atoms), Verdict(b, atoms))
<1> DEFINE w == Between(a, "or", b)
<1>1. "or" \in Joiners
  BY DEF Joiners
<1>2. w \in Seq(Tokens) /\ Outer(w, "or") # {}
  BY <1>1, JoinedFacts
<1>3. Before(w, "or") = a
  BY <1>1, JoinedFacts
<1>4. After(w, "or") = b
  BY <1>1, JoinedFacts
<1> HIDE DEF w
<1>5. ASSUME NEW atoms \in [Atoms -> Truths]
      PROVE  Verdict(w, atoms) = Or(Verdict(a, atoms), Verdict(b, atoms))
  BY <1>2, <1>3, <1>4, VerdictOfText
<1> QED
  BY <1>5 DEF w

(* AND joins texts that have no OR outside parentheses. *)
LEMMA JoinedByAnd ==
  ASSUME NEW a \in Seq(Tokens), NEW b \in Seq(Tokens),
         Balanced(a), Balanced(b), Outer(a, "or") = {}, Outer(b, "or") = {}, Outer(b, "and") = {}
  PROVE  \A atoms \in [Atoms -> Truths] :
           Verdict(Between(a, "and", b), atoms) = And(Verdict(a, atoms), Verdict(b, atoms))
<1> DEFINE w == Between(a, "and", b)
<1>1. "and" \in Joiners /\ "or" \in Joiners
  BY DEF Joiners
<1>2. w \in Seq(Tokens) /\ Outer(w, "and") # {}
  BY <1>1, JoinedFacts
<1>3. Outer(w, "or") = {}
  BY <1>1, JoinedFacts
<1>4. Before(w, "and") = a
  BY <1>1, JoinedFacts
<1>5. After(w, "and") = b
  BY <1>1, JoinedFacts
<1> HIDE DEF w
<1>6. ASSUME NEW atoms \in [Atoms -> Truths]
      PROVE  Verdict(w, atoms) = And(Verdict(a, atoms), Verdict(b, atoms))
  BY <1>2, <1>3, <1>4, <1>5, VerdictOfText
<1> QED
  BY <1>6 DEF w

(* Parentheses around a text leave its truth alone. *)
LEMMA VerdictOfEnclosed ==
  ASSUME NEW atoms \in [Atoms -> Truths], NEW ts \in Seq(Tokens), Balanced(ts)
  PROVE  Verdict(Enclosed(ts), atoms) = Verdict(ts, atoms)
<1>1. /\ Enclosed(ts) \in Seq(Tokens) /\ Enclosed(ts)[1].t = "(" /\ Enclosed(ts) # <<>>
      /\ SubSeq(Enclosed(ts), 2, Len(Enclosed(ts)) - 1) = ts
      /\ Outer(Enclosed(ts), "or") = {} /\ Outer(Enclosed(ts), "and") = {}
  BY EnclosedFacts, TokenFacts DEF Joiners
<1> QED
  BY <1>1, VerdictOfText

(* NOT is of the text in parentheses behind it. *)
LEMMA NotFacts ==
  ASSUME NEW ts \in Seq(Tokens), Balanced(ts)
  PROVE  LET w == <<Token("not")>> \o Enclosed(ts)
         IN /\ w \in Seq(Tokens) /\ w # <<>> /\ Balanced(w)
            /\ \A o \in Joiners : Outer(w, o) = {}
            /\ \A atoms \in [Atoms -> Truths] : Verdict(w, atoms) = Not(Verdict(ts, atoms))
<1> DEFINE m == <<Token("not")>>
           e == Enclosed(ts)
           w == m \o e
<1>1. /\ m \in Seq(Tokens) /\ Len(m) = 1 /\ m[1].t = "not" /\ Balanced(m)
      /\ \A o \in Joiners : Outer(m, o) = {}
  <2>1. Token("not") \in Tokens /\ Token("not").t = "not"
    BY TokenFacts
  <2> QED
    BY <2>1, OneToken DEF Joiners
<1>2. /\ e \in Seq(Tokens) /\ Balanced(e) /\ Len(e) \in Nat
      /\ \A o \in Joiners : Outer(e, o) = {}
  BY EnclosedFacts, LenProperties
<1> HIDE DEF m, e
<1>3. /\ w \in Seq(Tokens) /\ Len(w) = 1 + Len(e)
      /\ w[1] = m[1] /\ \A k \in 1..Len(e) : w[1 + k] = e[k]
  <2>1. /\ w \in Seq(Tokens) /\ Len(w) = Len(m) + Len(e)
        /\ \A k \in 1..Len(m) : w[k] = m[k]
        /\ \A k \in 1..Len(e) : w[Len(m) + k] = e[k]
    <3>1. m \in Seq(Tokens) /\ e \in Seq(Tokens)
      BY <1>1, <1>2
    <3> QED
      BY <3>1, ConcatFacts
  <2> HIDE DEF w
  <2>2. 1 \in 1..Len(m)
    BY <1>1
  <2> QED
    BY <1>1, <2>1, <2>2
<1>4. Balanced(w) /\ \A o \in Joiners : Outer(w, o) = {}
  <2>1. Balanced(w) /\ \A o : Outer(w, o) = Outer(m, o) \cup {Len(m) + k : k \in Outer(e, o)}
    BY <1>1, <1>2, OuterOfJoined
  <2> HIDE DEF w
  <2> QED
    BY <1>1, <1>2, <2>1
<1> HIDE DEF w
<1>5. w # <<>>
  BY <1>2, <1>3, EmptySeq
<1>6. SubSeq(w, 2, Len(w)) = e
  <2> DEFINE r == SubSeq(w, 2, Len(w))
  <2>1. \A k \in 2..Len(w) : w[k] \in Tokens
    BY <1>2, <1>3, ElementOfSeq
  <2>2. /\ r \in Seq(Tokens)
        /\ Len(r) = IF 2 <= Len(w) THEN Len(w) - 2 + 1 ELSE 0
        /\ \A k \in 1..(Len(w) - 2 + 1) : r[k] = w[2 + k - 1]
    <3>1. 2 \in Int /\ Len(w) \in Int
      BY <1>2, <1>3
    <3> QED
      BY <2>1, <3>1, SubSeqProperties
  <2> HIDE DEF r
  <2>3. Len(r) = Len(e)
    BY <1>2, <1>3, <2>2
  <2>4. ASSUME NEW k \in 1..Len(e) PROVE r[k] = e[k]
    <3>1. k \in 1..(Len(w) - 2 + 1) /\ 2 + k - 1 = 1 + k
      BY <1>2, <1>3
    <3> QED
      BY <1>3, <2>2, <3>1
  <2> QED
    BY <1>2, <2>2, <2>3, <2>4, SeqEqual DEF r
<1>7. ASSUME NEW atoms \in [Atoms -> Truths] PROVE Verdict(w, atoms) = Not(Verdict(ts, atoms))
  <2>1. Outer(w, "or") = {} /\ Outer(w, "and") = {}
    BY <1>4 DEF Joiners
  <2>2. Verdict(w, atoms) = Not(Verdict(SubSeq(w, 2, Len(w)), atoms))
    BY <1>1, <1>3, <1>5, <2>1, VerdictOfText
  <2>3. Verdict(e, atoms) = Verdict(ts, atoms)
    BY VerdictOfEnclosed DEF e
  <2> QED
    BY <1>6, <2>2, <2>3
<1> QED
  BY <1>3, <1>4, <1>5, <1>7 DEF w, m, e

(* A text of one comparison. *)
LEMMA AtomFacts ==
  ASSUME NEW a \in Atoms
  PROVE  /\ <<a>> \in Seq(Tokens) /\ <<a>> # <<>> /\ Balanced(<<a>>)
         /\ \A o \in Joiners : Outer(<<a>>, o) = {}
         /\ \A atoms \in [Atoms -> Truths] : Verdict(<<a>>, atoms) = atoms[a]
<1>1. a \in Tokens /\ a.t = "atom"
  BY TokenFacts
<1> DEFINE w == <<a>>
<1>2. /\ w \in Seq(Tokens) /\ Len(w) = 1 /\ w[1] = a /\ Balanced(w)
      /\ \A o \in Joiners : Outer(w, o) = {}
  BY <1>1, OneToken DEF Joiners
<1> HIDE DEF w
<1>3. w # <<>>
  BY <1>2, EmptySeq
<1>4. Outer(w, "or") = {} /\ Outer(w, "and") = {}
  BY <1>2 DEF Joiners
<1>5. ASSUME NEW atoms \in [Atoms -> Truths] PROVE Verdict(w, atoms) = atoms[a]
  BY <1>1, <1>2, <1>3, <1>4, VerdictOfText
<1> QED
  BY <1>2, <1>3, <1>5 DEF w
-----------------------------------------------------------------------------
(* The texts of the first conditions of a condition, joined. *)
JoinsUp(upTo, c, text) ==
  /\ upTo \in [1..Len(c.parts) -> Seq(Tokens)]
  /\ JoinedText(c, text) = upTo[Len(c.parts)]
  /\ upTo[1] = BuildConditional(c.parts[1], text)
  /\ \A k \in 2..Len(c.parts) :
       upTo[k] = Between(upTo[k - 1], c.is, BuildConditional(c.parts[k], text))

(* The text of joined parts grows by one part at a time. *)
LEMMA JoinedTextSteps ==
  ASSUME NEW c, NEW text, Len(c.parts) \in Nat \ {0}, c.is \in Joiners,
         \A k \in 1..Len(c.parts) : BuildConditional(c.parts[k], text) \in Seq(Tokens)
  PROVE  \E upTo : JoinsUp(upTo, c, text)
<1> DEFINE n == Len(c.parts)
           B(k) == BuildConditional(c.parts[k], text)
           body(k, f) ==
             IF k = 0 THEN <<>> ELSE f[k - 1] \o (IF k = 1 THEN <<>> ELSE <<Token(c.is)>>) \o B(k)
           S == 0..n
           T == Seq(Tokens)
           height == [k \in S |-> k]
           upTo == CHOOSE f : f = [k \in 0..n |-> body(k, f)]
<1>1. JoinedText(c, text) = upTo[n]
  BY DEF JoinedText
<1>2. \A k \in 1..n : B(k) \in T
  OBVIOUS
<1> HIDE DEF B
<1>3. <<>> \in T /\ <<Token(c.is)>> \in T
  BY NoTokens, OneToken, TokenFacts DEF Joiners
<1>4. n \in Nat /\ n # 0 /\ height \in [S -> Nat]
  OBVIOUS
<1>5. ASSUME NEW k \in S, NEW f, k # 0 => f[k - 1] \in T PROVE body(k, f) \in T
  <2> DEFINE m == IF k = 1 THEN <<>> ELSE <<Token(c.is)>>
  <2>1. m \in T
    BY <1>3
  <2> HIDE DEF m
  <2>2. CASE k # 0
    <3>1. k \in 1..n
      BY <2>2
    <3>2. f[k - 1] \o m \in T
      BY <1>5, <2>1, <2>2, ConcatFacts
    <3>3. f[k - 1] \o m \o B(k) \in T
      BY <1>2, <3>1, <3>2, ConcatFacts
    <3> QED
      BY <2>2, <3>3 DEF m
  <2>3. CASE k = 0
    BY <1>3, <2>3
  <2> QED
    BY <2>2, <2>3
<1> HIDE DEF n, height, S
<1>6. \E f \in [S -> T] : f = [k \in 0..n |-> body(k, f)]
  <2> DEFINE step == [f \in [S -> T] |-> [k \in S |-> body(k, f)]]
  <2>1. \A f \in [S -> T], k \in S : step[f][k] = body(k, f)
    <3> HIDE DEF body
    <3> QED
      OBVIOUS
  <2>2. \A f \in [S -> T], k \in S : body(k, f) \in T
    <3>1. ASSUME NEW f \in [S -> T], NEW k \in S PROVE body(k, f) \in T
      <4>1. k # 0 => k - 1 \in S
        BY <1>4 DEF S
      <4>2. k # 0 => f[k - 1] \in T
        BY <4>1
      <4> HIDE DEF body
      <4> QED
        BY <1>5, <4>2
    <3> HIDE DEF body
    <3> QED
      BY <3>1
  <2>3. step \in [[S -> T] -> [S -> T]]
    <3> HIDE DEF body, T
    <3> QED
      BY <2>2
  <2> HIDE DEF step
  <2>4. ASSUME NEW k \in S, NEW f \in [S -> T], NEW g \in [S -> T],
               \A r \in S : height[r] < height[k] => f[r] = g[r]
        PROVE  step[f][k] = step[g][k]
    <3>1. k # 0 => k - 1 \in S /\ height[k - 1] < height[k]
      BY <1>4 DEF S, height
    <3>2. k # 0 => f[k - 1] = g[k - 1]
      BY <2>4, <3>1
    <3>3. body(k, f) = body(k, g)
      BY <3>2
    <3> HIDE DEF body
    <3> QED
      BY <2>1, <3>3
  <2>5. Recursive(S, T, height, step)
    BY <1>3, <1>4, <2>3, <2>4 DEF Recursive
  <2>6. PICK f \in [S -> T] : f = step[f]
    <3> HIDE DEF T
    <3> QED
      BY <2>5, Recursion
  <2>7. f = [k \in S |-> body(k, f)]
    <3> HIDE DEF body, T
    <3> QED
      BY <2>1, <2>6
  <2> HIDE DEF body, T
  <2> QED
    BY <2>7 DEF S
<1>7. upTo = [k \in 0..n |-> body(k, upTo)]
  <2>1. PICK f \in [S -> T] : f = [k \in 0..n |-> body(k, f)]
    BY <1>6
  <2> HIDE DEF body
  <2> QED
    BY <2>1
<1> HIDE DEF upTo
<1>8. /\ upTo[0] = <<>>
      /\ \A k \in 1..n : upTo[k] = upTo[k - 1] \o (IF k = 1 THEN <<>> ELSE <<Token(c.is)>>) \o B(k)
  <2>1. 0 \in 0..n /\ \A k \in 1..n : k \in 0..n /\ k # 0
    BY <1>4
  <2>2. \A k \in 0..n : upTo[k] = body(k, upTo)
    <3> HIDE DEF body
    <3> QED
      BY <1>7
  <2> QED
    BY <2>1, <2>2
<1>9. upTo[1] = B(1)
  <2>1. 1 \in 1..n /\ 1 - 1 = 0
    BY <1>4
  <2>2. upTo[1] = <<>> \o <<>> \o B(1)
    BY <1>8, <2>1
  <2>3. B(1) \in T
    BY <1>2, <2>1
  <2> QED
    BY <1>3, <2>2, <2>3, ConcatEmptySeq
<1>10. ASSUME NEW k \in 2..n PROVE upTo[k] = Between(upTo[k - 1], c.is, B(k))
  <2>1. k \in 1..n /\ k # 1
    BY <1>4
  <2> QED
    BY <1>8, <2>1 DEF Between
<1>11. \A k \in 0..n : upTo[k] \in T
  <2> DEFINE I == {k \in 0..n : upTo[k] \in T}
  <2>1. 0 \in I
    <3>1. 0 \in 0..n
      BY <1>4
    <3>2. upTo[0] \in T
      <4> HIDE DEF T
      <4> QED
        BY <1>3, <1>8
    <3> QED
      BY <3>1, <3>2
  <2>2. ASSUME NEW k \in 0..(n - 1), k \in I PROVE k + 1 \in I
    <3>1. k + 1 \in S /\ k + 1 \in 0..n /\ (k + 1) - 1 = k
      BY <1>4 DEF S
    <3>2. body(k + 1, upTo) \in T
      <4> HIDE DEF body
      <4> QED
        BY <1>5, <2>2, <3>1
    <3>3. upTo[k + 1] = body(k + 1, upTo)
      <4> HIDE DEF body
      <4> QED
        BY <1>7, <3>1
    <3> HIDE DEF body
    <3> QED
      BY <3>1, <3>2, <3>3
  <2>3. 0..n \subseteq I
    <3> HIDE DEF I
    <3> QED
      BY <1>4, <2>1, <2>2, Induction
  <2> QED
    BY <2>3
<1>12. [k \in 1..n |-> upTo[k]] \in [1..n -> T]
  <2>1. \A k \in 1..n : k \in 0..n
    BY <1>4
  <2> QED
    BY <1>11, <2>1
<1>13. n \in 1..n /\ 1 \in 1..n /\ \A k \in 2..n : k \in 1..n /\ k - 1 \in 1..n
  BY <1>4
<1> DEFINE w == [k \in 1..n |-> upTo[k]]
<1>14. w \in [1..n -> T] /\ JoinedText(c, text) = w[n] /\ w[1] = B(1)
  BY <1>1, <1>9, <1>12, <1>13
<1>15. \A k \in 2..n : w[k] = Between(w[k - 1], c.is, B(k))
  BY <1>10, <1>13
<1> HIDE DEF w
<1> QED
  BY <1>14, <1>15 DEF n, B, JoinsUp

(* The text of a part, among those joined. *)
LEMMA PartFacts ==
  ASSUME NEW ts \in Seq(Tokens), NEW c, NEW text, text[c] = ts
  PROVE  /\ c.is # "compare" => BuildConditional(c, text) = Enclosed(ts)
         /\ c.is = "compare" => BuildConditional(c, text) = ts
         /\ BuildConditional(c, text) \in Seq(Tokens)
<1>1. Enclosed(ts) \in Seq(Tokens)
  <2>1. <<Token("(")>> \in Seq(Tokens) /\ <<Token(")")>> \in Seq(Tokens)
    BY OneToken, TokenFacts
  <2>2. <<Token("(")>> \o ts \in Seq(Tokens)
    BY <2>1, ConcatFacts
  <2>3. <<Token("(")>> \o ts \o <<Token(")")>> \in Seq(Tokens)
    BY <2>1, <2>2, ConcatFacts
  <2> QED
    BY <2>3 DEF Enclosed
<1> QED
  BY <1>1 DEF BuildConditional

(* No parts, no text. *)
LEMMA NothingJoined ==
  ASSUME NEW c, NEW text, Len(c.parts) = 0
  PROVE  JoinedText(c, text) = <<>>
<1> DEFINE body(k, u) ==
             IF k = 0 THEN <<>>
             ELSE u[k - 1] \o (IF k = 1 THEN <<>> ELSE <<Token(c.is)>>) \o BuildConditional(c.parts[k], text)
           base == CHOOSE u : u = [k \in 0..0 |-> body(k, u)]
           z == [k \in 0..0 |-> <<>>]
<1>1. JoinedText(c, text) = base[0]
  BY DEF JoinedText
<1>2. z = [k \in 0..0 |-> body(k, z)]
  <2>1. \A k \in 0..0 : k = 0
    OBVIOUS
  <2> QED
    BY <2>1
<1>3. base = [k \in 0..0 |-> body(k, base)]
  <2> HIDE DEF z
  <2> QED
    BY <1>2
<1> HIDE DEF base
<1>4. 0 \in 0..0
  OBVIOUS
<1> QED
  BY <1>1, <1>3, <1>4

(* The joined text asks for nothing but the texts of the parts. *)
LEMMA JoinedTextsAgree ==
  ASSUME NEW c \in Conditions, c.is \in Joiners, NEW f, NEW g,
         \A r \in Conditions : Height[r] < Height[c] => f[r] \in Seq(Tokens) /\ f[r] = g[r]
  PROVE  JoinedText(c, f) = JoinedText(c, g) /\ JoinedText(c, f) \in Seq(Tokens)
<1>0. c.is # "compare"
  BY DEF Joiners
<1>1. \A k \in DOMAIN c.parts : c.parts[k] \in Conditions /\ Height[c.parts[k]] < Height[c]
  BY <1>0, Connectives
<1>2. Len(c.parts) \in Nat /\ DOMAIN c.parts = 1..Len(c.parts)
  BY <1>0, Connectives, LenProperties
<1>3. CASE Len(c.parts) = 0
  BY <1>3, NothingJoined, NoTokens
<1>4. CASE Len(c.parts) # 0
  <2> DEFINE n == Len(c.parts)
             B(h, k) == BuildConditional(c.parts[k], h)
  <2>1. \A k \in 1..n : /\ B(f, k) \in Seq(Tokens) /\ B(g, k) \in Seq(Tokens)
                        /\ B(f, k) = B(g, k)
    <3>1. ASSUME NEW k \in 1..n PROVE f[c.parts[k]] \in Seq(Tokens) /\ f[c.parts[k]] = g[c.parts[k]]
      BY <1>1, <1>2
    <3>2. ASSUME NEW k \in 1..n
          PROVE  B(f, k) \in Seq(Tokens) /\ B(g, k) \in Seq(Tokens) /\ B(f, k) = B(g, k)
      BY <3>1, PartFacts DEF BuildConditional
    <3> QED
      BY <3>2
  <2> HIDE DEF n, B
  <2>2. n \in Nat \ {0}
    BY <1>2, <1>4 DEF n
  <2>3. PICK u : JoinsUp(u, c, f)
    BY <2>1, <2>2, JoinedTextSteps DEF n, B
  <2>4. PICK w : JoinsUp(w, c, g)
    BY <2>1, <2>2, JoinedTextSteps DEF n, B
  <2>9. /\ JoinedText(c, f) = u[n] /\ u[1] = B(f, 1)
        /\ \A k \in 2..n : u[k] = Between(u[k - 1], c.is, B(f, k))
        /\ JoinedText(c, g) = w[n] /\ w[1] = B(g, 1)
        /\ \A k \in 2..n : w[k] = Between(w[k - 1], c.is, B(g, k))
        /\ u \in [1..n -> Seq(Tokens)]
    BY <2>3, <2>4 DEF JoinsUp, n, B
  <2> DEFINE I == {k \in 0..n : k = 0 \/ u[k] = w[k]}
  <2>5. 0 \in I
    BY <2>2
  <2>6. ASSUME NEW k \in 0..(n - 1), k \in I PROVE k + 1 \in I
    <3>1. k + 1 \in 1..n /\ k + 1 \in 0..n
      BY <2>2
    <3>2. CASE k = 0
      BY <2>1, <2>9, <3>1, <3>2
    <3>3. CASE k # 0
      <4>1. k + 1 \in 2..n /\ (k + 1) - 1 = k /\ u[k] = w[k]
        BY <2>2, <2>6, <3>3
      <4>2. u[k + 1] = Between(u[k], c.is, B(f, k + 1)) /\ w[k + 1] = Between(w[k], c.is, B(g, k + 1))
        BY <2>9, <4>1
      <4>3. B(f, k + 1) = B(g, k + 1)
        BY <2>1, <3>1
      <4> QED
        BY <3>1, <4>1, <4>2, <4>3
    <3> QED
      BY <3>2, <3>3
  <2>7. 0..n \subseteq I
    <3> HIDE DEF I
    <3> QED
      BY <2>2, <2>5, <2>6, Induction
  <2>8. n \in I /\ n # 0 /\ n \in 1..n
    BY <2>2, <2>7
  <2> QED
    BY <2>8, <2>9
<1> QED
  BY <1>3, <1>4

(* The texts of conditions, as they are defined. *)
LEMMA BuildLogicalFacts ==
  /\ BuildLogical \in [Conditions -> Seq(Tokens)]
  /\ \A c \in Conditions :
       /\ c.is = "compare" => BuildLogical[c] = <<Condition(c.field, c.op, c.val)>>
       /\ c.is = "not" =>
            BuildLogical[c] = <<Token("not")>> \o Enclosed(BuildConditional(c.parts[1], BuildLogical))
       /\ c.is \in Joiners => BuildLogical[c] = JoinedText(c, BuildLogical)
<1> DEFINE body(c, f) ==
             IF c.is = "compare" THEN <<Condition(c.field, c.op, c.val)>>
             ELSE IF c.is = "not" THEN <<Token("not")>> \o Enclosed(BuildConditional(c.parts[1], f))
             ELSE JoinedText(c, f)
           S == Conditions
           T == Seq(Tokens)
<1>1. Height \in [S -> Nat] /\ T # {}
  BY AnythingFacts, NoTokens
<1>2. ASSUME NEW c \in S, NEW f, NEW g,
             \A r \in S : Height[r] < Height[c] => f[r] \in T /\ f[r] = g[r]
      PROVE  body(c, f) \in T /\ body(c, f) = body(c, g)
  <2>1. CASE c.is = "compare"
    BY <2>1, Comparisons, AtomFacts
  <2>2. CASE c.is = "not"
    <3> DEFINE d == c.parts[1]
    <3>1. d \in S /\ Height[d] < Height[c]
      BY <2>2, Connectives
    <3>2. f[d] \in T /\ f[d] = g[d]
      BY <1>2, <3>1
    <3> HIDE DEF d
    <3>3. BuildConditional(d, f) \in T /\ BuildConditional(d, f) = BuildConditional(d, g)
      BY <3>2, PartFacts DEF BuildConditional
    <3>4. <<Token("not")>> \o Enclosed(BuildConditional(d, f)) \in T
      <4>1. <<Token("not")>> \in T /\ <<Token("(")>> \in T /\ <<Token(")")>> \in T
        BY OneToken, TokenFacts
      <4>2. <<Token("(")>> \o BuildConditional(d, f) \in T
        BY <3>3, <4>1, ConcatFacts
      <4>3. Enclosed(BuildConditional(d, f)) \in T
        BY <4>1, <4>2, ConcatFacts DEF Enclosed
      <4> QED
        BY <4>1, <4>3, ConcatFacts
    <3> QED
      BY <2>2, <3>3, <3>4 DEF d
  <2>3. CASE c.is \notin {"compare", "not"}
    <3>1. c.is \in Joiners
      BY <2>3, Connectives DEF Joiners
    <3>2. JoinedText(c, f) = JoinedText(c, g) /\ JoinedText(c, f) \in T
      BY <1>2, <3>1, JoinedTextsAgree
    <3> QED
      BY <2>3, <3>2
  <2> QED
    BY <2>1, <2>2, <2>3
<1>3. \E f \in [S -> T] : f = [c \in S |-> body(c, f)]
  <2> DEFINE step == [f \in [S -> T] |-> [c \in S |-> body(c, f)]]
  <2> HIDE DEF body, T
  <2>1. \A f \in [S -> T], c \in S : step[f][c] = body(c, f)
    OBVIOUS
  <2>2. \A f \in [S -> T], c \in S : body(c, f) \in T
    BY <1>2
  <2>3. step \in [[S -> T] -> [S -> T]]
    BY <2>2
  <2> HIDE DEF step
  <2>4. ASSUME NEW c \in S, NEW f \in [S -> T], NEW g \in [S -> T],
               \A r \in S : Height[r] < Height[c] => f[r] = g[r]
        PROVE  step[f][c] = step[g][c]
    <3>1. body(c, f) = body(c, g)
      BY <1>2, <2>4
    <3> QED
      BY <2>1, <3>1
  <2>5. Recursive(S, T, Height, step)
    BY <1>1, <2>3, <2>4 DEF Recursive
  <2>6. PICK f \in [S -> T] : f = step[f]
    BY <2>5, Recursion
  <2> QED
    BY <2>1, <2>6
<1>4. BuildLogical = [c \in S |-> body(c, BuildLogical)]
  <2>1. BuildLogical = CHOOSE f : f = [c \in S |-> body(c, f)]
    BY DEF BuildLogical
  <2>2. PICK f \in [S -> T] : f = [c \in S |-> body(c, f)]
    BY <1>3
  <2> HIDE DEF body
  <2> QED
    BY <2>1, <2>2
<1>5. \A c \in S : BuildLogical[c] = body(c, BuildLogical)
  <2> HIDE DEF body
  <2> QED
    BY <1>4
<1>6. \A c \in S : BuildLogical[c] \in T
  <2> DEFINE P == {c \in S : BuildLogical[c] \in T}
  <2> HIDE DEF body, T
  <2>1. ASSUME NEW c \in S, \A r \in S : Height[r] < Height[c] => r \in P PROVE c \in P
    <3>1. body(c, BuildLogical) \in T
      BY <1>2, <2>1
    <3> QED
      BY <1>5, <3>1
  <2>2. S \subseteq P
    <3> HIDE DEF P
    <3> QED
      BY <1>1, <2>1, HeightInduction
  <2> QED
    BY <2>2
<1>7. BuildLogical \in [S -> T]
  <2> HIDE DEF body, T
  <2> QED
    BY <1>4, <1>6
<1> QED
  BY <1>5, <1>7 DEF Joiners

(* Truths taken together, one more at a time. *)
LEMMA AllAndAny ==
  /\ \A x \in Truths : AllOf({x}) = x /\ AnyOf({x}) = x
  /\ \A xs \in SUBSET Truths, y \in Truths :
       AllOf(xs \cup {y}) = And(AllOf(xs), y) /\ AnyOf(xs \cup {y}) = Or(AnyOf(xs), y)
  /\ \A xs \in SUBSET Truths : /\ AllOf(xs) = "T" <=> \A x \in xs : x = "T"
                               /\ AnyOf(xs) = "T" <=> "T" \in xs
BY DEF Truths, AllOf, AnyOf, And, Or, Not

(* A part of a condition stands in the text in a way that nothing outside it can take apart. *)
LEMMA PartsStand ==
  ASSUME NEW c \in Conditions, c # Anything, Balanced(BuildLogical[c])
  PROVE  LET b == BuildConditional(c, BuildLogical)
         IN /\ b \in Seq(Tokens) /\ Balanced(b)
            /\ Outer(b, "or") = {} /\ Outer(b, "and") = {}
            /\ \A atoms \in [Atoms -> Truths] :
                 Verdict(b, atoms) = Verdict(BuildLogical[c], atoms)
<1>1. BuildLogical[c] \in Seq(Tokens)
  BY BuildLogicalFacts
<1>2. CASE c.is = "compare"
  <2>1. BuildConditional(c, BuildLogical) = <<Condition(c.field, c.op, c.val)>>
    BY <1>2, BuildLogicalFacts DEF BuildConditional
  <2>2. Condition(c.field, c.op, c.val) \in Atoms
    BY <1>2, Comparisons
  <2>3. BuildConditional(c, BuildLogical) = BuildLogical[c]
    BY <1>2 DEF BuildConditional
  <2>4. Outer(BuildConditional(c, BuildLogical), "or") = {}
        /\ Outer(BuildConditional(c, BuildLogical), "and") = {}
    BY <2>1, <2>2, AtomFacts DEF Joiners
  <2> QED
    BY <1>1, <2>3, <2>4
<1>3. CASE c.is # "compare"
  <2>1. BuildConditional(c, BuildLogical) = Enclosed(BuildLogical[c])
    BY <1>3 DEF BuildConditional
  <2>2. /\ Enclosed(BuildLogical[c]) \in Seq(Tokens) /\ Balanced(Enclosed(BuildLogical[c]))
        /\ Outer(Enclosed(BuildLogical[c]), "or") = {} /\ Outer(Enclosed(BuildLogical[c]), "and") = {}
    BY <1>1, EnclosedFacts DEF Joiners
  <2>3. \A atoms \in [Atoms -> Truths] :
          Verdict(Enclosed(BuildLogical[c]), atoms) = Verdict(BuildLogical[c], atoms)
    BY <1>1, VerdictOfEnclosed
  <2> QED
    BY <2>1, <2>2, <2>3
<1> QED
  BY <1>2, <1>3

Connected(c, truths) == IF c.is = "and" THEN AllOf(truths) ELSE AnyOf(truths)

(* Parts joined by AND or OR are as true as all or any of them. *)
LEMMA JoinedTruth ==
  ASSUME NEW c \in Conditions, c # Anything, c.is \in Joiners,
         \A k \in DOMAIN c.parts : Balanced(BuildLogical[c.parts[k]])
  PROVE  /\ Balanced(BuildLogical[c]) /\ BuildLogical[c] # <<>>
         /\ c.is = "and" => Outer(BuildLogical[c], "or") = {}
         /\ \A atoms \in [Atoms -> Truths] :
              Verdict(BuildLogical[c], atoms)
                = Connected(c, {Verdict(BuildLogical[c.parts[k]], atoms) : k \in DOMAIN c.parts})
<1> DEFINE n == Len(c.parts)
           B(k) == BuildConditional(c.parts[k], BuildLogical)
           v(k, atoms) == Verdict(BuildLogical[c.parts[k]], atoms)
           vs(k, atoms) == {v(j, atoms) : j \in 1..k}
<1>1. /\ n \in Nat \ {0} /\ DOMAIN c.parts = 1..n /\ c.is \in {"and", "or"}
      /\ \A k \in 1..n : c.parts[k] \in Conditions /\ c.parts[k] # Anything
  BY Connectives DEF Joiners
<1>2. ASSUME NEW k \in 1..n
      PROVE  /\ B(k) \in Seq(Tokens) /\ Balanced(B(k))
             /\ Outer(B(k), "or") = {} /\ Outer(B(k), "and") = {}
             /\ \A atoms \in [Atoms -> Truths] :
                  Verdict(B(k), atoms) = v(k, atoms) /\ v(k, atoms) \in Truths
  <2>1. c.parts[k] \in Conditions /\ c.parts[k] # Anything /\ Balanced(BuildLogical[c.parts[k]])
    BY <1>1
  <2>2. BuildLogical[c.parts[k]] \in Seq(Tokens)
    BY <2>1, BuildLogicalFacts
  <2>3. \A atoms \in [Atoms -> Truths] : v(k, atoms) \in Truths
    BY <2>2, VerdictOfText
  <2>4. /\ B(k) \in Seq(Tokens) /\ Balanced(B(k))
        /\ Outer(B(k), "or") = {} /\ Outer(B(k), "and") = {}
        /\ \A atoms \in [Atoms -> Truths] : Verdict(B(k), atoms) = v(k, atoms)
    BY <2>1, PartsStand
  <2> QED
    BY <2>3, <2>4
<1>3. PICK u : JoinsUp(u, c, BuildLogical)
  BY <1>1, <1>2, JoinedTextSteps
<1>4. /\ u \in [1..n -> Seq(Tokens)] /\ BuildLogical[c] = u[n] /\ u[1] = B(1)
      /\ \A k \in 2..n : u[k] = Between(u[k - 1], c.is, B(k))
  BY <1>3, BuildLogicalFacts DEF JoinsUp
<1> HIDE DEF n, B, v
<1> DEFINE Good(k) ==
             /\ Balanced(u[k]) /\ u[k] # <<>>
             /\ c.is = "and" => Outer(u[k], "or") = {}
             /\ \A atoms \in [Atoms -> Truths] :
                  Verdict(u[k], atoms) = Connected(c, vs(k, atoms))
           I == {k \in 0..n : k = 0 \/ Good(k)}
<1>5. ASSUME NEW k \in 0..(n - 1), k \in I PROVE k + 1 \in I
  <2>1. k + 1 \in 1..n /\ k + 1 \in 0..n
    BY <1>1
  <2>2. CASE k = 0
    <3>1. 1 \in 1..n /\ u[1] = B(1) /\ Balanced(u[1]) /\ Outer(u[1], "or") = {}
      BY <1>2, <1>4, <2>1, <2>2
    <3>2. u[1] # <<>>
      <4>1. c.parts[1] \in Conditions /\ c.parts[1] # Anything
        BY <1>1, <3>1
      <4>2. CASE c.parts[1].is = "compare"
        <5>1. B(1) = <<Condition(c.parts[1].field, c.parts[1].op, c.parts[1].val)>>
          BY <4>1, <4>2, BuildLogicalFacts DEF BuildConditional, B
        <5> QED
          BY <3>1, <4>1, <4>2, <5>1, Comparisons, AtomFacts
      <4>3. CASE c.parts[1].is # "compare"
        <5>1. BuildLogical[c.parts[1]] \in Seq(Tokens) /\ Balanced(BuildLogical[c.parts[1]])
          BY <1>1, <3>1, <4>1, BuildLogicalFacts
        <5>2. B(1) = Enclosed(BuildLogical[c.parts[1]])
          BY <4>3 DEF BuildConditional, B
        <5> QED
          BY <3>1, <5>1, <5>2, EnclosedFacts
      <4> QED
        BY <4>2, <4>3
    <3>3. ASSUME NEW atoms \in [Atoms -> Truths]
          PROVE  Verdict(u[1], atoms) = Connected(c, vs(1, atoms))
      <4>1. Verdict(u[1], atoms) = v(1, atoms) /\ v(1, atoms) \in Truths
        BY <1>2, <3>1
      <4>2. vs(1, atoms) = {v(1, atoms)}
        <5>1. 1..1 = {1}
          OBVIOUS
        <5> QED
          BY <5>1
      <4> QED
        BY <4>1, <4>2, AllAndAny DEF Connected
    <3> QED
      BY <2>1, <2>2, <3>1, <3>2, <3>3
  <2>3. CASE k # 0
    <3> DEFINE a == u[k]
               b == B(k + 1)
    <3>1. k + 1 \in 2..n /\ (k + 1) - 1 = k /\ k \in 1..n /\ Good(k)
      <4> HIDE DEF Good
      <4> QED
        BY <1>1, <1>5, <2>3
    <3>2. u[k + 1] = Between(a, c.is, b)
      BY <1>4, <3>1
    <3>3. /\ a \in Seq(Tokens) /\ Balanced(a) /\ (c.is = "and" => Outer(a, "or") = {})
          /\ b \in Seq(Tokens) /\ Balanced(b) /\ Outer(b, "or") = {} /\ Outer(b, "and") = {}
      BY <1>2, <1>4, <2>1, <3>1
    <3>4. Balanced(u[k + 1]) /\ u[k + 1] # <<>>
      <4> HIDE DEF a, b
      <4> QED
        BY <3>2, <3>3, JoinedFacts
    <3>5. c.is = "and" => Outer(u[k + 1], "or") = {}
      <4>1. SUFFICES ASSUME c.is = "and" PROVE Outer(u[k + 1], "or") = {}
        OBVIOUS
      <4>2. "or" \in Joiners /\ "and" \in Joiners /\ Outer(a, "or") = {}
        BY <3>3, <4>1 DEF Joiners
      <4> HIDE DEF a, b
      <4>3. Outer(Between(a, "and", b), "or") = {}
        BY <3>3, <4>2, JoinedFacts
      <4> QED
        BY <3>2, <4>1, <4>3
    <3>6. ASSUME NEW atoms \in [Atoms -> Truths]
          PROVE  Verdict(u[k + 1], atoms) = Connected(c, vs(k + 1, atoms))
      <4>1. Verdict(a, atoms) = Connected(c, vs(k, atoms))
        BY <3>1
      <4>2. Verdict(b, atoms) = v(k + 1, atoms) /\ v(k + 1, atoms) \in Truths
        BY <1>2, <2>1
      <4>3. vs(k + 1, atoms) = vs(k, atoms) \cup {v(k + 1, atoms)}
        <5>1. 1..(k + 1) = 1..k \cup {k + 1}
          OBVIOUS
        <5> QED
          BY <5>1
      <4>4. vs(k, atoms) \in SUBSET Truths
        <5>1. \A j \in 1..k : j \in 1..n
          BY <1>1
        <5> QED
          BY <1>2, <5>1
      <4> HIDE DEF a, b, vs, Good
      <4>5. CASE c.is = "and"
        <5>1. Verdict(u[k + 1], atoms) = And(Verdict(a, atoms), Verdict(b, atoms))
          BY <3>2, <3>3, <4>5, JoinedByAnd
        <5> QED
          BY <4>1, <4>2, <4>3, <4>4, <4>5, <5>1, AllAndAny DEF Connected
      <4>6. CASE c.is = "or"
        <5>1. Verdict(u[k + 1], atoms) = Or(Verdict(a, atoms), Verdict(b, atoms))
          BY <3>2, <3>3, <4>6, JoinedByOr
        <5> QED
          BY <4>1, <4>2, <4>3, <4>4, <4>6, <5>1, AllAndAny DEF Connected
      <4> QED
        BY <1>1, <4>5, <4>6
    <3> QED
      BY <2>1, <3>4, <3>5, <3>6
  <2> QED
    BY <2>2, <2>3
<1>6. 0..n \subseteq I
  <2>1. 0 \in I /\ n \in Nat
    BY <1>1
  <2> HIDE DEF I
  <2> QED
    BY <1>5, <2>1, Induction
<1>7. Good(n)
  <2>1. n \in I /\ n # 0
    <3>1. n \in 0..n
      BY <1>1
    <3> HIDE DEF I
    <3> QED
      BY <1>1, <1>6, <3>1
  <2> HIDE DEF Good
  <2> QED
    BY <2>1
<1> QED
  BY <1>1, <1>4, <1>7 DEF v

(* The texts of conditions: they nest as the conditions do. *)
LEMMA TextsNest ==
  /\ BuildLogical[Anything] = <<>>
  /\ \A c \in Conditions \ {Anything} :
       /\ BuildLogical[c] # <<>> /\ Balanced(BuildLogical[c])
       /\ c.is # "or" => Outer(BuildLogical[c], "or") = {}
       /\ \A atoms \in [Atoms -> Truths] :
            /\ c.is = "compare" =>
                 Verdict(BuildLogical[c], atoms) = atoms[Condition(c.field, c.op, c.val)]
            /\ c.is = "not" =>
                 Verdict(BuildLogical[c], atoms) = Not(Verdict(BuildLogical[c.parts[1]], atoms))
            /\ c.is \in Joiners =>
                 Verdict(BuildLogical[c], atoms)
                   = Connected(c, {Verdict(BuildLogical[c.parts[k]], atoms) : k \in DOMAIN c.parts})
<1>1. BuildLogical[Anything] = <<>>
  <2>1. Anything.is \in Joiners /\ Len(Anything.parts) = 0 /\ Anything \in Conditions
    BY AnythingFacts, EmptySeq DEF Joiners
  <2> QED
    BY <2>1, BuildLogicalFacts, NothingJoined
<1> DEFINE OK(c) ==
       /\ BuildLogical[c] # <<>> /\ Balanced(BuildLogical[c])
       /\ c.is # "or" => Outer(BuildLogical[c], "or") = {}
       /\ \A atoms \in [Atoms -> Truths] :
            /\ c.is = "compare" =>
                 Verdict(BuildLogical[c], atoms) = atoms[Condition(c.field, c.op, c.val)]
            /\ c.is = "not" =>
                 Verdict(BuildLogical[c], atoms) = Not(Verdict(BuildLogical[c.parts[1]], atoms))
            /\ c.is \in Joiners =>
                 Verdict(BuildLogical[c], atoms)
                   = Connected(c, {Verdict(BuildLogical[c.parts[k]], atoms) : k \in DOMAIN c.parts})
           P == {c \in Conditions : c = Anything \/ OK(c)}
<1>2. ASSUME NEW c \in Conditions, \A r \in Conditions : Height[r] < Height[c] => r \in P,
             c # Anything
      PROVE  OK(c)
  <2>1. CASE c.is = "compare"
    <3>1. BuildLogical[c] = <<Condition(c.field, c.op, c.val)>> /\ Condition(c.field, c.op, c.val) \in Atoms
      BY <2>1, BuildLogicalFacts, Comparisons
    <3> QED
      BY <2>1, <3>1, AtomFacts DEF Joiners
  <2>2. CASE c.is = "not"
    <3> DEFINE d == c.parts[1]
    <3>1. d \in Conditions /\ d # Anything /\ Height[d] < Height[c]
      BY <2>2, Connectives
    <3>2. Balanced(BuildLogical[d])
      BY <1>2, <3>1
    <3>3. BuildLogical[c] = <<Token("not")>> \o Enclosed(BuildConditional(d, BuildLogical))
      BY <2>2, BuildLogicalFacts
    <3> HIDE DEF d
    <3>4. /\ BuildConditional(d, BuildLogical) \in Seq(Tokens)
          /\ Balanced(BuildConditional(d, BuildLogical))
          /\ \A atoms \in [Atoms -> Truths] :
               Verdict(BuildConditional(d, BuildLogical), atoms) = Verdict(BuildLogical[d], atoms)
      BY <3>1, <3>2, PartsStand
    <3>5. /\ BuildLogical[c] # <<>> /\ Balanced(BuildLogical[c]) /\ Outer(BuildLogical[c], "or") = {}
          /\ \A atoms \in [Atoms -> Truths] :
               Verdict(BuildLogical[c], atoms) = Not(Verdict(BuildConditional(d, BuildLogical), atoms))
      BY <3>3, <3>4, NotFacts DEF Joiners
    <3> QED
      BY <2>2, <3>4, <3>5 DEF d, Joiners
  <2>3. CASE c.is \notin {"compare", "not"}
    <3>1. c.is \in Joiners
      BY <2>3, Connectives DEF Joiners
    <3>2. \A k \in DOMAIN c.parts : Balanced(BuildLogical[c.parts[k]])
      <4>1. ASSUME NEW k \in DOMAIN c.parts PROVE c.parts[k] \in P /\ c.parts[k] # Anything
        <5> HIDE DEF P
        <5> QED
          BY <1>2, <2>3, Connectives
      <4> QED
        BY <4>1
    <3>3. c.is # "or" => c.is = "and"
      BY <3>1 DEF Joiners
    <3> QED
      BY <1>2, <2>3, <3>1, <3>2, <3>3, JoinedTruth
  <2> QED
    BY <2>1, <2>2, <2>3
<1>3. Conditions \subseteq P
  <2> HIDE DEF OK
  <2>1. ASSUME NEW c \in Conditions, \A r \in Conditions : Height[r] < Height[c] => r \in P
        PROVE  c \in P
    BY <1>2, <2>1
  <2> HIDE DEF P
  <2> QED
    BY <2>1, AnythingFacts, HeightInduction
<1> QED
  BY <1>1, <1>3
-----------------------------------------------------------------------------
(* Two texts, one behind the other, are refused for what is in either. *)
LEMMA RefusedOfJoined ==
  ASSUME NEW s \in Seq(Tokens), NEW u \in Seq(Tokens), NEW joined, NEW fails
  PROVE  RefusedIf(s \o u, joined, fails) <=> RefusedIf(s, joined, fails) \/ RefusedIf(u, joined, fails)
<1> DEFINE w == s \o u
           Bad(a) == a.t = "atom" /\ RefusedAtom(a, joined, fails)
<1>1. /\ w \in Seq(Tokens) /\ Len(w) = Len(s) + Len(u) /\ Len(s) \in Nat /\ Len(u) \in Nat
      /\ \A k \in 1..Len(s) : w[k] = s[k]
      /\ \A k \in 1..Len(u) : w[Len(s) + k] = u[k]
  BY ConcatFacts
<1> HIDE DEF w
<1>2. DOMAIN s = 1..Len(s) /\ DOMAIN u = 1..Len(u) /\ DOMAIN w = 1..Len(w)
  BY <1>1, LenProperties
<1>3. \A x : RefusedIf(x, joined, fails) <=> \E k \in DOMAIN x : Bad(x[k])
  BY DEF RefusedIf
<1> HIDE DEF Bad
<1>4. ASSUME NEW k \in DOMAIN w, Bad(w[k])
      PROVE  (\E j \in DOMAIN s : Bad(s[j])) \/ (\E j \in DOMAIN u : Bad(u[j]))
  <2>1. CASE k <= Len(s)
    <3>1. k \in 1..Len(s)
      BY <1>1, <1>2, <2>1
    <3> QED
      BY <1>1, <1>2, <1>4, <3>1
  <2>2. CASE k > Len(s)
    <3>1. k - Len(s) \in 1..Len(u) /\ k = Len(s) + (k - Len(s))
      BY <1>1, <1>2, <2>2
    <3>2. Bad(u[k - Len(s)])
      BY <1>1, <1>4, <3>1
    <3> QED
      BY <1>2, <3>1, <3>2
  <2> QED
    BY <1>1, <1>2, <2>1, <2>2
<1>5. ASSUME NEW k \in DOMAIN s, Bad(s[k]) PROVE \E j \in DOMAIN w : Bad(w[j])
  <2>1. k \in DOMAIN w /\ w[k] = s[k]
    BY <1>1, <1>2
  <2> QED
    BY <1>5, <2>1
<1>6. ASSUME NEW k \in DOMAIN u, Bad(u[k]) PROVE \E j \in DOMAIN w : Bad(w[j])
  <2>1. Len(s) + k \in DOMAIN w /\ w[Len(s) + k] = u[k]
    BY <1>1, <1>2
  <2> QED
    BY <1>6, <2>1
<1> QED
  BY <1>3, <1>4, <1>5, <1>6 DEF w

(* No operator and no parenthesis is refused. *)
LEMMA RefusedTokens ==
  ASSUME NEW joined, NEW fails
  PROVE  /\ ~RefusedIf(<<>>, joined, fails)
         /\ \A a \in Atoms : RefusedIf(<<a>>, joined, fails) <=> RefusedAtom(a, joined, fails)
         /\ \A t \in {"and", "or", "not", "(", ")"} : ~RefusedIf(<<Token(t)>>, joined, fails)
<1>1. \A a : DOMAIN <<a>> = {1} /\ <<a>>[1] = a
  OBVIOUS
<1>2. \A t \in {"and", "or", "not", "(", ")"} : Token(t).t # "atom"
  BY TokenFacts
<1>3. DOMAIN <<>> = {}
  OBVIOUS
<1>4. \A a : RefusedIf(<<a>>, joined, fails) <=> a.t = "atom" /\ RefusedAtom(a, joined, fails)
  <2>1. TAKE a
  <2> DEFINE w == <<a>>
  <2>2. DOMAIN w = {1} /\ w[1] = a
    OBVIOUS
  <2> HIDE DEF w
  <2>3. RefusedIf(w, joined, fails) <=> w[1].t = "atom" /\ RefusedAtom(w[1], joined, fails)
    BY <2>2 DEF RefusedIf
  <2> QED
    BY <2>2, <2>3 DEF w
<1>5. ~RefusedIf(<<>>, joined, fails)
  BY <1>3 DEF RefusedIf
<1> QED
  BY <1>2, <1>4, <1>5, TokenFacts

(* A part is refused in parentheses or without. *)
LEMMA RefusedParts ==
  ASSUME NEW c \in Conditions, NEW joined, NEW fails
  PROVE  RefusedIf(BuildConditional(c, BuildLogical), joined, fails)
           <=> RefusedIf(BuildLogical[c], joined, fails)
<1>1. BuildLogical[c] \in Seq(Tokens)
  BY BuildLogicalFacts
<1>2. <<Token("(")>> \in Seq(Tokens) /\ <<Token(")")>> \in Seq(Tokens)
  BY OneToken, TokenFacts
<1>3. <<Token("(")>> \o BuildLogical[c] \in Seq(Tokens)
  BY <1>1, <1>2, ConcatFacts
<1>4. RefusedIf(Enclosed(BuildLogical[c]), joined, fails) <=> RefusedIf(BuildLogical[c], joined, fails)
  <2>1. RefusedIf(<<Token("(")>> \o BuildLogical[c], joined, fails)
          <=> RefusedIf(<<Token("(")>>, joined, fails) \/ RefusedIf(BuildLogical[c], joined, fails)
    BY <1>1, <1>2, RefusedOfJoined
  <2>2. RefusedIf(Enclosed(BuildLogical[c]), joined, fails)
          <=> RefusedIf(<<Token("(")>> \o BuildLogical[c], joined, fails)
              \/ RefusedIf(<<Token(")")>>, joined, fails)
    BY <1>2, <1>3, RefusedOfJoined DEF Enclosed
  <2> QED
    BY <2>1, <2>2, RefusedTokens
<1> QED
  BY <1>4 DEF BuildConditional

(* A text is refused for one of its comparisons. *)
LEMMA RefusedOfText ==
  ASSUME NEW c \in Conditions, NEW joined, NEW fails
  PROVE  /\ c.is = "compare" =>
              (RefusedIf(BuildLogical[c], joined, fails)
                 <=> RefusedAtom(Condition(c.field, c.op, c.val), joined, fails))
         /\ c.is # "compare" =>
              (RefusedIf(BuildLogical[c], joined, fails)
                 <=> \E k \in DOMAIN c.parts : RefusedIf(BuildLogical[c.parts[k]], joined, fails))
<1> DEFINE Bad(ts) == RefusedIf(ts, joined, fails)
<1>1. CASE c.is = "compare"
  <2>1. BuildLogical[c] = <<Condition(c.field, c.op, c.val)>> /\ Condition(c.field, c.op, c.val) \in Atoms
    BY <1>1, BuildLogicalFacts, Comparisons
  <2> QED
    BY <1>1, <2>1, RefusedTokens
<1>2. CASE c.is = "not"
  <2> DEFINE d == c.parts[1]
             b == BuildConditional(d, BuildLogical)
  <2>1. d \in Conditions /\ DOMAIN c.parts = {1}
    BY <1>2, Connectives, LenProperties
  <2>2. BuildLogical[c] = <<Token("not")>> \o Enclosed(b)
    BY <1>2, BuildLogicalFacts
  <2> HIDE DEF d
  <2>3. b \in Seq(Tokens) /\ (Bad(b) <=> Bad(BuildLogical[d]))
    BY <2>1, BuildLogicalFacts, PartFacts, RefusedParts
  <2> HIDE DEF b
  <2>4. /\ <<Token("not")>> \in Seq(Tokens) /\ <<Token("(")>> \in Seq(Tokens)
        /\ <<Token(")")>> \in Seq(Tokens)
    BY OneToken, TokenFacts
  <2>5. <<Token("(")>> \o b \in Seq(Tokens) /\ Enclosed(b) \in Seq(Tokens)
    <3>1. <<Token("(")>> \o b \in Seq(Tokens)
      BY <2>3, <2>4, ConcatFacts
    <3>2. (<<Token("(")>> \o b) \o <<Token(")")>> \in Seq(Tokens)
      BY <2>4, <3>1, ConcatFacts
    <3> QED
      BY <3>1, <3>2 DEF Enclosed
  <2>6. Bad(<<Token("(")>> \o b) <=> Bad(<<Token("(")>>) \/ Bad(b)
    BY <2>3, <2>4, RefusedOfJoined
  <2>7. Bad(Enclosed(b)) <=> Bad(<<Token("(")>> \o b) \/ Bad(<<Token(")")>>)
    BY <2>4, <2>5, RefusedOfJoined DEF Enclosed
  <2>8. Bad(BuildLogical[c]) <=> Bad(<<Token("not")>>) \/ Bad(Enclosed(b))
    <3>1. PICK u \in Seq(Tokens) : u = Enclosed(b)
      BY <2>5
    <3>2. Bad(<<Token("not")>> \o u) <=> Bad(<<Token("not")>>) \/ Bad(u)
      BY <2>4, RefusedOfJoined
    <3> QED
      BY <2>2, <3>1, <3>2
  <2>9. Bad(BuildLogical[c]) <=> Bad(BuildLogical[d])
    BY <2>3, <2>6, <2>7, <2>8, RefusedTokens
  <2> QED
    BY <1>2, <2>1, <2>9 DEF d
<1>3. CASE c.is \in Joiners /\ Len(c.parts) = 0
  <2>1. BuildLogical[c] = <<>>
    BY <1>3, BuildLogicalFacts, NothingJoined
  <2>2. c.is # "compare" /\ DOMAIN c.parts = {}
    <3>1. c.is # "compare"
      BY <1>3 DEF Joiners
    <3>2. DOMAIN c.parts = 1..0
      BY <1>3, <3>1, Connectives, LenProperties
    <3> QED
      BY <3>1, <3>2
  <2> QED
    BY <2>1, <2>2, RefusedTokens
<1>4. CASE c.is \in Joiners /\ Len(c.parts) # 0
  <2> DEFINE n == Len(c.parts)
             B(k) == BuildConditional(c.parts[k], BuildLogical)
  <2>1. /\ n \in Nat \ {0} /\ DOMAIN c.parts = 1..n /\ c.is # "compare"
        /\ \A k \in 1..n : c.parts[k] \in Conditions
    <3>1. c.is # "compare"
      BY <1>4 DEF Joiners
    <3>2. n \in Nat /\ DOMAIN c.parts = 1..n
      BY <3>1, Connectives, LenProperties
    <3> QED
      BY <1>4, <3>1, <3>2, Connectives
  <2>2. \A k \in 1..n : B(k) \in Seq(Tokens) /\ (Bad(B(k)) <=> Bad(BuildLogical[c.parts[k]]))
    <3>1. ASSUME NEW k \in 1..n
          PROVE  B(k) \in Seq(Tokens) /\ (Bad(B(k)) <=> Bad(BuildLogical[c.parts[k]]))
      BY <2>1, BuildLogicalFacts, PartFacts, RefusedParts
    <3> QED
      BY <3>1
  <2>3. PICK u : JoinsUp(u, c, BuildLogical)
    BY <1>4, <2>1, <2>2, JoinedTextSteps
  <2>4. /\ u \in [1..n -> Seq(Tokens)] /\ BuildLogical[c] = u[n] /\ u[1] = B(1)
        /\ \A k \in 2..n : u[k] = Between(u[k - 1], c.is, B(k))
    BY <1>4, <2>3, BuildLogicalFacts DEF JoinsUp
  <2>5. <<Token(c.is)>> \in Seq(Tokens) /\ ~Bad(<<Token(c.is)>>)
    BY <1>4, OneToken, TokenFacts, RefusedTokens DEF Joiners
  <2> HIDE DEF n, B, Bad
  <2> DEFINE Good(k) == Bad(u[k]) <=> \E j \in 1..k : Bad(B(j))
             I == {k \in 0..n : k = 0 \/ Good(k)}
  <2>6. ASSUME NEW k \in 0..(n - 1), k \in I PROVE k + 1 \in I
    <3>1. k + 1 \in 1..n /\ k + 1 \in 0..n
      BY <2>1
    <3>2. CASE k = 0
      <4>1. 1..1 = {1}
        OBVIOUS
      <4>2. u[1] = B(1)
        BY <2>4
      <4>3. Good(1)
        BY <4>1, <4>2
      <4> HIDE DEF Good
      <4> QED
        BY <3>1, <3>2, <4>3
    <3>3. CASE k # 0
      <4>1. k + 1 \in 2..n /\ (k + 1) - 1 = k /\ k \in 1..n /\ Good(k)
        <5> HIDE DEF Good
        <5> QED
          BY <2>1, <2>6, <3>3
      <4>2. u[k + 1] = u[k] \o <<Token(c.is)>> \o B(k + 1)
        BY <2>4, <4>1 DEF Between
      <4>3. u[k] \in Seq(Tokens) /\ B(k + 1) \in Seq(Tokens)
        BY <2>2, <2>4, <3>1, <4>1
      <4>4. u[k] \o <<Token(c.is)>> \in Seq(Tokens)
        BY <2>5, <4>3, ConcatFacts
      <4>5. Bad(u[k] \o <<Token(c.is)>>) <=> Bad(u[k]) \/ Bad(<<Token(c.is)>>)
        BY <2>5, <4>3, RefusedOfJoined DEF Bad
      <4>6. Bad(u[k + 1]) <=> Bad(u[k] \o <<Token(c.is)>>) \/ Bad(B(k + 1))
        <5> DEFINE x == u[k] \o <<Token(c.is)>>
                   b == B(k + 1)
        <5>1. x \in Seq(Tokens) /\ b \in Seq(Tokens) /\ u[k + 1] = x \o b
          BY <4>2, <4>3, <4>4
        <5> HIDE DEF x, b
        <5>2. Bad(x \o b) <=> Bad(x) \/ Bad(b)
          BY <5>1, RefusedOfJoined DEF Bad
        <5> QED
          BY <5>1, <5>2 DEF x, b
      <4>7. 1..(k + 1) = 1..k \cup {k + 1}
        BY <2>1
      <4>8. Good(k + 1)
        BY <2>5, <4>1, <4>5, <4>6, <4>7
      <4> HIDE DEF Good
      <4> QED
        BY <3>1, <4>8
    <3> QED
      BY <3>2, <3>3
  <2>7. Good(n)
    <3>1. 0 \in I /\ n \in Nat /\ n \in 0..n /\ n # 0
      BY <2>1
    <3> HIDE DEF Good
    <3>2. 0..n \subseteq I
      <4> HIDE DEF I
      <4> QED
        BY <2>6, <3>1, Induction
    <3> QED
      BY <3>1, <3>2
  <2>8. Bad(BuildLogical[c]) <=> \E k \in DOMAIN c.parts : Bad(BuildLogical[c.parts[k]])
    BY <2>1, <2>2, <2>4, <2>7
  <2> QED
    BY <2>1, <2>8 DEF Bad
<1>5. c.is = "compare" \/ c.is = "not" \/ c.is \in Joiners
  BY Connectives DEF Joiners
<1> QED
  BY <1>1, <1>2, <1>3, <1>4, <1>5
-----------------------------------------------------------------------------
(* Every comparison has a truth of every row. *)
LEMMA AtomsHaveTruths ==
  ASSUME NEW i, NEW found
  PROVE  /\ OfAtoms(i, found) \in [Atoms -> Truths]
         /\ \A a \in Atoms : OfAtoms(i, found)[a] = OfAtom(a, i, found)
BY AtomsAreTrueOrNot DEF OfAtoms

(* A condition's truth asks for nothing but the rows that lower conditions find. *)
LEMMA TruthLooksBelow ==
  ASSUME NEW f, NEW g, NEW i
  PROVE  \A c \in Conditions \ {Anything} :
           (\A r \in Conditions : Height[r] < Height[c] => f[r] = g[r]) =>
             Verdict(BuildLogical[c], OfAtoms(i, f)) = Verdict(BuildLogical[c], OfAtoms(i, g))
<1> DEFINE Below2(c) == \A r \in Conditions : Height[r] < Height[c] => f[r] = g[r]
           V(c, h) == Verdict(BuildLogical[c], OfAtoms(i, h))
           P == {c \in Conditions : c # Anything /\ Below2(c) => V(c, f) = V(c, g)}
<1>1. ASSUME NEW c \in Conditions, \A r \in Conditions : Height[r] < Height[c] => r \in P,
             c # Anything, Below2(c)
      PROVE  V(c, f) = V(c, g)
  <2>1. OfAtoms(i, f) \in [Atoms -> Truths] /\ OfAtoms(i, g) \in [Atoms -> Truths]
    BY AtomsHaveTruths
  <2>2. CASE c.is = "compare"
    <3> DEFINE a == Condition(c.field, c.op, c.val)
    <3>1. /\ a \in Atoms
          /\ c.val.as = "rows" => c.val.where \in Conditions /\ Height[c.val.where] < Height[c]
      BY <2>2, Comparisons
    <3>2. a.arg = c.val
      BY DEF Condition, Atom
    <3>3. V(c, f) = OfAtoms(i, f)[a] /\ V(c, g) = OfAtoms(i, g)[a]
      BY <1>1, <2>1, <2>2, TextsNest
    <3> HIDE DEF a
    <3>4. c.val.as = "rows" => f[c.val.where] = g[c.val.where]
      BY <1>1, <3>1
    <3>5. OfAtom(a, i, f) = OfAtom(a, i, g)
      BY <3>2, <3>4 DEF OfAtom
    <3> HIDE DEF V
    <3> QED
      BY <3>1, <3>3, <3>5, AtomsHaveTruths
  <2>3. CASE c.is # "compare"
    <3>1. \A k \in DOMAIN c.parts : V(c.parts[k], f) = V(c.parts[k], g)
      <4>1. ASSUME NEW k \in DOMAIN c.parts PROVE V(c.parts[k], f) = V(c.parts[k], g)
        <5> DEFINE d == c.parts[k]
        <5>1. d \in Conditions /\ d # Anything /\ Height[d] < Height[c]
          BY <2>3, Connectives
        <5> HIDE DEF d, V
        <5>2. \A r \in Conditions : Height[r] < Height[d] => Height[r] < Height[c]
          BY <5>1, AnythingFacts
        <5>3. Below2(d)
          BY <1>1, <5>2
        <5>4. d \in P
          BY <1>1, <5>1
        <5>5. V(d, f) = V(d, g)
          BY <5>1, <5>3, <5>4
        <5> QED
          BY <5>5 DEF d
      <4> QED
        BY <4>1
    <3>2. CASE c.is = "not"
      <4>1. V(c, f) = Not(V(c.parts[1], f)) /\ V(c, g) = Not(V(c.parts[1], g))
        BY <1>1, <2>1, <3>2, TextsNest
      <4>2. 1 \in DOMAIN c.parts
        BY <3>2, Connectives
      <4> HIDE DEF V
      <4> QED
        BY <3>1, <4>1, <4>2
    <3>3. CASE c.is \in Joiners
      <4>1. /\ V(c, f) = Connected(c, {V(c.parts[k], f) : k \in DOMAIN c.parts})
            /\ V(c, g) = Connected(c, {V(c.parts[k], g) : k \in DOMAIN c.parts})
        BY <1>1, <2>1, <3>3, TextsNest
      <4> HIDE DEF V
      <4>2. {V(c.parts[k], f) : k \in DOMAIN c.parts} = {V(c.parts[k], g) : k \in DOMAIN c.parts}
        BY <3>1
      <4> QED
        BY <4>1, <4>2
    <3>4. c.is = "not" \/ c.is \in Joiners
      BY <2>3, Connectives DEF Joiners
    <3> QED
      BY <3>2, <3>3, <3>4
  <2> QED
    BY <2>2, <2>3
<1>2. Conditions \subseteq P
  <2> HIDE DEF V, Below2
  <2>1. ASSUME NEW c \in Conditions, \A r \in Conditions : Height[r] < Height[c] => r \in P
        PROVE  c \in P
    BY <1>1, <2>1
  <2> HIDE DEF P
  <2> QED
    BY <2>1, AnythingFacts, HeightInduction
<1> QED
  BY <1>2

(* The rows found are those of the definition: it looks at lower conditions only. *)
LEMMA FindsFacts ==
  /\ Finds \in [Conditions -> SUBSET DOMAIN rows]
  /\ \A c \in Conditions :
       Finds[c] = {i \in DOMAIN rows : c = Anything \/ Verdict(BuildLogical[c], OfAtoms(i, Finds)) = "T"}
<1> DEFINE body(c, f) ==
             {i \in DOMAIN rows : c = Anything \/ Verdict(BuildLogical[c], OfAtoms(i, f)) = "T"}
           S == Conditions
           T == SUBSET DOMAIN rows
           step == [f \in [S -> T] |-> [c \in S |-> body(c, f)]]
<1>1. \A c, f : body(c, f) \in T
  OBVIOUS
<1>2. Finds = CHOOSE f : f = [c \in S |-> body(c, f)]
  BY DEF Finds
<1>3. ASSUME NEW c \in S, NEW f, NEW g, \A r \in S : Height[r] < Height[c] => f[r] = g[r]
      PROVE  body(c, f) = body(c, g)
  BY <1>3, TruthLooksBelow
<1> HIDE DEF body, T
<1>4. \A f \in [S -> T], c \in S : step[f][c] = body(c, f)
  OBVIOUS
<1>5. step \in [[S -> T] -> [S -> T]]
  BY <1>1
<1> HIDE DEF step
<1>6. T # {} /\ Height \in [S -> Nat]
  BY AnythingFacts DEF T
<1>7. Recursive(S, T, Height, step)
  BY <1>3, <1>4, <1>5, <1>6 DEF Recursive
<1>8. PICK f \in [S -> T] : f = step[f]
  BY <1>7, Recursion
<1>9. f = [c \in S |-> body(c, f)]
  BY <1>4, <1>8
<1>10. Finds = [c \in S |-> body(c, Finds)]
  BY <1>2, <1>9
<1>11. Finds \in [S -> T] /\ \A c \in S : Finds[c] = body(c, Finds)
  BY <1>1, <1>10
<1> QED
  BY <1>11 DEF body, T

(* Whether a text is refused asks for nothing but whether those of lower conditions are. *)
LEMMA RefusalLooksBelow ==
  ASSUME NEW f, NEW g
  PROVE  \A c \in Conditions :
           (\A r \in Conditions : Height[r] < Height[c] => f[r] = g[r]) =>
             (RefusedIf(BuildLogical[c], FALSE, f) <=> RefusedIf(BuildLogical[c], FALSE, g))
<1> DEFINE Same(c) == \A r \in Conditions : Height[r] < Height[c] => f[r] = g[r]
           V(c, h) == RefusedIf(BuildLogical[c], FALSE, h)
           P == {c \in Conditions : Same(c) => (V(c, f) <=> V(c, g))}
<1>1. ASSUME NEW c \in Conditions, \A r \in Conditions : Height[r] < Height[c] => r \in P, Same(c)
      PROVE  V(c, f) <=> V(c, g)
  <2>1. CASE c.is = "compare"
    <3> DEFINE a == Condition(c.field, c.op, c.val)
    <3>1. c.val.as = "rows" => c.val.where \in Conditions /\ Height[c.val.where] < Height[c]
      BY <2>1, Comparisons
    <3>2. a.arg = c.val
      BY DEF Condition, Atom
    <3>3. \A h : V(c, h) <=> RefusedAtom(a, FALSE, h)
      BY <2>1, RefusedOfText
    <3> HIDE DEF a
    <3>4. c.val.as = "rows" => f[c.val.where] = g[c.val.where]
      BY <1>1, <3>1
    <3>5. RefusedAtom(a, FALSE, f) <=> RefusedAtom(a, FALSE, g)
      BY <3>2, <3>4 DEF RefusedAtom
    <3> HIDE DEF V
    <3> QED
      BY <3>3, <3>5
  <2>2. CASE c.is # "compare"
    <3>1. \A k \in DOMAIN c.parts : V(c.parts[k], f) <=> V(c.parts[k], g)
      <4>1. ASSUME NEW k \in DOMAIN c.parts PROVE V(c.parts[k], f) <=> V(c.parts[k], g)
        <5> DEFINE d == c.parts[k]
        <5>1. d \in Conditions /\ Height[d] < Height[c]
          BY <2>2, Connectives
        <5> HIDE DEF d, V
        <5>2. \A r \in Conditions : Height[r] < Height[d] => Height[r] < Height[c]
          BY <5>1, AnythingFacts
        <5>3. Same(d)
          BY <1>1, <5>2
        <5>4. d \in P
          BY <1>1, <5>1
        <5>5. V(d, f) <=> V(d, g)
          BY <5>3, <5>4
        <5> QED
          BY <5>5 DEF d
      <4> QED
        BY <4>1
    <3>2. \A h : V(c, h) <=> \E k \in DOMAIN c.parts : V(c.parts[k], h)
      BY <2>2, RefusedOfText
    <3> HIDE DEF V
    <3> QED
      BY <3>1, <3>2
  <2> QED
    BY <2>1, <2>2
<1>2. Conditions \subseteq P
  <2> HIDE DEF V, Same
  <2>1. ASSUME NEW c \in Conditions, \A r \in Conditions : Height[r] < Height[c] => r \in P
        PROVE  c \in P
    BY <1>1, <2>1
  <2> HIDE DEF P
  <2> QED
    BY <2>1, AnythingFacts, HeightInduction
<1> QED
  BY <1>2

(* What fails is what the definition says. *)
LEMMA FailsFacts ==
  /\ Fails \in [Conditions -> BOOLEAN]
  /\ \A c \in Conditions : Fails[c] = RefusedIf(BuildLogical[c], FALSE, Fails)
<1> DEFINE body(c, f) == RefusedIf(BuildLogical[c], FALSE, f)
           S == Conditions
           T == BOOLEAN
           step == [f \in [S -> T] |-> [c \in S |-> body(c, f)]]
<1>1. \A c, f : body(c, f) \in T
  BY DEF RefusedIf
<1>2. Fails = CHOOSE f : f = [c \in S |-> body(c, f)]
  BY DEF Fails
<1>3. ASSUME NEW c \in S, NEW f, NEW g, \A r \in S : Height[r] < Height[c] => f[r] = g[r]
      PROVE  body(c, f) = body(c, g)
  BY <1>1, <1>3, RefusalLooksBelow
<1> HIDE DEF body, T
<1>4. \A f \in [S -> T], c \in S : step[f][c] = body(c, f)
  OBVIOUS
<1>5. step \in [[S -> T] -> [S -> T]]
  BY <1>1
<1> HIDE DEF step
<1>6. T # {} /\ Height \in [S -> Nat]
  BY AnythingFacts DEF T
<1>7. Recursive(S, T, Height, step)
  BY <1>3, <1>4, <1>5, <1>6 DEF Recursive
<1>8. PICK f \in [S -> T] : f = step[f]
  BY <1>7, Recursion
<1>9. f = [c \in S |-> body(c, f)]
  BY <1>4, <1>8
<1>10. Fails = [c \in S |-> body(c, Fails)]
  BY <1>2, <1>9
<1>11. Fails \in [S -> T] /\ \A c \in S : Fails[c] = body(c, Fails)
  BY <1>1, <1>10
<1> QED
  BY <1>11 DEF body, T

(* Conditions mean what the definition says: it looks at lower conditions only. *)
LEMMA MeaningFacts ==
  /\ Meaning \in [Conditions -> [DOMAIN rows -> Truths]]
  /\ \A c \in Conditions, i \in DOMAIN rows : Meaning[c][i] = MeaningOf(c, i, Meaning)
<1> DEFINE body(c, f) == [i \in DOMAIN rows |-> MeaningOf(c, i, f)]
           S == Conditions
           T == [DOMAIN rows -> Truths]
           step == [f \in [S -> T] |-> [c \in S |-> body(c, f)]]
<1>0. \A c, i, f : MeaningOf(c, i, f) \in Truths
  <2>1. TAKE c, i, f
  <2> DEFINE v == Column(i, c.field)
             values == ValuesOf(c.val)
             linked == {rows[j].ref : j \in {j \in DOMAIN rows : f[c.val.where][j] = "T"}} \ {Null}
             among == Among(v, IF c.val.as = "rows" THEN linked ELSE values)
             truths == {f[c.parts[k]][i] : k \in DOMAIN c.parts}
             compared == CASE c.op = "=" -> v \in values [] c.op = "!=" -> v \notin values
                           [] OTHER -> \A w \in values : Below(v, w)
  <2>2. among \in Truths
    <3> HIDE DEF v, values, linked
    <3> QED
      BY TruthsStay
  <2> HIDE DEF v, values, linked, among, truths, compared
  <2>3. MeaningOf(c, i, f) =
          IF c.is = "not" THEN Not(f[c.parts[1]][i])
          ELSE IF c.is = "and" THEN AllOf(truths)
          ELSE IF c.is = "or" THEN AnyOf(truths)
          ELSE IF IsNull(c.val) THEN Truth((v = Null) = (c.op = "="))
          ELSE IF c.op = "IN" THEN among
          ELSE IF c.op = "NOT IN" THEN Not(among)
          ELSE IF v = Null THEN "U"
          ELSE Truth(compared)
    BY DEF MeaningOf, v, values, linked, among, truths, compared
  <2>4. "U" \in Truths
    BY DEF Truths
  <2> QED
    BY <2>2, <2>3, <2>4, TruthsStay
<1>1. \A c, f : body(c, f) \in T
  BY <1>0
<1>2. Meaning = CHOOSE f : f = [c \in S |-> body(c, f)]
  BY DEF Meaning
<1>3. ASSUME NEW c \in S, NEW f, NEW g, \A r \in S : Height[r] < Height[c] => f[r] = g[r]
      PROVE  body(c, f) = body(c, g)
  <2>1. ASSUME NEW i \in DOMAIN rows PROVE MeaningOf(c, i, f) = MeaningOf(c, i, g)
    <3>1. CASE c.is = "compare"
      <4>1. c.val.as = "rows" => f[c.val.where] = g[c.val.where]
        BY <1>3, <3>1, Comparisons
      <4> QED
        BY <3>1, <4>1 DEF MeaningOf
    <3>2. CASE c.is # "compare"
      <4>1. \A k \in DOMAIN c.parts : f[c.parts[k]] = g[c.parts[k]]
        BY <1>3, <3>2, Connectives
      <4>2. c.is = "not" => 1 \in DOMAIN c.parts
        BY <3>2, Connectives
      <4>3. {f[c.parts[k]][i] : k \in DOMAIN c.parts} = {g[c.parts[k]][i] : k \in DOMAIN c.parts}
        BY <4>1
      <4>4. c.is \in {"not", "and", "or"}
        BY <3>2, Connectives
      <4> QED
        BY <4>1, <4>2, <4>3, <4>4 DEF MeaningOf
    <3> QED
      BY <3>1, <3>2
  <2> QED
    BY <2>1
<1> HIDE DEF body, T
<1>4. \A f \in [S -> T], c \in S : step[f][c] = body(c, f)
  OBVIOUS
<1>5. step \in [[S -> T] -> [S -> T]]
  BY <1>1
<1> HIDE DEF step
<1>6. T # {} /\ Height \in [S -> Nat]
  <2>1. [i \in DOMAIN rows |-> "T"] \in T
    BY DEF T, Truths
  <2> QED
    BY <2>1, AnythingFacts
<1>7. Recursive(S, T, Height, step)
  BY <1>3, <1>4, <1>5, <1>6 DEF Recursive
<1>8. PICK f \in [S -> T] : f = step[f]
  BY <1>7, Recursion
<1>9. f = [c \in S |-> body(c, f)]
  BY <1>4, <1>8
<1>10. Meaning = [c \in S |-> body(c, Meaning)]
  BY <1>2, <1>9
<1>11. Meaning \in [S -> T] /\ \A c \in S : Meaning[c] = body(c, Meaning)
  BY <1>1, <1>10
<1> QED
  BY <1>11 DEF body, T

(* Loose conditions are those of the definition. *)
LEMMA LooseFacts ==
  /\ Loose \in [Conditions -> BOOLEAN]
  /\ \A c \in Conditions :
       Loose[c] = IF c.is = "compare" THEN c.val.as = "rows" /\ Null \in Selected(c.val.where)
             ELSE \E k \in DOMAIN c.parts : Loose[c.parts[k]]
<1> DEFINE body(c, f) ==
             IF c.is = "compare" THEN c.val.as = "rows" /\ Null \in Selected(c.val.where)
             ELSE \E k \in DOMAIN c.parts : f[c.parts[k]]
           S == Conditions
           T == BOOLEAN
           step == [f \in [S -> T] |-> [c \in S |-> body(c, f)]]
<1>1. \A c, f : body(c, f) \in T
  OBVIOUS
<1>2. Loose = CHOOSE f : f = [c \in S |-> body(c, f)]
  BY DEF Loose
<1>3. ASSUME NEW c \in S, NEW f, NEW g, \A r \in S : Height[r] < Height[c] => f[r] = g[r]
      PROVE  body(c, f) = body(c, g)
  <2>1. c.is # "compare" => \A k \in DOMAIN c.parts : f[c.parts[k]] = g[c.parts[k]]
    BY <1>3, Connectives
  <2> QED
    BY <2>1
<1> HIDE DEF body, T
<1>4. \A f \in [S -> T], c \in S : step[f][c] = body(c, f)
  OBVIOUS
<1>5. step \in [[S -> T] -> [S -> T]]
  BY <1>1
<1> HIDE DEF step
<1>6. T # {} /\ Height \in [S -> Nat]
  BY AnythingFacts DEF T
<1>7. Recursive(S, T, Height, step)
  BY <1>3, <1>4, <1>5, <1>6 DEF Recursive
<1>8. PICK f \in [S -> T] : f = step[f]
  BY <1>7, Recursion
<1>9. f = [c \in S |-> body(c, f)]
  BY <1>4, <1>8
<1>10. Loose = [c \in S |-> body(c, Loose)]
  BY <1>2, <1>9
<1>11. Loose \in [S -> T] /\ \A c \in S : Loose[c] = body(c, Loose)
  BY <1>1, <1>10
<1> QED
  BY <1>11 DEF body, T

(* And so are those with a semi-join, *)
LEMMA HasSemiJoinFacts ==
  /\ HasSemiJoin \in [Conditions -> BOOLEAN]
  /\ \A c \in Conditions :
       HasSemiJoin[c] = IF c.is = "compare" THEN c.val.as = "rows"
             ELSE \E k \in DOMAIN c.parts : HasSemiJoin[c.parts[k]]
<1> DEFINE body(c, f) ==
             IF c.is = "compare" THEN c.val.as = "rows"
             ELSE \E k \in DOMAIN c.parts : f[c.parts[k]]
           S == Conditions
           T == BOOLEAN
           step == [f \in [S -> T] |-> [c \in S |-> body(c, f)]]
<1>1. \A c, f : body(c, f) \in T
  OBVIOUS
<1>2. HasSemiJoin = CHOOSE f : f = [c \in S |-> body(c, f)]
  BY DEF HasSemiJoin
<1>3. ASSUME NEW c \in S, NEW f, NEW g, \A r \in S : Height[r] < Height[c] => f[r] = g[r]
      PROVE  body(c, f) = body(c, g)
  <2>1. c.is # "compare" => \A k \in DOMAIN c.parts : f[c.parts[k]] = g[c.parts[k]]
    BY <1>3, Connectives
  <2> QED
    BY <2>1
<1> HIDE DEF body, T
<1>4. \A f \in [S -> T], c \in S : step[f][c] = body(c, f)
  OBVIOUS
<1>5. step \in [[S -> T] -> [S -> T]]
  BY <1>1
<1> HIDE DEF step
<1>6. T # {} /\ Height \in [S -> Nat]
  BY AnythingFacts DEF T
<1>7. Recursive(S, T, Height, step)
  BY <1>3, <1>4, <1>5, <1>6 DEF Recursive
<1>8. PICK f \in [S -> T] : f = step[f]
  BY <1>7, Recursion
<1>9. f = [c \in S |-> body(c, f)]
  BY <1>4, <1>8
<1>10. HasSemiJoin = [c \in S |-> body(c, HasSemiJoin)]
  BY <1>2, <1>9
<1>11. HasSemiJoin \in [S -> T] /\ \A c \in S : HasSemiJoin[c] = body(c, HasSemiJoin)
  BY <1>1, <1>10
<1> QED
  BY <1>11 DEF body, T

(* and those whose text does not say what they mean. *)
LEMMA MisreadFacts ==
  /\ Misread \in [Conditions -> BOOLEAN]
  /\ \A c \in Conditions :
       Misread[c] = IF c.is = "compare"
             THEN \/ WrittenOther(c.val)
                  \/ c.val.as = "bindlist"
                  \/ c.val.as = "bind" /\ (c.val.v = Null \/ c.op \in {"IN", "NOT IN"})
                  \/ c.val.as = "null" /\ c.op \notin {"=", "!="}
                  \/ c.field \in {"up", "gone"}
                  \/ c.val.as = "rows" /\ (Misread[c.val.where] \/ (c.op = "NOT IN" /\ Loose[c]))
             ELSE \/ \E k \in DOMAIN c.parts : Misread[c.parts[k]]
                  \/ c.is = "not" /\ Loose[c]
<1> DEFINE body(c, f) ==
             IF c.is = "compare"
             THEN \/ WrittenOther(c.val)
                  \/ c.val.as = "bindlist"
                  \/ c.val.as = "bind" /\ (c.val.v = Null \/ c.op \in {"IN", "NOT IN"})
                  \/ c.val.as = "null" /\ c.op \notin {"=", "!="}
                  \/ c.field \in {"up", "gone"}
                  \/ c.val.as = "rows" /\ (f[c.val.where] \/ (c.op = "NOT IN" /\ Loose[c]))
             ELSE \/ \E k \in DOMAIN c.parts : f[c.parts[k]]
                  \/ c.is = "not" /\ Loose[c]
           S == Conditions
           T == BOOLEAN
           step == [f \in [S -> T] |-> [c \in S |-> body(c, f)]]
<1>1. \A c, f : body(c, f) \in T
  OBVIOUS
<1>2. Misread = CHOOSE f : f = [c \in S |-> body(c, f)]
  BY DEF Misread
<1>3. ASSUME NEW c \in S, NEW f, NEW g, \A r \in S : Height[r] < Height[c] => f[r] = g[r]
      PROVE  body(c, f) = body(c, g)
  <2>1. c.is # "compare" => \A k \in DOMAIN c.parts : f[c.parts[k]] = g[c.parts[k]]
    BY <1>3, Connectives
  <2>2. c.is = "compare" /\ c.val.as = "rows" => f[c.val.where] = g[c.val.where]
    BY <1>3, Comparisons
  <2>3. CASE c.is = "compare"
    BY <2>2, <2>3
  <2>4. CASE c.is # "compare"
    BY <2>1, <2>4
  <2> QED
    BY <2>3, <2>4
<1> HIDE DEF body, T
<1>4. \A f \in [S -> T], c \in S : step[f][c] = body(c, f)
  OBVIOUS
<1>5. step \in [[S -> T] -> [S -> T]]
  BY <1>1
<1> HIDE DEF step
<1>6. T # {} /\ Height \in [S -> Nat]
  BY AnythingFacts DEF T
<1>7. Recursive(S, T, Height, step)
  BY <1>3, <1>4, <1>5, <1>6 DEF Recursive
<1>8. PICK f \in [S -> T] : f = step[f]
  BY <1>7, Recursion
<1>9. f = [c \in S |-> body(c, f)]
  BY <1>4, <1>8
<1>10. Misread = [c \in S |-> body(c, Misread)]
  BY <1>2, <1>9
<1>11. Misread \in [S -> T] /\ \A c \in S : Misread[c] = body(c, Misread)
  BY <1>1, <1>10
<1> QED
  BY <1>11 DEF body, T
-----------------------------------------------------------------------------
(* A comparison that is not misread says what it means; behind a semi-join over rows that *)
(* lack the lookup it does so as far as it is true.                                       *)
LEMMA ComparisonsSayWhatTheyMean ==
  ASSUME NEW c \in Conditions, c.is = "compare", ~Misread[c], NEW i \in DOMAIN rows,
         c.val.as = "rows" => \A j \in DOMAIN rows : j \in Finds[c.val.where] <=> Meaning[c.val.where][j] = "T"
  PROVE  LET a == Condition(c.field, c.op, c.val)
         IN /\ OfAtom(a, i, Finds) = "T" <=> Meaning[c][i] = "T"
            /\ ~Loose[c] => OfAtom(a, i, Finds) = Meaning[c][i]
<1> DEFINE a == Condition(c.field, c.op, c.val)
           v == Column(i, c.field)
<1>1. Meaning[c][i] = MeaningOf(c, i, Meaning)
  BY MeaningFacts
<1>2. /\ c.val.as # "bindlist"
      /\ c.val.as = "bind" => c.val.v # Null /\ c.op \notin {"IN", "NOT IN"}
      /\ c.val.as = "null" => c.op \in {"=", "!="}
      /\ c.val.as = "rows" => ~(c.op = "NOT IN" /\ Loose[c])
  BY MisreadFacts
<1>6. ~WrittenOther(c.val)
  BY MisreadFacts
<1>3. /\ c.val.as \in {"text", "null", "bind", "bindlist", "list", "rows"}
      /\ c.val.as \in {"list", "rows"} => c.op \in {"IN", "NOT IN"}
      /\ c.val.as \in {"text", "null"} => c.op \in {"=", "!=", "<"}
      /\ c.op \in {"=", "!=", "<", "IN", "NOT IN"}
      /\ c.val.as = "rows" => c.val.where \in Conditions
  BY Comparisons
<1>4. CASE c.val.as = "null"
  <2>1. /\ a.col = c.field /\ a.op = IF c.op = "!=" THEN "IS NOT NULL" ELSE "IS NULL"
    BY <1>4 DEF Condition, Atom
  <2>2. Meaning[c][i] = Truth((v = Null) = (c.op = "="))
    BY <1>1, <1>4 DEF MeaningOf, IsNull
  <2>3. OfAtom(a, i, Finds) = IF c.op = "!=" THEN Truth(v # Null) ELSE Truth(v = Null)
    <3> HIDE DEF a, v
    <3> QED
      BY <2>1 DEF OfAtom, v
  <2> HIDE DEF v, a
  <2>4. OfAtom(a, i, Finds) = Meaning[c][i]
    BY <1>2, <1>4, <2>2, <2>3 DEF Truth
  <2> QED
    BY <2>4 DEF a
<1>5. CASE c.val.as # "null"
  <2>1. a.col = c.field /\ a.op = c.op /\ a.arg = c.val
    BY <1>5 DEF Condition, Atom
  <2>2. CASE c.val.as \in {"text", "bind"}
    <3>1. c.op \in {"=", "!=", "<"}
      BY <1>2, <1>3, <2>2
    <3> DEFINE x == c.val.v
               t == Truth(CASE c.op = "=" -> v = x [] c.op = "!=" -> v # x [] OTHER -> Below(v, x))
    <3>2. ValuesOf(c.val) = {x} /\ x # Null
      BY <1>2, <1>6, <2>2, Literals DEF ValuesOf, WrittenOther, StandsForOther
    <3>3. Meaning[c][i] = IF Null \in {v, x} THEN "U" ELSE t
      <4> DEFINE X == ValuesOf(c.val)
                 u == Truth(CASE c.op = "=" -> v \in X [] c.op = "!=" -> v \notin X
                              [] OTHER -> \A w \in X : Below(v, w))
      <4>1. ~IsNull(c.val)
        BY <1>5, <2>2, <3>2 DEF IsNull
      <4>2. Meaning[c][i] = IF v = Null THEN "U" ELSE u
        <5> HIDE DEF v
        <5> QED
          BY <1>1, <3>1, <4>1 DEF MeaningOf, v
      <4>3. X = {x}
        BY <3>2
      <4>4. u = t
        <5>1. v \in X <=> v = x
          BY <4>3
        <5>2. (\A w \in X : Below(v, w)) <=> Below(v, x)
          BY <4>3
        <5>3. CASE c.op = "="
          BY <5>1, <5>3 DEF Truth
        <5>4. CASE c.op = "!="
          BY <5>1, <5>4 DEF Truth
        <5>5. CASE c.op = "<"
          BY <5>2, <5>5 DEF Truth
        <5> QED
          BY <3>1, <5>3, <5>4, <5>5
      <4> HIDE DEF X, u, t, x, v
      <4> QED
        BY <3>2, <4>2, <4>4
    <3>4. OfAtom(a, i, Finds) = IF Null \in {v, x} THEN "U" ELSE t
      <4> HIDE DEF a
      <4> QED
        BY <2>1, <3>1 DEF OfAtom
    <3> HIDE DEF t, x, v
    <3>5. OfAtom(a, i, Finds) = Meaning[c][i]
      BY <3>3, <3>4
    <3> HIDE DEF a
    <3> QED
      BY <3>5 DEF a
  <2>3. CASE c.val.as = "list"
    <3>1. c.op \in {"IN", "NOT IN"} /\ ~IsNull(c.val)
      BY <1>3, <2>3 DEF IsNull
    <3> DEFINE among == Among(v, Range(c.val.vs))
    <3>4. ValuesOf(c.val) = Range(c.val.vs)
      BY <1>6, <2>3 DEF ValuesOf, WrittenOther, StandsForOther
    <3>2. Meaning[c][i] = IF c.op = "IN" THEN among ELSE Not(among)
      BY <1>1, <2>3, <3>1, <3>4 DEF MeaningOf
    <3>3. OfAtom(a, i, Finds) = IF c.op = "IN" THEN among ELSE Not(among)
      <4> HIDE DEF a
      <4> QED
        BY <2>1, <2>3, <3>1 DEF OfAtom
    <3> HIDE DEF among, a
    <3> QED
      BY <3>2, <3>3 DEF a
  <2>4. CASE c.val.as = "rows"
    <3>1. c.op \in {"IN", "NOT IN"} /\ ~IsNull(c.val)
      BY <1>3, <2>4 DEF IsNull
    <3> DEFINE w == c.val.where
               found == {rows[j].ref : j \in Finds[w]}
               linked == {rows[j].ref : j \in {j \in DOMAIN rows : Meaning[w][j] = "T"}} \ {Null}
    <3>2. found \ {Null} = linked
      <4>1. Finds[w] \subseteq DOMAIN rows
        BY <1>3, <2>4, FindsFacts
      <4>2. Finds[w] = {j \in DOMAIN rows : Meaning[w][j] = "T"}
        <5> HIDE DEF w
        <5> QED
          BY <2>4, <4>1 DEF w
      <4> QED
        BY <4>2
    <3>3. Loose[c] <=> Null \in found
      BY <2>4, LooseFacts DEF Selected
    <3>4. Meaning[c][i] = IF c.op = "IN" THEN Among(v, linked) ELSE Not(Among(v, linked))
      BY <1>1, <2>4, <3>1 DEF MeaningOf
    <3>5. OfAtom(a, i, Finds) = IF c.op = "IN" THEN Among(v, found) ELSE Not(Among(v, found))
      <4> HIDE DEF a
      <4> QED
        BY <2>1, <2>4, <3>1 DEF OfAtom
    <3> HIDE DEF found, linked, a, v
    <3>6. ~Loose[c] => found = linked
      BY <3>2, <3>3
    <3>7. Among(v, found) = "T" <=> Among(v, linked) = "T"
      BY <3>2 DEF Among
    <3>8. CASE c.op = "IN"
      BY <3>4, <3>5, <3>6, <3>7, <3>8 DEF a
    <3>9. CASE c.op = "NOT IN"
      BY <1>2, <2>4, <3>4, <3>5, <3>6, <3>9 DEF a
    <3> QED
      BY <3>1, <3>8, <3>9
  <2> QED
    BY <1>2, <1>3, <1>5, <2>2, <2>3, <2>4
<1> QED
  BY <1>4, <1>5

(* A condition that is not misread finds the rows it means. *)
LEMMA ConditionsSayWhatTheyMean ==
  \A c \in Conditions : ~Misread[c] =>
    /\ \A i \in DOMAIN rows : i \in Finds[c] <=> Meaning[c][i] = "T"
    /\ c # Anything /\ ~Loose[c] =>
         \A i \in DOMAIN rows : Verdict(BuildLogical[c], OfAtoms(i, Finds)) = Meaning[c][i]
<1> DEFINE V(c, i) == Verdict(BuildLogical[c], OfAtoms(i, Finds))
           Found2(c) == \A i \in DOMAIN rows : i \in Finds[c] <=> Meaning[c][i] = "T"
           Exact(c) == \A i \in DOMAIN rows : V(c, i) = Meaning[c][i]
           P == {c \in Conditions : ~Misread[c] => Found2(c) /\ (c # Anything /\ ~Loose[c] => Exact(c))}
<1>1. ASSUME NEW c \in Conditions, NEW i \in DOMAIN rows, c # Anything
      PROVE  (i \in Finds[c] <=> V(c, i) = "T") /\ V(c, i) \in Truths
  <2>1. BuildLogical[c] \in Seq(Tokens) /\ OfAtoms(i, Finds) \in [Atoms -> Truths]
    BY AtomsHaveTruths, BuildLogicalFacts
  <2> QED
    BY <1>1, <2>1, FindsFacts, VerdictOfText
<1>2. ASSUME NEW c \in Conditions, \A r \in Conditions : Height[r] < Height[c] => r \in P, ~Misread[c]
      PROVE  Found2(c) /\ (c # Anything /\ ~Loose[c] => Exact(c))
  <2>1. CASE c = Anything
    <3>1. ASSUME NEW i \in DOMAIN rows PROVE i \in Finds[c] /\ Meaning[c][i] = "T"
      <4>1. Meaning[c][i] = MeaningOf(c, i, Meaning)
        BY MeaningFacts
      <4>2. c.is = "and" /\ DOMAIN c.parts = {}
        BY <2>1, AnythingFacts
      <4>3. {Meaning[c.parts[k]][i] : k \in DOMAIN c.parts} = {}
        BY <4>2
      <4>4. Meaning[c][i] = "T"
        BY <4>1, <4>2, <4>3 DEF MeaningOf, AllOf
      <4> QED
        BY <2>1, <4>4, FindsFacts
    <3> QED
      BY <2>1, <3>1
  <2>2. CASE c.is = "compare"
    <3> DEFINE a == Condition(c.field, c.op, c.val)
    <3>1. c # Anything /\ a \in Atoms
      BY <2>2, Comparisons
    <3>2. c.val.as = "rows" => Found2(c.val.where)
      <4>1. SUFFICES ASSUME c.val.as = "rows" PROVE Found2(c.val.where)
        OBVIOUS
      <4> DEFINE w == c.val.where
      <4>2. w \in Conditions /\ Height[w] < Height[c] /\ ~Misread[w]
        BY <1>2, <2>2, <4>1, Comparisons, MisreadFacts
      <4> HIDE DEF w, Found2, Exact
      <4> QED
        BY <1>2, <4>2 DEF w
    <3> HIDE DEF a
    <3>3. ASSUME NEW i \in DOMAIN rows
          PROVE  /\ V(c, i) = OfAtom(a, i, Finds)
                 /\ OfAtom(a, i, Finds) = "T" <=> Meaning[c][i] = "T"
                 /\ ~Loose[c] => OfAtom(a, i, Finds) = Meaning[c][i]
      <4>1. V(c, i) = OfAtoms(i, Finds)[a]
        BY <2>2, <3>1, AtomsHaveTruths, TextsNest DEF a
      <4>2. OfAtoms(i, Finds)[a] = OfAtom(a, i, Finds)
        BY <3>1, AtomsHaveTruths
      <4>3. /\ OfAtom(a, i, Finds) = "T" <=> Meaning[c][i] = "T"
            /\ ~Loose[c] => OfAtom(a, i, Finds) = Meaning[c][i]
        BY <1>2, <2>2, <3>2, ComparisonsSayWhatTheyMean DEF a
      <4> QED
        BY <4>1, <4>2, <4>3
    <3> HIDE DEF V
    <3> QED
      BY <1>1, <3>1, <3>3
  <2>3. CASE c # Anything /\ c.is # "compare"
    <3>1. ASSUME NEW k \in DOMAIN c.parts
          PROVE  /\ c.parts[k] \in Conditions /\ c.parts[k] # Anything
                 /\ Found2(c.parts[k]) /\ (~Loose[c.parts[k]] => Exact(c.parts[k]))
                 /\ Loose[c.parts[k]] => Loose[c]
      <4> DEFINE d == c.parts[k]
      <4>1. d \in Conditions /\ d # Anything /\ Height[d] < Height[c]
        BY <2>3, Connectives
      <4>2. ~Misread[d]
        BY <1>2, <2>3, MisreadFacts
      <4>3. Loose[d] => Loose[c]
        BY <2>3, LooseFacts
      <4> HIDE DEF d, Found2, Exact
      <4>4. d \in P
        BY <1>2, <4>1
      <4> QED
        BY <4>1, <4>2, <4>3, <4>4 DEF d
    <3>2. ASSUME NEW i \in DOMAIN rows, NEW k \in DOMAIN c.parts
          PROVE  /\ V(c.parts[k], i) \in Truths /\ Meaning[c.parts[k]][i] \in Truths
                 /\ V(c.parts[k], i) = "T" <=> Meaning[c.parts[k]][i] = "T"
                 /\ ~Loose[c.parts[k]] => V(c.parts[k], i) = Meaning[c.parts[k]][i]
      <4>1. c.parts[k] \in Conditions /\ c.parts[k] # Anything
        BY <3>1
      <4>2. Meaning[c.parts[k]][i] \in Truths
        BY <4>1, MeaningFacts
      <4> HIDE DEF V
      <4> QED
        BY <1>1, <3>1, <4>1, <4>2
    <3>3. ASSUME NEW i \in DOMAIN rows
          PROVE  /\ V(c, i) = "T" <=> Meaning[c][i] = "T"
                 /\ ~Loose[c] => V(c, i) = Meaning[c][i]
      <4>1. Meaning[c][i] = MeaningOf(c, i, Meaning)
        BY MeaningFacts
      <4>2. OfAtoms(i, Finds) \in [Atoms -> Truths]
        BY AtomsHaveTruths
      <4>3. CASE c.is = "not"
        <5>1. V(c, i) = Not(V(c.parts[1], i))
          BY <2>3, <4>2, <4>3, TextsNest
        <5>2. Meaning[c][i] = Not(Meaning[c.parts[1]][i])
          BY <4>1, <4>3 DEF MeaningOf
        <5>3. 1 \in DOMAIN c.parts /\ ~Loose[c]
          BY <1>2, <2>3, <4>3, Connectives, MisreadFacts
        <5>4. ~Loose[c.parts[1]]
          BY <3>1, <5>3
        <5> HIDE DEF V
        <5> QED
          BY <3>2, <5>1, <5>2, <5>3, <5>4
      <4>4. CASE c.is \in Joiners
        <5> DEFINE xs == {V(c.parts[k], i) : k \in DOMAIN c.parts}
                   ys == {Meaning[c.parts[k]][i] : k \in DOMAIN c.parts}
        <5>1. V(c, i) = Connected(c, xs)
          BY <2>3, <4>2, <4>4, TextsNest
        <5>2. Meaning[c][i] = Connected(c, ys)
          BY <4>1, <4>4 DEF MeaningOf, Connected, Joiners
        <5> HIDE DEF V
        <5>3. /\ xs \in SUBSET Truths /\ ys \in SUBSET Truths
              /\ (\A x \in xs : x = "T") <=> (\A y \in ys : y = "T")
              /\ "T" \in xs <=> "T" \in ys
          BY <3>2
        <5>4. ~Loose[c] => xs = ys
          BY <3>1, <3>2
        <5> HIDE DEF xs, ys
        <5>5. Connected(c, xs) = "T" <=> Connected(c, ys) = "T"
          BY <4>4, <5>3, AllAndAny DEF Connected, Joiners
        <5> QED
          BY <5>1, <5>2, <5>4, <5>5
      <4> QED
        BY <2>3, <4>3, <4>4, Connectives DEF Joiners
    <3> HIDE DEF V
    <3> QED
      BY <1>1, <2>3, <3>3
  <2> HIDE DEF Found2, Exact
  <2> QED
    BY <2>1, <2>2, <2>3
<1>3. Conditions \subseteq P
  <2> HIDE DEF Found2, Exact
  <2>1. ASSUME NEW c \in Conditions, \A r \in Conditions : Height[r] < Height[c] => r \in P
        PROVE  c \in P
    BY <1>2, <2>1
  <2> HIDE DEF P
  <2> QED
    BY <2>1, AnythingFacts, HeightInduction
<1> QED
  BY <1>3

(* And SQLite takes its text. *)
LEMMA ConditionsAreTaken ==
  \A c \in Conditions : ~Misread[c] =>
    \A joined \in BOOLEAN : (joined => ~HasSemiJoin[c]) => ~RefusedIf(BuildLogical[c], joined, Fails)
<1> DEFINE Taken(c) == \A joined \in BOOLEAN :
                         (joined => ~HasSemiJoin[c]) => ~RefusedIf(BuildLogical[c], joined, Fails)
           P == {c \in Conditions : ~Misread[c] => Taken(c)}
<1>1. ASSUME NEW c \in Conditions, \A r \in Conditions : Height[r] < Height[c] => r \in P, ~Misread[c],
             NEW joined \in BOOLEAN, joined => ~HasSemiJoin[c]
      PROVE  ~RefusedIf(BuildLogical[c], joined, Fails)
  <2>1. CASE c.is = "compare"
    <3> DEFINE a == Condition(c.field, c.op, c.val)
               w == c.val.where
    <3>1. RefusedIf(BuildLogical[c], joined, Fails) <=> RefusedAtom(a, joined, Fails)
      BY <2>1, RefusedOfText
    <3>2. c.val.as = "rows" => ~Fails[w]
      <4>1. SUFFICES ASSUME c.val.as = "rows" PROVE ~Fails[w]
        OBVIOUS
      <4>2. w \in Conditions /\ Height[w] < Height[c] /\ ~Misread[w]
        BY <1>1, <2>1, <4>1, Comparisons, MisreadFacts
      <4> HIDE DEF w, Taken
      <4>3. Taken(w)
        BY <1>1, <4>2
      <4>4. ~RefusedIf(BuildLogical[w], FALSE, Fails)
        BY <4>3 DEF Taken
      <4> QED
        BY <4>2, <4>4, FailsFacts
    <3>3. joined => c.val.as # "rows"
      BY <1>1, <2>1, HasSemiJoinFacts
    <3>4. /\ c.val.as # "bindlist" /\ c.field \notin {"up", "gone"}
          /\ c.val.as = "bind" => c.op \notin {"IN", "NOT IN"}
      BY <1>1, <2>1, MisreadFacts
    <3>5. /\ c.val.as \in {"text", "null", "bind", "bindlist", "list", "rows"}
          /\ c.val.as \in {"text", "null"} => c.op \in {"=", "!=", "<"}
      BY <2>1, Comparisons
    <3>6. /\ a.col = c.field /\ a.arg = c.val /\ a.quoted = FALSE
          /\ c.val.as = "null" => a.op \in {"IS NULL", "IS NOT NULL"}
          /\ c.val.as # "null" => a.op = c.op
      BY DEF Condition, Atom
    <3> HIDE DEF a, w
    <3>7. ~RefusedAtom(a, joined, Fails)
      <4>1. ~(a.op \in {"IN", "NOT IN"} /\ a.arg.as \notin {"list", "rows"})
        BY <3>4, <3>5, <3>6
      <4> QED
        BY <3>2, <3>3, <3>4, <3>6, <4>1 DEF RefusedAtom, w
    <3> QED
      BY <3>1, <3>7
  <2>2. CASE c.is # "compare"
    <3>1. ASSUME NEW k \in DOMAIN c.parts
          PROVE  ~RefusedIf(BuildLogical[c.parts[k]], joined, Fails)
      <4> DEFINE d == c.parts[k]
      <4>1. d \in Conditions /\ Height[d] < Height[c]
        BY <2>2, Connectives
      <4>2. ~Misread[d] /\ (joined => ~HasSemiJoin[d])
        BY <1>1, <2>2, HasSemiJoinFacts, MisreadFacts
      <4> HIDE DEF d, Taken
      <4>3. Taken(d)
        BY <1>1, <4>1, <4>2
      <4> QED
        BY <4>2, <4>3 DEF d, Taken
    <3> QED
      BY <2>2, <3>1, RefusedOfText
  <2> QED
    BY <2>1, <2>2
<1>2. Conditions \subseteq P
  <2>1. ASSUME NEW c \in Conditions, \A r \in Conditions : Height[r] < Height[c] => r \in P
        PROVE  c \in P
    BY <1>1, <2>1
  <2> HIDE DEF P
  <2> QED
    BY <2>1, AnythingFacts, HeightInduction
<1> QED
  BY <1>2
-----------------------------------------------------------------------------
(* What OFFSET and LIMIT leave of an answer. *)
LEMMA SlicedFacts ==
  ASSUME NEW S, NEW p \in Seq(S), NEW limit \in Nat, NEW offset \in Nat
  PROVE  /\ Sliced(p, limit, offset) \in Seq(S)
         /\ Len(Sliced(p, limit, offset)) <= Len(p)
         /\ LET most == IF limit = 0 THEN Len(p) ELSE limit
            IN Sliced(p, limit, offset) = SubSeq(p, offset + 1, Min({offset + most, Len(p)}))
         /\ limit = 0 /\ offset = 0 => Sliced(p, limit, offset) = p
<1> DEFINE n == Len(p)
           most == IF limit = 0 THEN n ELSE limit
           from == SubSeq(p, offset + 1, n)
           last == Min({offset + most, n})
           part == SubSeq(p, offset + 1, last)
<1>1. n \in Nat
  BY LenProperties
<1>2. \A k \in 1..n : p[k] \in S
  BY <1>1, ElementOfSeq
<1>3. /\ last \in Nat /\ last <= n /\ (last = n \/ last = offset + most)
      /\ last = IF offset + most < n THEN offset + most ELSE n
  <2> DEFINE A == {offset + most, n}
  <2>1. offset + most \in Nat
    BY <1>1
  <2>2. A # {} /\ A \subseteq 0..(offset + most + n)
    BY <1>1, <2>1
  <2> DEFINE m == offset + most + n
  <2>3. m \in Nat /\ A \subseteq 0..m
    BY <1>1, <2>1, <2>2
  <2> HIDE DEF A, n, most, m
  <2>4. Min(A) \in A /\ \A y \in A : Min(A) <= y
    BY <2>2, <2>3, Minimum
  <2> USE DEF A, most
  <2> QED
    BY <1>1, <2>1, <2>4
<1> HIDE DEF last, n
<1>4. /\ from \in Seq(S)
      /\ Len(from) = IF offset + 1 <= n THEN n - offset ELSE 0
      /\ \A i \in 1..Len(from) : from[i] = p[offset + i]
  <2>1. /\ from \in Seq(S)
        /\ Len(from) = IF offset + 1 <= n THEN n - (offset + 1) + 1 ELSE 0
        /\ \A i \in 1..(n - (offset + 1) + 1) : from[i] = p[(offset + 1) + i - 1]
    <3>1. \A k \in (offset + 1)..n : p[k] \in S
      BY <1>1, <1>2
    <3>2. offset + 1 \in Int /\ n \in Int
      BY <1>1
    <3> QED
      BY <3>1, <3>2, SubSeqProperties
  <2> HIDE DEF from
  <2>2. \A i \in 1..Len(from) : i \in 1..(n - (offset + 1) + 1) /\ (offset + 1) + i - 1 = offset + i
    BY <1>1, <2>1
  <2>3. \A i \in 1..Len(from) : from[i] = p[offset + i]
    BY <2>1, <2>2
  <2>4. Len(from) = IF offset + 1 <= n THEN n - offset ELSE 0
    BY <1>1, <2>1
  <2> QED
    BY <2>1, <2>3, <2>4
<1>5. /\ part \in Seq(S)
      /\ Len(part) = IF offset + 1 <= last THEN last - offset ELSE 0
      /\ \A i \in 1..Len(part) : part[i] = p[offset + i]
  <2>1. /\ part \in Seq(S)
        /\ Len(part) = IF offset + 1 <= last THEN last - (offset + 1) + 1 ELSE 0
        /\ \A i \in 1..(last - (offset + 1) + 1) : part[i] = p[(offset + 1) + i - 1]
    <3>1. \A k \in (offset + 1)..last : p[k] \in S
      BY <1>1, <1>2, <1>3
    <3>2. offset + 1 \in Int /\ last \in Int
      BY <1>3
    <3> QED
      BY <3>1, <3>2, SubSeqProperties
  <2> HIDE DEF part
  <2>2. \A i \in 1..Len(part) : i \in 1..(last - (offset + 1) + 1) /\ (offset + 1) + i - 1 = offset + i
    BY <1>3, <2>1
  <2>3. \A i \in 1..Len(part) : part[i] = p[offset + i]
    BY <2>1, <2>2
  <2>4. last \in Nat
    BY <1>3
  <2>5. Len(part) = IF offset + 1 <= last THEN last - offset ELSE 0
    BY <2>1, <2>4
  <2> QED
    BY <2>1, <2>3, <2>5
<1> HIDE DEF from, part
<1>6. limit > 0 /\ limit < Len(from) => SubSeq(from, 1, limit) = part
  <2>1. SUFFICES ASSUME limit > 0, limit < Len(from) PROVE SubSeq(from, 1, limit) = part
    OBVIOUS
  <2> DEFINE s == SubSeq(from, 1, limit)
  <2>2. /\ s \in Seq(S) /\ Len(s) = limit
        /\ \A i \in 1..limit : s[i] = from[i]
    <3>1. \A k \in 1..limit : from[k] \in S
      <4>1. \A k \in 1..Len(from) : from[k] \in S
        BY <1>4, ElementOfSeq
      <4>2. Len(from) \in Nat
        BY <1>4, LenProperties
      <4> QED
        BY <2>1, <4>1, <4>2
    <3>2. /\ s \in Seq(S) /\ Len(s) = IF 1 <= limit THEN limit - 1 + 1 ELSE 0
          /\ \A i \in 1..(limit - 1 + 1) : s[i] = from[1 + i - 1]
      BY <3>1, SubSeqProperties
    <3> HIDE DEF s
    <3> QED
      BY <2>1, <3>2
  <2> HIDE DEF s
  <2>3. Len(part) = limit
    BY <1>1, <1>3, <1>4, <1>5, <2>1
  <2>4. Len(from) \in Nat
    BY <1>4, LenProperties
  <2>5. ASSUME NEW i \in 1..Len(s) PROVE s[i] = part[i]
    <3>1. i \in 1..limit /\ i \in 1..Len(from) /\ i \in 1..Len(part)
      BY <2>1, <2>2, <2>3, <2>4
    <3> QED
      BY <1>4, <1>5, <2>2, <3>1
  <2> QED
    BY <1>5, <2>2, <2>3, <2>5, SeqEqual DEF s
<1>7. ~(limit > 0 /\ limit < Len(from)) => from = part
  <2>1. SUFFICES ASSUME ~(limit > 0 /\ limit < Len(from)) PROVE from = part
    OBVIOUS
  <2>2. Len(from) = Len(part)
    BY <1>1, <1>3, <1>4, <1>5, <2>1
  <2>3. \A i \in 1..Len(from) : from[i] = part[i]
    BY <1>4, <1>5, <2>2
  <2> QED
    BY <1>4, <1>5, <2>2, <2>3, SeqEqual
<1>8. Sliced(p, limit, offset) = IF limit > 0 /\ limit < Len(from) THEN SubSeq(from, 1, limit) ELSE from
  BY DEF Sliced, from, n
<1>9. Sliced(p, limit, offset) = part
  BY <1>6, <1>7, <1>8
<1>10. Len(part) <= n
  BY <1>1, <1>3, <1>5
<1>11. limit = 0 /\ offset = 0 => part = p
  <2>1. SUFFICES ASSUME limit = 0, offset = 0 PROVE part = p
    OBVIOUS
  <2>2. Len(part) = n /\ \A i \in 1..Len(part) : part[i] = p[i]
    BY <1>1, <1>3, <1>5, <2>1
  <2> QED
    BY <1>5, <2>2, SeqEqual DEF n
<1> QED
  BY <1>5, <1>9, <1>10, <1>11 DEF part, last, n

(* The lists of the rows that a query found. *)
LEMMA OrderFacts ==
  ASSUME rows \in Seq(Row), NEW found \in SUBSET DOMAIN rows, NEW orderBy,
         NEW p \in Orders(found, orderBy)
  PROVE  p \in Seq(found)
<1>1. IsFiniteSet(found)
  <2>1. DOMAIN rows = 1..Len(rows) /\ Len(rows) \in Nat
    BY LenProperties
  <2>2. IsFiniteSet(1..Len(rows))
    BY <2>1, FS_Interval
  <2> QED
    BY <2>1, <2>2, FS_Subset
<1>2. Cardinality(found) \in Nat
  BY <1>1, FS_CardinalityType
<1>3. p \in [1..Cardinality(found) -> found]
  BY DEF Orders, SetToSeqs
<1> QED
  BY <1>2, <1>3
-----------------------------------------------------------------------------
(* The states a query is asked in. *)
SoqlInv ==
  /\ rows \in Seq(Row) /\ Len(rows) <= Len(Ids)
  /\ user \in Users \cup {Null}
  /\ asked = Nothing => answer = Nothing

(* What a query is made of. *)
LEMMA QueryFacts ==
  ASSUME NEW q \in Queries
  PROVE  /\ q # Nothing
         /\ q.where \in Conditions /\ q.kids.where \in Conditions
         /\ q.offset \in Nat /\ q.limit.n \in Nat /\ q.kids.limit \in Nat /\ Limit(q) \in Nat
         /\ q.up \in BOOLEAN /\ q.limit.is \in {"none", "literal", "bound"}
         /\ q.access \in {"", "USER_MODE", "SYSTEM_MODE", "SECURITY_ENFORCED"}
BY QueriesAssumption DEF Nothing, Limit

(* Every step keeps the invariant, *)
LEMMA SoqlInvStep ==
  ASSUME SoqlInv, [SoqlNext]_soqlVars
  PROVE  SoqlInv'
<1>1. ASSUME NEW r \in Row, StoreRow(r) PROVE SoqlInv'
  <2>1. rows' \in Seq(Row) /\ Len(rows') = Len(rows) + 1
    BY <1>1, AppendProperties DEF StoreRow, SoqlInv
  <2>2. Len(rows) \in Nat /\ Len(Ids) \in Nat
    BY LenProperties, SoqlAssumption DEF SoqlInv
  <2> QED
    BY <1>1, <2>1, <2>2 DEF StoreRow, SoqlInv
<1>2. ASSUME NEW u \in Users, RunAs(u) PROVE SoqlInv'
  BY <1>2 DEF RunAs, SoqlInv
<1>3. ASSUME NEW q \in Queries, Ask(q) PROVE SoqlInv'
  <2>1. asked' # Nothing /\ rows' = rows /\ user' = user
    BY <1>3, QueryFacts DEF Ask
  <2> QED
    BY <2>1 DEF SoqlInv
<1>4. CASE UNCHANGED soqlVars
  BY <1>4 DEF soqlVars, SoqlInv
<1> QED
  BY <1>1, <1>2, <1>3, <1>4 DEF SoqlNext

(* so that every state satisfies it. *)
LEMMA SoqlInvariance == SoqlSpec => []SoqlInv
<1>1. SoqlInit => SoqlInv
  <2>1. Len(<<>>) = 0 /\ <<>> \in Seq(Row) /\ Len(Ids) \in Nat
    BY EmptySeq, LenProperties, SoqlAssumption
  <2> QED
    BY <2>1 DEF SoqlInit, SoqlInv
<1>2. SoqlInv /\ [SoqlNext]_soqlVars => SoqlInv'
  BY SoqlInvStep
<1> QED
  BY <1>1, <1>2, PTL DEF SoqlSpec

(* Before a query is asked there is no answer; only Ask gives one. *)
LEMMA NoAnswerYet ==
  ASSUME SoqlInv, (\E r \in Row : StoreRow(r)) \/ (\E u \in Users : RunAs(u))
  PROVE  answer'.kind # "list"
<1>1. answer' = Nothing
  BY DEF StoreRow, RunAs, SoqlInv
<1> QED
  BY <1>1 DEF Nothing

(* What is read of the table is read of its rows. *)
LEMMA SameRows ==
  ASSUME rows' = rows
  PROVE  /\ Meaning' = Meaning /\ Finds' = Finds /\ Loose' = Loose
<1>1. Meaning' = Meaning
  BY DEF Meaning, MeaningOf, Column
<1>2. Finds' = Finds
  BY SMT DEF Finds, OfAtoms, OfAtom, Column
<1>3. Loose' = Loose
  BY SMT DEF Loose, Selected, Finds, OfAtoms, OfAtom, Column
<1> QED
  BY <1>1, <1>2, <1>3

(* So are the conditions misread, *)
LEMMA SameMisread ==
  ASSUME rows' = rows
  PROVE  Misread' = Misread
BY SMT DEF Misread, Loose, Selected, Finds, OfAtoms, OfAtom, Column

(* what an answer should be, *)
LEMMA SameAsMeant ==
  ASSUME rows' = rows, NEW q, NEW shown
  PROVE  AsMeant(q, shown)' <=> AsMeant(q, shown)
BY SMT DEF AsMeant, Orders, Meaning, MeaningOf, Column

(* and the children a row should show. *)
LEMMA SameKidsMeant ==
  ASSUME rows' = rows, NEW q, NEW row
  PROVE  KidsMeant(q, row)' <=> KidsMeant(q, row)
BY SMT DEF KidsMeant, Meaning, MeaningOf, Column

(* The filter of sharing is put where sharing is enforced. *)
LEMMA SharedFacts ==
  ASSUME SoqlInv, NEW q \in Queries, NEW ts
  PROVE  /\ ~Sharing(q.access) => Shared(ts, q.access) = ts
         /\ Sharing(q.access) =>
              /\ user \in Users
              /\ Shared(ts, q.access) =
                   IF ts = <<>> THEN <<IsOwner(user)>> ELSE ts \o <<Token("and"), IsOwner(user)>>
BY QueryFacts DEF Shared, Sharing, Enforced, SoqlInv

(* The rows the text of a condition finds. *)
LEMMA FoundFacts ==
  ASSUME NEW c \in Conditions
  PROVE  Found(BuildLogical[c]) = Finds[c]
<1>1. c # Anything => BuildLogical[c] # <<>>
  BY TextsNest
<1> QED
  BY <1>1, TextsNest, FindsFacts DEF Found

(* What a query answers. *)
LEMMA AskFacts ==
  ASSUME SoqlInv, NEW q \in Queries, Ask(q), answer'.kind = "list"
  PROVE  LET ts == Shared(BuildLogical[q.where], q.access)
         IN /\ asked' = q /\ rows' = rows /\ user' = user /\ mode' = mode /\ denied' = denied
            /\ \/ (Refused(ts, q.up) \/ Unjoinable(q)) /\ answer'.rows = <<>>
               \/ /\ ~Refused(ts, q.up)
                  /\ ~(Checks(q) /\ Exposed(q) # {})
                  /\ \E p \in Orders(Found(ts), q.orderBy) :
                       LET part == Sliced(p, Limit(q), q.offset)
                       IN /\ p \in Seq(Found(ts)) /\ part \in Seq(Found(ts))
                          /\ answer'.rows = [k \in DOMAIN part |-> Shown(part[k], q)]
<1> DEFINE ts == Shared(BuildLogical[q.where], q.access)
<1>1. asked' = q /\ rows' = rows /\ user' = user /\ mode' = mode /\ denied' = denied
  BY DEF Ask
<1>2. Found(ts) \in SUBSET DOMAIN rows
  BY DEF Found
<1>3. answer' # Thrown
  BY DEF Thrown
<1> HIDE DEF ts
<1>4. CASE (Refused(ts, q.up) \/ Unjoinable(q)) /\ answer' = Answer(<<>>)
  BY <1>1, <1>4 DEF Answer, ts
<1>5. ASSUME ~Refused(ts, q.up), ~Unjoinable(q), ~(Checks(q) /\ Exposed(q) # {}),
             NEW p \in Orders(Found(ts), q.orderBy),
             answer' = Answer([k \in DOMAIN Sliced(p, Limit(q), q.offset) |->
                                 Shown(Sliced(p, Limit(q), q.offset)[k], q)])
      PROVE  /\ p \in Seq(Found(ts)) /\ Sliced(p, Limit(q), q.offset) \in Seq(Found(ts))
             /\ answer'.rows = [k \in DOMAIN Sliced(p, Limit(q), q.offset) |->
                                  Shown(Sliced(p, Limit(q), q.offset)[k], q)]
  <2>1. p \in Seq(Found(ts))
    BY <1>2, OrderFacts DEF SoqlInv
  <2>2. Limit(q) \in Nat /\ q.offset \in Nat
    BY QueryFacts
  <2>3. Sliced(p, Limit(q), q.offset) \in Seq(Found(ts))
    BY <2>1, <2>2, SlicedFacts
  <2> QED
    BY <1>5, <2>1, <2>3 DEF Answer
<1>6. \/ (Refused(ts, q.up) \/ Unjoinable(q)) /\ answer' = Answer(<<>>)
      \/ /\ ~Refused(ts, q.up) /\ ~Unjoinable(q) /\ ~(Checks(q) /\ Exposed(q) # {})
         /\ \E p \in Orders(Found(ts), q.orderBy) :
              answer' = Answer([k \in DOMAIN Sliced(p, Limit(q), q.offset) |->
                                  Shown(Sliced(p, Limit(q), q.offset)[k], q)])
  BY <1>3 DEF Ask, ts
<1> QED
  BY <1>1, <1>4, <1>5, <1>6 DEF ts

(* What holds of every answer of Ask holds of every state. *)
LEMMA WorkingQueries ==
  ASSUME SoqlInv, NEW q \in Queries, Works(q), ~Sharing(q.access)
  PROVE  LET ts == Shared(BuildLogical[q.where], q.access)
         IN /\ ~Refused(ts, q.up) /\ ~Unjoinable(q)
            /\ Found(ts) = {i \in DOMAIN rows : Meaning[q.where][i] = "T"}
<1> DEFINE w == q.where
<1>1. w \in Conditions /\ q.up \in BOOLEAN /\ ~Misread[w] /\ (q.up => ~HasSemiJoin[w])
  BY QueryFacts DEF Works
<1>2. Shared(BuildLogical[w], q.access) = BuildLogical[w]
  BY SharedFacts
<1> HIDE DEF w
<1>3. ~Refused(BuildLogical[w], q.up)
  BY <1>1, ConditionsAreTaken DEF Refused
<1>4. Found(BuildLogical[w]) = Finds[w] /\ Finds[w] \subseteq DOMAIN rows
  BY <1>1, FoundFacts, FindsFacts
<1>5. \A i \in DOMAIN rows : i \in Finds[w] <=> Meaning[w][i] = "T"
  BY <1>1, ConditionsSayWhatTheyMean
<1>6. Found(BuildLogical[w]) = {i \in DOMAIN rows : Meaning[w][i] = "T"}
  BY <1>4, <1>5
<1>7. ~Unjoinable(q)
  BY DEF Works, Unjoinable
<1> QED
  BY <1>2, <1>3, <1>6, <1>7 DEF w

(* Every step keeps AnswersAsMeant: only Ask answers. *)
LEMMA AnswersAsMeantStep ==
  ASSUME SoqlInv, AnswersAsMeant, [SoqlNext]_soqlVars
  PROVE  AnswersAsMeant'
<1>1. ASSUME NEW q \in Queries, Ask(q) PROVE AnswersAsMeant'
  <2>0. asked' = q /\ rows' = rows /\ user' = user /\ mode' = mode
    BY <1>1 DEF Ask
  <2>9. PICK a : answer' = a
    OBVIOUS
  <2>1. SUFFICES ASSUME a.kind = "list", Works(q), ~Sharing(q.access)
                 PROVE  AsMeant(q, a.rows)
    <3>1. Works(q)' <=> Works(q)
      BY <2>0, SameMisread DEF Works, Sharing
    <3>2. Sharing(q.access)' <=> Sharing(q.access)
      BY <2>0 DEF Sharing
    <3>3. AsMeant(q, a.rows)' <=> AsMeant(q, a.rows)
      BY <2>0, SameAsMeant
    <3>4. a.kind = "list" /\ Works(q) /\ ~Sharing(q.access) => AsMeant(q, a.rows)
      BY <2>1
    <3> QED
      BY <2>0, <2>9, <3>1, <3>2, <3>3, <3>4 DEF AnswersAsMeant
  <2> DEFINE ts == Shared(BuildLogical[q.where], q.access)
             meant == {i \in DOMAIN rows : Meaning[q.where][i] = "T"}
  <2>2. ~Refused(ts, q.up) /\ ~Unjoinable(q) /\ Found(ts) = meant
    BY <2>1, WorkingQueries
  <2> HIDE DEF ts, meant
  <2>3. PICK p \in Orders(meant, q.orderBy) :
          LET part == Sliced(p, Limit(q), q.offset)
          IN /\ p \in Seq(meant) /\ part \in Seq(meant)
             /\ a.rows = [k \in DOMAIN part |-> Shown(part[k], q)]
    BY <1>1, <2>1, <2>2, <2>9, AskFacts DEF ts
  <2> DEFINE most == IF q.limit.is = "none" THEN Len(p) ELSE q.limit.n
             part == SubSeq(p, q.offset + 1, Min({q.offset + most, Len(p)}))
  <2>4. Sliced(p, Limit(q), q.offset) = part
    <3>1. Limit(q) \in Nat /\ q.offset \in Nat /\ q.limit.is \in {"none", "literal", "bound"}
      BY QueryFacts
    <3>2. q.limit.is # "bound" /\ (q.limit.is = "literal" => q.limit.n > 0)
      BY <2>1 DEF Works
    <3>3. q.limit.n \in Nat
      BY QueryFacts
    <3>4. most = IF Limit(q) = 0 THEN Len(p) ELSE Limit(q)
      BY <3>1, <3>2, <3>3 DEF Limit
    <3> QED
      BY <2>3, <3>1, <3>4, SlicedFacts
  <2> HIDE DEF part
  <2>5. a.rows = [k \in DOMAIN part |-> Shown(part[k], q)]
    BY <2>3, <2>4
  <2>6. \A i : Shown(i, q).id = Ids[i]
    BY DEF Shown
  <2>7. [k \in DOMAIN a.rows |-> a.rows[k].id] = [k \in DOMAIN part |-> Ids[part[k]]]
    BY <2>5, <2>6
  <2> QED
    BY <2>7, Zenon DEF part, most, meant, AsMeant
<1>2. CASE UNCHANGED soqlVars
  <2>1. rows' = rows /\ user' = user /\ mode' = mode /\ asked' = asked /\ answer' = answer
    BY <1>2 DEF soqlVars
  <2>3. \A q, shown : AsMeant(q, shown)' <=> AsMeant(q, shown)
    BY <2>1, SameAsMeant
  <2>4. PICK q, a : asked = q /\ answer = a
    OBVIOUS
  <2>5. AsMeant(q, a.rows)' <=> AsMeant(q, a.rows)
    BY <2>3
  <2>6. Works(q)' <=> Works(q)
    BY <2>1, SameMisread DEF Works, Sharing
  <2>7. a.kind = "list" /\ Works(q) /\ ~Sharing(q.access) => AsMeant(q, a.rows)
    BY <2>4 DEF AnswersAsMeant
  <2>8. asked' = q /\ answer' = a
    BY <2>1, <2>4
  <2>9. Sharing(q.access)' <=> Sharing(q.access)
    BY <2>1 DEF Sharing
  <2> QED
    BY <2>5, <2>6, <2>7, <2>8, <2>9 DEF AnswersAsMeant
<1>3. CASE (\E r \in Row : StoreRow(r)) \/ (\E u \in Users : RunAs(u))
  BY <1>3, NoAnswerYet DEF AnswersAsMeant
<1> QED
  BY <1>1, <1>2, <1>3 DEF SoqlNext

(* Every step keeps DeniedIsNotShown: a query with a denied field throws. *)
LEMMA DeniedIsNotShownStep ==
  ASSUME SoqlInv, DeniedIsNotShown, [SoqlNext]_soqlVars
  PROVE  DeniedIsNotShown'
<1>1. ASSUME NEW q \in Queries, Ask(q) PROVE DeniedIsNotShown'
  <2>1. SUFFICES ASSUME answer'.kind = "list", user # Null,
                        q.access \in {"USER_MODE", "SECURITY_ENFORCED"}, "f" \in denied,
                        NEW k \in DOMAIN answer'.rows
                 PROVE  answer'.rows[k].f = Null
    BY <1>1 DEF Ask, DeniedIsNotShown
  <2>2. \/ answer'.rows = <<>>
        \/ /\ Exposed(q) = {}
           /\ \E part : answer'.rows = [j \in DOMAIN part |-> Shown(part[j], q)]
    <3>1. Checks(q)
      BY <2>1 DEF Checks
    <3> QED
      BY <1>1, <2>1, <3>1, AskFacts
  <2>3. CASE answer'.rows = <<>>
    BY <2>1, <2>3
  <2>4. ASSUME Exposed(q) = {}, NEW part, answer'.rows = [j \in DOMAIN part |-> Shown(part[j], q)]
        PROVE  answer'.rows[k].f = Null
    <3>1. "f" \notin q.fields
      BY <2>1, <2>4 DEF Exposed
    <3>2. \A i : Shown(i, q).f = Null
      BY <3>1 DEF Shown
    <3> QED
      BY <2>1, <2>4, <3>2
  <2> QED
    BY <2>2, <2>3, <2>4
<1>2. CASE UNCHANGED soqlVars
  BY <1>2 DEF soqlVars, DeniedIsNotShown
<1>3. CASE (\E r \in Row : StoreRow(r)) \/ (\E u \in Users : RunAs(u))
  BY <1>3, NoAnswerYet DEF DeniedIsNotShown
<1> QED
  BY <1>1, <1>2, <1>3 DEF SoqlNext

(* A text the filter is put behind is the text, AND and the filter. *)
LEMMA FilterIsBehind ==
  ASSUME NEW ts \in Seq(Tokens), NEW a \in Tokens
  PROVE  ts \o <<Token("and"), a>> = Between(ts, "and", <<a>>)
<1> DEFINE m == <<Token("and")>>
           b == <<a>>
           two == <<Token("and"), a>>
           l == ts \o m
           v == ts \o two
           w == l \o b
<1>1. Token("and") \in Tokens
  BY TokenFacts
<1>2. /\ m \in Seq(Tokens) /\ Len(m) = 1 /\ m[1] = Token("and")
      /\ b \in Seq(Tokens) /\ Len(b) = 1 /\ b[1] = a
      /\ two \in Seq(Tokens) /\ Len(two) = 2 /\ two[1] = Token("and") /\ two[2] = a
  BY <1>1
<1> HIDE DEF m, b, two
<1>3. /\ l \in Seq(Tokens) /\ Len(l) = Len(ts) + Len(m) /\ Len(ts) \in Nat
      /\ \A k \in 1..Len(ts) : l[k] = ts[k]
      /\ \A k \in 1..Len(m) : l[Len(ts) + k] = m[k]
  <2>1. m \in Seq(Tokens)
    BY <1>2
  <2> QED
    BY <2>1, ConcatFacts
<1>4. /\ v \in Seq(Tokens) /\ Len(v) = Len(ts) + Len(two)
      /\ \A k \in 1..Len(ts) : v[k] = ts[k]
      /\ \A k \in 1..Len(two) : v[Len(ts) + k] = two[k]
  <2>1. two \in Seq(Tokens)
    BY <1>2
  <2> QED
    BY <2>1, ConcatFacts
<1> HIDE DEF l, v
<1>5. /\ w \in Seq(Tokens) /\ Len(w) = Len(l) + Len(b)
      /\ \A k \in 1..Len(l) : w[k] = l[k]
      /\ \A k \in 1..Len(b) : w[Len(l) + k] = b[k]
  <2>1. l \in Seq(Tokens)
    BY <1>3
  <2>2. b \in Seq(Tokens)
    BY <1>2
  <2> QED
    BY <2>1, <2>2, ConcatFacts
<1> HIDE DEF w
<1>6. Len(v) = Len(w) /\ Len(v) = Len(ts) + 2
  BY <1>2, <1>3, <1>4, <1>5
<1>7. ASSUME NEW k \in 1..Len(v) PROVE v[k] = w[k]
  <2>1. CASE k \in 1..Len(ts)
    <3>1. k \in 1..Len(l)
      BY <1>2, <1>3, <2>1
    <3> QED
      BY <1>3, <1>4, <1>5, <2>1, <3>1
  <2>2. CASE k = Len(ts) + 1
    <3>1. 1 \in 1..Len(two) /\ 1 \in 1..Len(m) /\ k \in 1..Len(l)
      BY <1>2, <1>3, <2>2
    <3>2. v[k] = two[1] /\ l[k] = m[1] /\ w[k] = l[k]
      BY <1>3, <1>4, <1>5, <2>2, <3>1
    <3> QED
      BY <1>2, <3>2
  <2>3. CASE k = Len(ts) + 2
    <3>1. 2 \in 1..Len(two) /\ 1 \in 1..Len(b) /\ k = Len(l) + 1
      BY <1>2, <1>3, <2>3
    <3>2. v[k] = two[2] /\ w[k] = b[1]
      BY <1>4, <1>5, <2>3, <3>1
    <3> QED
      BY <1>2, <3>2
  <2>4. Len(ts) \in Nat /\ k \in 1..(Len(ts) + 2)
    BY <1>3, <1>6
  <2>5. k \in 1..Len(ts) \/ k = Len(ts) + 1 \/ k = Len(ts) + 2
    BY <2>4
  <2> QED
    BY <2>1, <2>2, <2>3, <2>5
<1>8. v = w
  BY <1>4, <1>5, <1>6, <1>7, SeqEqual
<1> QED
  BY <1>8 DEF v, w, l, m, b, two, Between

(* A row that the filter of a user leaves is the user's. *)
LEMMA FilteredRows ==
  ASSUME SoqlInv, NEW q \in Queries, Sharing(q.access), q.where.is # "or",
         NEW i \in Found(Shared(BuildLogical[q.where], q.access))
  PROVE  rows[i].owner = user
<1> DEFINE c == q.where
           ts == BuildLogical[c]
           a == IsOwner(user)
           atoms == OfAtoms(i, Finds)
<1>1. /\ c \in Conditions /\ ts \in Seq(Tokens) /\ user \in Users /\ a \in Atoms /\ a \in Tokens
      /\ Shared(ts, q.access) = IF ts = <<>> THEN <<a>> ELSE ts \o <<Token("and"), a>>
  <2>1. c \in Conditions /\ user \in Users
    BY QueryFacts, SharedFacts
  <2>2. a \in Atoms /\ a \in Tokens /\ ts \in Seq(Tokens)
    BY <2>1, TokenFacts, BuildLogicalFacts
  <2> QED
    BY <2>1, <2>2, SharedFacts
<1>2. /\ <<a>> \in Seq(Tokens) /\ <<a>> # <<>> /\ Balanced(<<a>>)
      /\ Outer(<<a>>, "or") = {} /\ Outer(<<a>>, "and") = {}
      /\ Verdict(<<a>>, atoms) = atoms[a] /\ atoms \in [Atoms -> Truths]
  BY <1>1, AtomFacts, AtomsHaveTruths DEF Joiners
<1>3. atoms[a] = OfAtom(a, i, Finds)
  BY <1>1, AtomsHaveTruths
<1>4. atoms[a] = "T" => rows[i].owner = user
  <2>1. a.col = "ownerid" /\ a.op = "=" /\ a.arg.v = user
    BY DEF IsOwner, Text
  <2> HIDE DEF a, atoms
  <2>2. Column(i, a.col) = rows[i].owner
    BY <2>1 DEF Column
  <2>3. OfAtom(a, i, Finds) = IF Null \in {rows[i].owner, user} THEN "U" ELSE Truth(rows[i].owner = user)
    BY <2>1, <2>2 DEF OfAtom
  <2> QED
    BY <1>3, <2>3 DEF Truth
<1>5. CASE ts = <<>>
  <2>1. Verdict(<<a>>, atoms) = "T"
    BY <1>1, <1>2, <1>5 DEF Found
  <2> QED
    BY <1>2, <1>4, <2>1
<1>6. CASE ts # <<>>
  <2>1. c # Anything /\ Balanced(ts) /\ Outer(ts, "or") = {}
    BY <1>1, <1>6, TextsNest
  <2>2. Shared(ts, q.access) = Between(ts, "and", <<a>>)
    BY <1>1, <1>6, FilterIsBehind
  <2>3. Between(ts, "and", <<a>>) # <<>>
    BY <1>1, <1>2, <2>1, JoinedFacts DEF Joiners
  <2>4. Verdict(Between(ts, "and", <<a>>), atoms) = "T"
    BY <2>2, <2>3 DEF Found
  <2>5. Verdict(Between(ts, "and", <<a>>), atoms) = And(Verdict(ts, atoms), Verdict(<<a>>, atoms))
    BY <1>1, <1>2, <2>1, JoinedByAnd
  <2>6. Verdict(<<a>>, atoms) = "T"
    BY <2>4, <2>5 DEF And
  <2> QED
    BY <1>2, <1>4, <2>6
<1> QED
  BY <1>5, <1>6

(* The owner of an id is that of its row. *)
LEMMA OwnerOfId ==
  ASSUME SoqlInv, NEW i \in DOMAIN rows
  PROVE  Owner(Ids[i]) = rows[i].owner
<1>1. DOMAIN rows \subseteq DOMAIN Ids
  BY LenProperties, SoqlAssumption DEF SoqlInv
<1>2. \A j \in DOMAIN rows : Ids[j] = Ids[i] => j = i
  BY <1>1, SoqlAssumption
<1>3. (CHOOSE j \in DOMAIN rows : Ids[j] = Ids[i]) = i
  BY <1>2
<1> QED
  BY <1>3 DEF Owner

(* Every step keeps OwnedUnlessOr. *)
LEMMA OwnedUnlessOrStep ==
  ASSUME SoqlInv, OwnedUnlessOr, [SoqlNext]_soqlVars
  PROVE  OwnedUnlessOr'
<1>1. ASSUME NEW q \in Queries, Ask(q) PROVE OwnedUnlessOr'
  <2>1. asked' = q /\ rows' = rows /\ user' = user /\ mode' = mode
    BY <1>1 DEF Ask
  <2>2. PICK a : answer' = a
    OBVIOUS
  <2>3. SUFFICES ASSUME a.kind = "list", Sharing(q.access), q.where.is # "or", NEW k \in DOMAIN a.rows
                 PROVE  Owner(a.rows[k].id) = user
    <3>1. Sharing(q.access)' <=> Sharing(q.access)
      BY <2>1 DEF Sharing
    <3>2. \A id : Owner(id)' = Owner(id)
      BY <2>1 DEF Owner
    <3> QED
      BY <2>1, <2>2, <2>3, <3>1, <3>2 DEF OwnedUnlessOr
  <2> DEFINE ts == Shared(BuildLogical[q.where], q.access)
  <2>4. \/ a.rows = <<>>
        \/ \E part \in Seq(Found(ts)) : a.rows = [j \in DOMAIN part |-> Shown(part[j], q)]
    BY <1>1, <2>2, <2>3, AskFacts
  <2>5. CASE a.rows = <<>>
    BY <2>3, <2>5
  <2> HIDE DEF ts
  <2>6. ASSUME NEW part \in Seq(Found(ts)), a.rows = [j \in DOMAIN part |-> Shown(part[j], q)]
        PROVE  Owner(a.rows[k].id) = user
    <3>1. k \in 1..Len(part) /\ a.rows[k] = Shown(part[k], q)
      BY <2>3, <2>6, LenProperties
    <3>2. part[k] \in Found(ts)
      BY <3>1, ElementOfSeq
    <3>3. part[k] \in DOMAIN rows /\ rows[part[k]].owner = user
      BY <2>3, <3>2, FilteredRows DEF Found, ts
    <3>4. a.rows[k].id = Ids[part[k]]
      BY <3>1 DEF Shown
    <3> QED
      BY <3>3, <3>4, OwnerOfId
  <2> QED
    BY <2>4, <2>5, <2>6
<1>2. CASE UNCHANGED soqlVars
  <2>1. rows' = rows /\ user' = user /\ mode' = mode /\ asked' = asked /\ answer' = answer
    BY <1>2 DEF soqlVars
  <2> QED
    BY <2>1 DEF OwnedUnlessOr, Owner, Sharing
<1>3. CASE (\E r \in Row : StoreRow(r)) \/ (\E u \in Users : RunAs(u))
  BY <1>3, NoAnswerYet DEF OwnedUnlessOr
<1> QED
  BY <1>1, <1>2, <1>3 DEF SoqlNext

(* A finite set as a list: each of its members, once. *)
LEMMA SetToSeqFacts ==
  ASSUME NEW S, IsFiniteSet(S)
  PROVE  SetToSeq(S) \in Seq(S) /\ Range(SetToSeq(S)) = S
<1> DEFINE n == Cardinality(S)
           p == SetToSeq(S)
           T == Range(p)
<1>1. n \in Nat /\ ExistsBijection(1..n, S)
  BY FS_CardinalityType
<1> HIDE DEF n
<1>2. \E f \in [1..n -> S] : IsInjective(f)
  BY <1>1 DEF ExistsBijection, Bijection, Injection
<1>3. p \in [1..n -> S] /\ IsInjective(p)
  BY <1>2 DEF SetToSeq, n
<1> HIDE DEF p
<1>4. T \in SUBSET S /\ p \in [1..n -> T]
  BY <1>3 DEF Range
<1>5. ExistsBijection(1..n, T)
  <2>1. \A t \in T : \E k \in 1..n : p[k] = t
    BY <1>3 DEF Range
  <2> HIDE DEF T
  <2>2. p \in Bijection(1..n, T)
    BY <1>3, <1>4, <2>1 DEF Bijection, Injection, Surjection
  <2> QED
    BY <2>2 DEF ExistsBijection
<1> HIDE DEF T
<1>6. IsFiniteSet(1..n) /\ Cardinality(1..n) = n
  BY <1>1, FS_Interval
<1>7. Cardinality(T) = n
  BY <1>5, <1>6, FS_Bijection
<1>8. T = S
  BY <1>4, <1>7, FS_Subset DEF n
<1>9. p \in Seq(S)
  BY <1>1, <1>3
<1> QED
  BY <1>8, <1>9 DEF p, T

(* The text a child subquery asks with. *)
KidsText(i, w) ==
  <<Atom("ref", "=", Text(Ids[i]))>>
    \o (IF w = Anything THEN <<>> ELSE <<Token("and")>> \o Enclosed(BuildLogical[w]))

(* The comparison a child subquery begins with. *)
LEMMA IdAtoms ==
  ASSUME SoqlInv, NEW i \in DOMAIN rows
  PROVE  /\ i \in DOMAIN Ids /\ Ids[i] \in Range(Ids) /\ Ids[i] # Null
         /\ Atom("ref", "=", Text(Ids[i])) \in Atoms
<1>1. DOMAIN rows = 1..Len(rows) /\ DOMAIN Ids = 1..Len(Ids) /\ Len(rows) <= Len(Ids)
      /\ Len(rows) \in Nat /\ Len(Ids) \in Nat
  BY LenProperties, SoqlAssumption DEF SoqlInv
<1>2. i \in DOMAIN Ids
  BY <1>1
<1>3. Ids[i] \in Range(Ids)
  BY <1>2 DEF Range
<1>4. Ids[i] # Null
  BY <1>3, SoqlAssumption
<1> QED
  BY <1>2, <1>3, <1>4, TokenFacts

(* Its text is that comparison, and the condition in parentheses. *)
LEMMA KidsTextFacts ==
  ASSUME SoqlInv, NEW i \in DOMAIN rows, NEW w \in Conditions
  PROVE  LET a == Atom("ref", "=", Text(Ids[i]))
         IN /\ w = Anything => KidsText(i, w) = <<a>>
            /\ w # Anything =>
                 /\ Enclosed(BuildLogical[w]) \in Seq(Tokens)
                 /\ KidsText(i, w) = Between(<<a>>, "and", Enclosed(BuildLogical[w]))
<1> DEFINE a == Atom("ref", "=", Text(Ids[i]))
           e == Enclosed(BuildLogical[w])
           m == <<Token("and")>>
           b == <<a>>
<1>1. b \in Seq(Tokens) /\ m \in Seq(Tokens)
  BY IdAtoms, AtomFacts, OneToken, TokenFacts
<1>2. w # Anything => e \in Seq(Tokens)
  BY TextsNest, BuildLogicalFacts, EnclosedFacts
<1>3. KidsText(i, w) = b \o (IF w = Anything THEN <<>> ELSE m \o e)
  BY DEF KidsText
<1>4. Between(b, "and", e) = (b \o m) \o e
  BY DEF Between
<1> HIDE DEF b, m, e
<1>5. b \o <<>> = b
  BY <1>1, ConcatEmptySeq
<1>6. ASSUME e \in Seq(Tokens) PROVE (b \o m) \o e = b \o (m \o e)
  <2>1. ASSUME NEW x \in Seq(Tokens), NEW y \in Seq(Tokens), NEW z \in Seq(Tokens)
        PROVE  (x \o y) \o z = x \o (y \o z)
    BY ConcatAssociative
  <2> QED
    BY <1>1, <1>6, <2>1
<1> QED
  BY <1>2, <1>3, <1>4, <1>5, <1>6 DEF e, b

(* SQLite takes it, *)
LEMMA KidsAreTaken ==
  ASSUME SoqlInv, NEW i \in DOMAIN rows, NEW w \in Conditions, ~Misread[w]
  PROVE  ~Refused(KidsText(i, w), FALSE)
<1> DEFINE a == Atom("ref", "=", Text(Ids[i]))
           b == <<a>>
           m == <<Token("and")>>
           l == <<Token("(")>>
           r == <<Token(")")>>
           t == BuildLogical[w]
           Bad(s) == RefusedIf(s, FALSE, Fails)
<1>1. a \in Atoms
  BY IdAtoms
<1>2. ~RefusedAtom(a, FALSE, Fails)
  BY DEF RefusedAtom, Atom, Text
<1>3. ~Bad(b) /\ ~Bad(m) /\ ~Bad(l) /\ ~Bad(r)
  BY <1>1, <1>2, RefusedTokens
<1>4. ~Bad(t)
  BY ConditionsAreTaken
<1>5. /\ b \in Seq(Tokens) /\ m \in Seq(Tokens) /\ l \in Seq(Tokens) /\ r \in Seq(Tokens)
      /\ t \in Seq(Tokens)
  BY <1>1, AtomFacts, BuildLogicalFacts, OneToken, TokenFacts
<1>6. w = Anything => KidsText(i, w) = b
  BY KidsTextFacts
<1>7. w # Anything => KidsText(i, w) = (b \o m) \o ((l \o t) \o r)
  BY KidsTextFacts DEF Between, Enclosed
<1> HIDE DEF b, m, l, r, t, Bad
<1>8. b \o m \in Seq(Tokens) /\ l \o t \in Seq(Tokens)
  BY <1>5, ConcatFacts
<1>9. (l \o t) \o r \in Seq(Tokens)
  BY <1>5, <1>8, ConcatFacts
<1>10. ~Bad(b \o m)
  BY <1>3, <1>5, RefusedOfJoined DEF Bad
<1>11. ~Bad(l \o t)
  BY <1>3, <1>4, <1>5, RefusedOfJoined DEF Bad
<1>12. ~Bad((l \o t) \o r)
  BY <1>3, <1>5, <1>8, <1>11, RefusedOfJoined DEF Bad
<1>13. ~Bad((b \o m) \o ((l \o t) \o r))
  <2> DEFINE x == b \o m
             y == (l \o t) \o r
  <2>1. x \in Seq(Tokens) /\ y \in Seq(Tokens) /\ ~Bad(x) /\ ~Bad(y)
    BY <1>8, <1>9, <1>10, <1>12
  <2> HIDE DEF x, y
  <2>2. ~Bad(x \o y)
    BY <2>1, RefusedOfJoined DEF Bad
  <2> QED
    BY <2>2 DEF x, y
<1> QED
  BY <1>3, <1>6, <1>7, <1>13 DEF Bad, Refused

(* and it finds the rows that are children and meet the condition. *)
LEMMA KidsFound ==
  ASSUME SoqlInv, NEW i \in DOMAIN rows, NEW w \in Conditions, ~Misread[w]
  PROVE  Found(KidsText(i, w)) = {j \in DOMAIN rows : rows[j].ref = Ids[i] /\ Meaning[w][j] = "T"}
<1> DEFINE a == Atom("ref", "=", Text(Ids[i]))
           b == <<a>>
           t == BuildLogical[w]
           ts == KidsText(i, w)
<1>1. /\ a \in Atoms /\ b \in Seq(Tokens) /\ b # <<>> /\ Balanced(b) /\ Outer(b, "or") = {}
      /\ \A atoms \in [Atoms -> Truths] : Verdict(b, atoms) = atoms[a]
  BY IdAtoms, AtomFacts DEF Joiners
<1>2. ASSUME NEW j \in DOMAIN rows
      PROVE  /\ OfAtoms(j, Finds) \in [Atoms -> Truths]
             /\ Verdict(b, OfAtoms(j, Finds)) = "T" <=> rows[j].ref = Ids[i]
  <2>1. OfAtoms(j, Finds) \in [Atoms -> Truths] /\ OfAtoms(j, Finds)[a] = OfAtom(a, j, Finds)
    BY <1>1, AtomsHaveTruths
  <2>2. a.col = "ref" /\ a.op = "=" /\ a.arg.v = Ids[i]
    BY DEF Atom, Text
  <2> HIDE DEF a
  <2>3. Column(j, a.col) = rows[j].ref
    BY <2>2 DEF Column
  <2>4. OfAtom(a, j, Finds) = IF Null \in {rows[j].ref, Ids[i]} THEN "U" ELSE Truth(rows[j].ref = Ids[i])
    BY <2>2, <2>3 DEF OfAtom
  <2>5. OfAtom(a, j, Finds) = "T" <=> rows[j].ref = Ids[i]
    BY <2>4, IdAtoms DEF Truth
  <2> HIDE DEF b
  <2> QED
    BY <1>1, <2>1, <2>5
<1>3. \A j \in DOMAIN rows : j \in Finds[w] <=> Meaning[w][j] = "T"
  BY ConditionsSayWhatTheyMean
<1>4. CASE w = Anything
  <2>1. ts = b
    BY <1>4, KidsTextFacts
  <2>2. \A j \in DOMAIN rows : Meaning[w][j] = "T"
    BY <1>3, <1>4, FindsFacts
  <2> HIDE DEF b, ts
  <2> QED
    BY <1>1, <1>2, <2>1, <2>2 DEF Found, ts
<1>5. CASE w # Anything
  <2> DEFINE e == Enclosed(t)
  <2>1. ts = Between(b, "and", e) /\ e \in Seq(Tokens)
    BY <1>5, KidsTextFacts
  <2>2. t \in Seq(Tokens) /\ Balanced(t)
    BY <1>5, BuildLogicalFacts, TextsNest
  <2>3. Balanced(e) /\ Outer(e, "or") = {} /\ Outer(e, "and") = {}
    BY <2>2, EnclosedFacts DEF Joiners
  <2> HIDE DEF b, e, ts
  <2>4. Between(b, "and", e) # <<>>
    BY <1>1, <2>1, <2>3, JoinedFacts DEF Joiners
  <2>5. ASSUME NEW j \in DOMAIN rows
        PROVE  Verdict(ts, OfAtoms(j, Finds)) = "T" <=> rows[j].ref = Ids[i] /\ Meaning[w][j] = "T"
    <3> DEFINE atoms == OfAtoms(j, Finds)
    <3>1. atoms \in [Atoms -> Truths]
      BY <1>2
    <3> HIDE DEF atoms
    <3>2. Verdict(ts, atoms) = And(Verdict(b, atoms), Verdict(e, atoms))
      BY <1>1, <2>1, <2>3, <3>1, JoinedByAnd
    <3>3. Verdict(e, atoms) = Verdict(t, atoms)
      BY <2>2, <3>1, VerdictOfEnclosed DEF e
    <3>4. Verdict(t, atoms) = "T" <=> Meaning[w][j] = "T"
      BY <1>3, <1>5, FindsFacts DEF atoms
    <3>5. And(Verdict(b, atoms), Verdict(t, atoms)) = "T"
            <=> Verdict(b, atoms) = "T" /\ Verdict(t, atoms) = "T"
      BY DEF And
    <3> QED
      BY <1>2, <3>2, <3>3, <3>4, <3>5 DEF atoms
  <2> QED
    BY <2>1, <2>4, <2>5 DEF Found, ts
<1> QED
  BY <1>4, <1>5

(* The ids of some rows are as many as the rows. *)
LEMMA IdsOfRows ==
  ASSUME SoqlInv, NEW S \in SUBSET DOMAIN rows
  PROVE  IsFiniteSet(S) /\ Cardinality({Ids[j] : j \in S}) = Cardinality(S)
<1> DEFINE T == {Ids[j] : j \in S}
           f == [j \in S |-> Ids[j]]
<1>1. IsFiniteSet(S)
  <2>1. DOMAIN rows = 1..Len(rows) /\ Len(rows) \in Nat
    BY LenProperties DEF SoqlInv
  <2>2. IsFiniteSet(1..Len(rows))
    BY <2>1, FS_Interval
  <2> QED
    BY <2>1, <2>2, FS_Subset
<1>2. \A j, k \in S : Ids[j] = Ids[k] => j = k
  BY IdAtoms, SoqlAssumption
<1>3. f \in Bijection(S, T)
  BY <1>2 DEF Bijection, Injection, Surjection, IsInjective
<1>4. ExistsBijection(S, T)
  BY <1>3 DEF ExistsBijection
<1> QED
  BY <1>1, <1>4, FS_Bijection

(* The children shown of a row. *)
LEMMA KidsOfRow ==
  ASSUME SoqlInv, NEW i \in DOMAIN rows, NEW q \in Queries, ~Misread[q.kids.where],
         NEW row, row.id = Ids[i], row.kids = KidsOf(i, q.kids.where, q.kids.limit)
  PROVE  KidsMeant(q, row)
<1> DEFINE w == q.kids.where
           limit == q.kids.limit
           meant == {j \in DOMAIN rows : rows[j].ref = Ids[i] /\ Meaning[w][j] = "T"}
           all == SetToSeq(meant)
           part == Sliced(all, limit, 0)
           shown == [k \in DOMAIN part |-> Ids[part[k]]]
<1>0. w \in Conditions /\ limit \in Nat /\ ~Misread[w]
  BY QueryFacts
<1>1. ~Refused(KidsText(i, w), FALSE) /\ Found(KidsText(i, w)) = meant
  BY <1>0, KidsAreTaken, KidsFound
<1>2. meant \in SUBSET DOMAIN rows
  OBVIOUS
<1> HIDE DEF meant
<1>3. KidsOf(i, w, limit) = shown
  BY <1>1 DEF KidsOf, KidsText
<1>4. IsFiniteSet(meant) /\ Cardinality({Ids[j] : j \in meant}) = Cardinality(meant)
  BY <1>2, IdsOfRows
<1>5. all \in Seq(meant) /\ Range(all) = meant
  BY <1>4, SetToSeqFacts
<1> HIDE DEF all
<1>6. part \in Seq(meant) /\ (limit = 0 => part = all)
  BY <1>0, <1>5, SlicedFacts
<1>7. \A k \in DOMAIN part : part[k] \in meant
  BY <1>6, LenProperties, ElementOfSeq
<1> HIDE DEF part
<1>8. Range(shown) \subseteq {Ids[j] : j \in meant}
  BY <1>7 DEF Range
<1>9. limit = 0 => Range(shown) = {Ids[j] : j \in meant}
  BY <1>5, <1>6 DEF Range
<1> HIDE DEF shown
<1> QED
  BY <1>3, <1>4, <1>8, <1>9 DEF meant, KidsMeant

(* Every step keeps KidsAreItsOwn. *)
LEMMA KidsAreItsOwnStep ==
  ASSUME SoqlInv, KidsAreItsOwn, [SoqlNext]_soqlVars
  PROVE  KidsAreItsOwn'
<1>1. ASSUME NEW q \in Queries, Ask(q) PROVE KidsAreItsOwn'
  <2>1. asked' = q /\ rows' = rows
    BY <1>1 DEF Ask
  <2>2. PICK a : answer' = a
    OBVIOUS
  <2> DEFINE w == q.kids.where
  <2>3. SUFFICES ASSUME a.kind = "list", q.kids.read, ~Misread[w], NEW k \in DOMAIN a.rows
                 PROVE  KidsMeant(q, a.rows[k])
    <3>1. Misread' = Misread /\ \A row : KidsMeant(q, row)' <=> KidsMeant(q, row)
      BY <2>1, SameMisread, SameKidsMeant
    <3> QED
      BY <2>1, <2>2, <2>3, <3>1 DEF KidsAreItsOwn
  <2> DEFINE ts == Shared(BuildLogical[q.where], q.access)
  <2>4. \/ a.rows = <<>>
        \/ \E part \in Seq(Found(ts)) : a.rows = [j \in DOMAIN part |-> Shown(part[j], q)]
    BY <1>1, <2>2, <2>3, AskFacts
  <2>5. CASE a.rows = <<>>
    BY <2>3, <2>5
  <2> HIDE DEF ts
  <2>6. ASSUME NEW part \in Seq(Found(ts)), a.rows = [j \in DOMAIN part |-> Shown(part[j], q)]
        PROVE  KidsMeant(q, a.rows[k])
    <3> DEFINE i == part[k]
    <3>1. k \in 1..Len(part) /\ a.rows[k] = Shown(i, q)
      BY <2>3, <2>6, LenProperties
    <3>2. i \in DOMAIN rows
      BY <3>1, ElementOfSeq DEF Found
    <3> HIDE DEF i
    <3>3. a.rows[k].id = Ids[i] /\ a.rows[k].kids = KidsOf(i, w, q.kids.limit)
      BY <2>3, <3>1 DEF Shown
    <3> QED
      BY <2>3, <3>2, <3>3, KidsOfRow
  <2> QED
    BY <2>4, <2>5, <2>6
<1>2. CASE UNCHANGED soqlVars
  <2>1. rows' = rows /\ asked' = asked /\ answer' = answer
    BY <1>2 DEF soqlVars
  <2>2. PICK q, a : asked = q /\ answer = a
    OBVIOUS
  <2>3. Misread' = Misread /\ \A row : KidsMeant(q, row)' <=> KidsMeant(q, row)
    BY <2>1, SameMisread, SameKidsMeant
  <2>4. asked' = q /\ answer' = a
    BY <2>1, <2>2
  <2> QED
    BY <2>2, <2>3, <2>4 DEF KidsAreItsOwn
<1>3. CASE (\E r \in Row : StoreRow(r)) \/ (\E u \in Users : RunAs(u))
  BY <1>3, NoAnswerYet DEF KidsAreItsOwn
<1> QED
  BY <1>1, <1>2, <1>3 DEF SoqlNext
-----------------------------------------------------------------------------
(* A query that works answers with the rows its condition means, whatever the conditions,   *)
(* the table and the rows: the SQL nests as the condition does (AnswersAsMeant).            *)
THEOREM ConditionsAreAnswered == SoqlSpec => []AnswersAsMeant
<1>1. SoqlInit => AnswersAsMeant
  BY DEF SoqlInit, AnswersAsMeant, Nothing
<1>2. SoqlInv /\ AnswersAsMeant /\ [SoqlNext]_soqlVars => AnswersAsMeant'
  BY AnswersAsMeantStep
<1> QED
  BY <1>1, <1>2, SoqlInvariance, PTL DEF SoqlSpec

(* Where sharing is enforced the answer's rows are the user's own, but under an OR           *)
(* (OwnedUnlessOr).                                                                         *)
THEOREM FilterHoldsUnlessOr == SoqlSpec => []OwnedUnlessOr
<1>1. SoqlInit => OwnedUnlessOr
  BY DEF SoqlInit, OwnedUnlessOr, Nothing
<1>2. SoqlInv /\ OwnedUnlessOr /\ [SoqlNext]_soqlVars => OwnedUnlessOr'
  BY OwnedUnlessOrStep
<1> QED
  BY <1>1, <1>2, SoqlInvariance, PTL DEF SoqlSpec

(* Where fields are checked no answer shows a denied field of its own object               *)
(* (DeniedIsNotShown).                                                                      *)
THEOREM DeniedFieldsAreNotShown == SoqlSpec => []DeniedIsNotShown
<1>1. SoqlInit => DeniedIsNotShown
  BY DEF SoqlInit, DeniedIsNotShown, Nothing
<1>2. SoqlInv /\ DeniedIsNotShown /\ [SoqlNext]_soqlVars => DeniedIsNotShown'
  BY DeniedIsNotShownStep
<1> QED
  BY <1>1, <1>2, SoqlInvariance, PTL DEF SoqlSpec

(* The child rows of a row are its own and those the subquery means (KidsAreItsOwn).        *)
THEOREM ChildrenAreItsOwn == SoqlSpec => []KidsAreItsOwn
<1>1. SoqlInit => KidsAreItsOwn
  BY DEF SoqlInit, KidsAreItsOwn, Nothing
<1>2. SoqlInv /\ KidsAreItsOwn /\ [SoqlNext]_soqlVars => KidsAreItsOwn'
  BY KidsAreItsOwnStep
<1> QED
  BY <1>1, <1>2, SoqlInvariance, PTL DEF SoqlSpec
=============================================================================
