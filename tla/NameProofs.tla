----------------------------- MODULE NameProofs -----------------------------
(***************************************************************************)
(* Proofs about names, for any names, objects with any fields, values and   *)
(* depth of calls and blocks.                                               *)
(***************************************************************************)
EXTENDS Names, ListFacts

Keys   == {Key(n) : n \in Statics}
Stored == Values \cup {Unset, Known}
Block  == UNION {[D -> Stored] : D \in SUBSET (Names \cup Keys)}
Entry  == UNION {[{s} -> Stored] : s \in Spellings}
Scope  == UNION {[D -> Entry] : D \in SUBSET (Names \cup Keys)}
Method == [this : Objects, owner : Objects \cup {None}, first : Nat]

(* The inductive invariant, for a program that has not confused names.      *)
(* Types: scopes, in which each name has one spelling, and what they        *)
(* declare, methods and where their scopes begin, two for each at the       *)
(* least, above the root.                                                   *)
Chain ==
  /\ env \in Seq(Scope) /\ declared \in Seq(SUBSET Names)
  /\ Len(declared) = Len(env)
  /\ \A i \in 1..Len(env) : declared[i] \subseteq DOMAIN env[i]
  /\ frames \in Seq(Method) /\ frames # <<>>
  /\ \A k \in 1..Len(frames) :
       2 <= frames[k].first /\ frames[k].first + 1 <= Len(env)
  /\ \A h, k \in 1..Len(frames) :
       h < k => frames[h].first + 1 < frames[k].first
  /\ fields = [o \in Objects |-> fields[o]]
  /\ \A o \in Objects : fields[o] \in [Fields[o] -> Stored]

(* A name that a scope has without declaring it was on no scope below.      *)
Alone ==
  \A i \in 1..Len(env) : \A n \in Names :
    n \in DOMAIN env[i] /\ n \notin declared[i] =>
      \A j \in 1..(i - 1) : n \notin DOMAIN env[j]

(* It is a copy of the field of the one object that the methods in          *)
(* progress from that scope on may mean by the name.                        *)
Copied ==
  \A i \in 1..Len(env) : \A n \in Names :
    n \in DOMAIN env[i] /\ n \notin declared[i] =>
      \E o \in Objects :
        /\ n \in Fields[o] /\ Sole(env[i][n]) = fields[o][n]
        /\ \A k \in 1..Len(frames) :
             /\ k < Len(frames) => i < frames[k + 1].first
             /\ n \in Fields[frames[k].this]
             => frames[k].this = o

(* No caller's variable has the name of a field of the callee.              *)
Clear ==
  \A k \in 1..Len(frames) : frames[k].owner # None =>
    /\ frames[k].owner = frames[k].this
    /\ \A n \in Fields[frames[k].owner] :
         \A i \in 1..(frames[k].first - 1) : n \notin declared[i]

NameInv == Chain /\ Alone /\ Copied /\ Clear

LEMMA HereFacts ==
  ASSUME Chain
  PROVE  /\ Len(frames) \in Nat \ {0} /\ Here = frames[Len(frames)]
         /\ Here \in Method /\ This \in Objects /\ This # None
         /\ Len(env) \in Nat /\ DOMAIN env = 1..Len(env)
         /\ Here.first \in 2..Len(env) /\ Here.first + 1 <= Len(env)
         /\ \A k \in 1..Len(frames) : frames[k] \in Method
         /\ \A i \in 1..Len(env) : env[i] \in Scope /\ declared[i] \in SUBSET Names
<1>1. frames \in Seq(Method) /\ frames # <<>>
  BY DEF Chain
<1>2. /\ Len(frames) \in Nat \ {0} /\ Here = frames[Len(frames)]
      /\ Here \in Method
  BY <1>1, FrontFacts DEF Here
<1>3. \A k \in 1..Len(frames) : frames[k] \in Method
  BY <1>1, LenProperties
<1>4. /\ Len(env) \in Nat /\ DOMAIN env = 1..Len(env)
      /\ \A i \in 1..Len(env) : env[i] \in Scope /\ declared[i] \in SUBSET Names
  BY LenProperties DEF Chain
<1>5. This \in Objects /\ This # None
  BY <1>2, NamesAssumption DEF This, Method
<1>6. 2 <= Here.first /\ Here.first + 1 <= Len(env) /\ Here.first \in Nat
  BY <1>2 DEF Chain, Method
<1>7. QED
  BY <1>2, <1>3, <1>4, <1>5, <1>6

LEMMA BlockFacts ==
  ASSUME NEW f \in Block
  PROVE  /\ DOMAIN f \subseteq Names \cup Keys
         /\ \A m \in DOMAIN f : f[m] \in Stored
         /\ f = [m \in DOMAIN f |-> f[m]]
BY DEF Block

LEMMA BlockType ==
  ASSUME NEW D, D \subseteq Names \cup Keys, NEW f \in [D -> Stored]
  PROVE  f \in Block
BY DEF Block

LEMMA ScopeFacts ==
  ASSUME NEW f \in Scope
  PROVE  /\ DOMAIN f \subseteq Names \cup Keys
         /\ \A m \in DOMAIN f : f[m] \in Entry
         /\ f = [m \in DOMAIN f |-> f[m]]
BY DEF Scope

LEMMA ScopeType ==
  ASSUME NEW D, D \subseteq Names \cup Keys, NEW f \in [D -> Entry]
  PROVE  f \in Scope
BY DEF Scope

(* What a scope has of a name spelt one way.                                *)
LEMMA EntryFacts ==
  ASSUME NEW x \in Entry
  PROVE  /\ \E s \in Spellings : DOMAIN x = {s}
         /\ \A t \in DOMAIN x : x[t] = Sole(x)
         /\ Range(x) = {Sole(x)} /\ Sole(x) \in Stored
<1>1. PICK s \in Spellings : x \in [{s} -> Stored]
  BY DEF Entry
<1>2. Range(x) = {x[s]}
  BY <1>1 DEF Range
<1>3. Sole(x) = x[s]
  BY <1>2 DEF Sole
<1>4. QED
  BY <1>1, <1>2, <1>3

LEMMA EntryType ==
  ASSUME NEW s \in Spellings, NEW v \in Stored, NEW x, x = [t \in {s} |-> v]
  PROVE  x \in Entry /\ DOMAIN x = {s} /\ Sole(x) = v
<1>1. x \in [{s} -> Stored] /\ DOMAIN x = {s} /\ x[s] = v
  OBVIOUS
<1>2. x \in Entry
  BY <1>1 DEF Entry
<1>3. QED
  BY <1>1, <1>2, EntryFacts

(* Scope f is scope d with value v for n.                                   *)
With(d, n, v, f) ==
  /\ f \in Scope /\ DOMAIN f = DOMAIN d \cup {n} /\ Sole(f[n]) = v
  /\ \A m \in DOMAIN d : m # n => f[m] = d[m]

(* A name that the scope does not have under another spelling is defined.   *)
LEMMA DefineFacts ==
  ASSUME NEW d \in Scope, NEW n \in Names \cup Keys, NEW s \in Spellings, NEW v \in Stored,
         n \in DOMAIN d => s \in DOMAIN d[n]
  PROVE  With(d, n, v, Define(d, n, s, v))
<1>1. /\ DOMAIN d \subseteq Names \cup Keys
      /\ \A m \in DOMAIN d : d[m] \in Entry
  BY ScopeFacts
<1>2. PICK old : old = IF n \in DOMAIN d THEN d[n] ELSE Empty
  OBVIOUS
<1>3. DOMAIN old \cup {s} = {s}
  <2>1. CASE n \in DOMAIN d
    BY <1>1, <1>2, <2>1, EntryFacts
  <2>2. CASE n \notin DOMAIN d
    BY <1>2, <2>2 DEF Empty
  <2>3. QED
    BY <2>1, <2>2
<1>4. PICK x : x = Put(old, s, v)
  OBVIOUS
<1>5. x \in Entry /\ Sole(x) = v
  <2>1. x = [t \in {s} |-> v]
    BY <1>3, <1>4 DEF Put
  <2>2. QED
    BY <2>1, EntryType
<1>6. PICK f : f = Put(d, n, x)
  OBVIOUS
<1>7. f = Define(d, n, s, v)
  BY <1>2, <1>4, <1>6 DEF Define
<1>8. /\ DOMAIN f = DOMAIN d \cup {n} /\ f[n] = x
      /\ \A m \in DOMAIN d : m # n => f[m] = d[m]
      /\ f = [m \in DOMAIN d \cup {n} |-> f[m]]
  BY <1>6 DEF Put
<1>9. f \in Scope
  <2>1. f \in [DOMAIN d \cup {n} -> Entry]
    BY <1>1, <1>5, <1>8
  <2>2. QED
    BY <1>1, <2>1, ScopeType
<1>10. QED
  BY <1>5, <1>7, <1>8, <1>9 DEF With

LEMMA ReplacedFacts ==
  ASSUME NEW f \in Scope, NEW n \in DOMAIN f, NEW t \in DOMAIN f[n], NEW v \in Stored
  PROVE  With(f, n, v, [f EXCEPT ![n][t] = v])
<1>1. /\ DOMAIN f \subseteq Names \cup Keys /\ f \in [DOMAIN f -> Entry]
  BY ScopeFacts
<1>101. f[n] \in Entry
  BY <1>1
<1>2. PICK s \in Spellings : f[n] \in [{s} -> Stored]
  BY <1>101 DEF Entry
<1>3. PICK x : x = [f[n] EXCEPT ![t] = v]
  OBVIOUS
<1>4. t = s /\ x = [y \in {s} |-> v]
  BY <1>2, <1>3
<1>5. x \in Entry /\ Sole(x) = v
  BY <1>4, EntryType
<1>6. [f EXCEPT ![n][t] = v] = [f EXCEPT ![n] = x]
  BY <1>3
<1>7. PICK g : g = [f EXCEPT ![n] = x]
  OBVIOUS
<1>8. g \in [DOMAIN f -> Entry] /\ g[n] = x /\ \A m \in DOMAIN f : m # n => g[m] = f[m]
  BY <1>1, <1>5, <1>7
<1>9. g \in Scope
  BY <1>1, <1>8, ScopeType
<1>10. DOMAIN g = DOMAIN f \cup {n}
  BY <1>8
<1>11. With(f, n, v, g)
  BY <1>5, <1>8, <1>9, <1>10 DEF With
<1>12. QED
  BY <1>6, <1>7, <1>11

LEMMA SomehowIs == Somehow \in Spellings
BY NamesAssumption DEF Somehow

(* A variable of the program's own scopes gets a value.                     *)
LEMMA BlockReplaced ==
  ASSUME NEW f \in Block, NEW n \in DOMAIN f, NEW v \in Stored
  PROVE  /\ [f EXCEPT ![n] = v] \in Block
         /\ DOMAIN [f EXCEPT ![n] = v] = DOMAIN f
         /\ [f EXCEPT ![n] = v][n] = v
         /\ \A m \in DOMAIN f : m # n => [f EXCEPT ![n] = v][m] = f[m]
<1>1. /\ DOMAIN f \subseteq Names \cup Keys /\ f \in [DOMAIN f -> Stored]
  BY BlockFacts
<1>2. [f EXCEPT ![n] = v] \in [DOMAIN f -> Stored]
  BY <1>1
<1>3. [f EXCEPT ![n] = v] \in Block
  BY <1>1, <1>2, BlockType
<1>4. QED
  BY <1>3

LEMMA EmptyScope == Empty \in Scope /\ Empty \in Block /\ DOMAIN Empty = {}
<1>1. Empty \in [{} -> Entry] /\ Empty \in [{} -> Stored]
  BY DEF Empty
<1>2. QED
  BY <1>1, ScopeType, BlockType DEF Empty

----------------------------------------------------------------------------
(* What names read as.                                                      *)

(* A variable of the method in progress is the nearest of its name.         *)
LEMMA Nearest ==
  ASSUME Chain, Alone, NEW n \in Names, Declares(n)
  PROVE  LET at == {i \in Here.first..Len(env) : n \in declared[i]}
         IN  /\ Having(n) # {} /\ at # {}
             /\ Max(Having(n)) = Max(at) /\ Max(at) \in at
             /\ Max(at) \in 1..Len(env) /\ n \in DOMAIN env[Max(at)]
<1> DEFINE at == {i \in Here.first..Len(env) : n \in declared[i]}
           H  == Having(n)
<1>1. /\ Len(env) \in Nat /\ Here.first \in 1..Len(env)
      /\ \A i \in 1..Len(env) : declared[i] \subseteq DOMAIN env[i]
      /\ H = {i \in 1..Len(env) : n \in DOMAIN env[i]}
  BY HereFacts DEF Chain, Having
<1>2. PICK d \in at : TRUE
  BY DEF Declares
<1>3. at \subseteq H /\ at # {} /\ H # {}
  BY <1>1, <1>2
<1>4. H \subseteq 0..Len(env) /\ at \subseteq 0..Len(env)
  BY <1>1
<1>5. Max(at) \in at /\ \A y \in at : y <= Max(at)
  <2> HIDE DEF at
  <2>1. QED
    BY <1>1, <1>3, <1>4, Maximum
<1>6. Max(H) \in H /\ \A y \in H : y <= Max(H)
  <2> HIDE DEF H
  <2>1. QED
    BY <1>1, <1>3, <1>4, Maximum
<1>7. Max(H) \in at
  <2>1. d \in H /\ d <= Max(H)
    BY <1>3, <1>6
  <2>2. CASE n \in declared[Max(H)]
    BY <1>1, <1>2, <1>6, <2>1, <2>2
  <2>3. CASE n \notin declared[Max(H)]
    <3>1. d # Max(H)
      BY <1>2, <2>3
    <3>2. d \in 1..(Max(H) - 1)
      BY <1>1, <1>6, <2>1, <3>1
    <3>3. n \notin DOMAIN env[d]
      BY <1>1, <1>6, <2>3, <3>2 DEF Alone
    <3>4. QED
      BY <1>1, <2>1, <3>3
  <2>4. QED
    BY <2>2, <2>3
<1>8. Max(H) = Max(at)
  <2>1. Max(H) <= Max(at) /\ Max(at) <= Max(H)
    BY <1>3, <1>5, <1>6, <1>7
  <2>2. Max(H) \in Nat /\ Max(at) \in Nat
    BY <1>4, <1>5, <1>6
  <2> HIDE DEF H, at
  <2>3. QED
    BY <2>1, <2>2
<1>9. QED
  BY <1>1, <1>3, <1>5, <1>6, <1>8

(* A field that no variable of its method hides: the chain has one copy of  *)
(* it at the most, and the copy agrees.                                     *)
LEMMA OneCopy ==
  ASSUME NameInv, NEW n \in Names, Own(n), ~Declares(n)
  PROVE  /\ Here.owner = This /\ HasField(n)
         /\ Having(n) # {} =>
              /\ Having(n) = {Max(Having(n))}
              /\ Max(Having(n)) \in 1..Len(env)
              /\ n \in DOMAIN env[Max(Having(n))]
              /\ n \notin declared[Max(Having(n))]
              /\ Sole(env[Max(Having(n))][n]) = fields[This][n]
         /\ \A i \in 1..Len(env) : n \notin declared[i]
<1> DEFINE H == Having(n)
<1>1. Chain /\ Alone /\ Copied /\ Clear
  BY DEF NameInv
<1>2. /\ Len(env) \in Nat /\ Here.first \in 1..Len(env)
      /\ H = {i \in 1..Len(env) : n \in DOMAIN env[i]}
      /\ Len(frames) \in Nat \ {0} /\ Here = frames[Len(frames)]
      /\ This # None /\ This \in Objects
  BY <1>1, HereFacts DEF Having
<1>3. /\ Here.owner = This
      /\ \A i \in 1..(Here.first - 1) : n \notin declared[i]
  BY <1>1, <1>2 DEF Clear, Own, This
<1>4. HasField(n)
  BY <1>2, <1>3 DEF Own, HasField
<1>5. \A i \in 1..Len(env) : n \notin declared[i]
  <2>1. \A i \in Here.first..Len(env) : n \notin declared[i]
    BY DEF Declares
  <2>2. \A i \in 1..Len(env) : i \in 1..(Here.first - 1) \/ i \in Here.first..Len(env)
    BY <1>2
  <2>3. QED
    BY <1>3, <2>1, <2>2
<1>6. ASSUME H # {} PROVE Max(H) \in H /\ \A y \in H : y <= Max(H)
  <2>1. H \subseteq 0..Len(env)
    BY <1>2
  <2> HIDE DEF H
  <2>2. QED
    BY <1>2, <1>6, <2>1, Maximum
<1>7. ASSUME H # {} PROVE H = {Max(H)}
  <2>1. SUFFICES ASSUME NEW y \in H PROVE y = Max(H)
    BY <1>6, <1>7
  <2>2. Max(H) \in 1..Len(env) /\ n \in DOMAIN env[Max(H)] /\ y <= Max(H)
    BY <1>2, <1>6, <1>7
  <2>3. \A j \in 1..(Max(H) - 1) : n \notin DOMAIN env[j]
    BY <1>1, <1>5, <2>2 DEF Alone
  <2>4. y \in 1..Len(env) /\ n \in DOMAIN env[y]
    BY <1>2
  <2> HIDE DEF H
  <2>5. QED
    BY <1>2, <2>2, <2>3, <2>4
<1>8. ASSUME H # {} PROVE Sole(env[Max(H)][n]) = fields[This][n]
  <2>1. Max(H) \in 1..Len(env) /\ n \in DOMAIN env[Max(H)]
    BY <1>2, <1>6, <1>8
  <2> DEFINE m == Max(H)
  <2> HIDE DEF m
  <2>2. m \in 1..Len(env) /\ n \in DOMAIN env[m] /\ n \notin declared[m]
    BY <1>5, <2>1 DEF m
  <2>3. PICK o \in Objects :
          /\ n \in Fields[o] /\ Sole(env[m][n]) = fields[o][n]
          /\ \A k \in 1..Len(frames) :
               /\ k < Len(frames) => m < frames[k + 1].first
               /\ n \in Fields[frames[k].this]
               => frames[k].this = o
    BY <1>1, <2>2 DEF Copied
  <2>4. Len(frames) \in 1..Len(frames) /\ ~(Len(frames) < Len(frames))
    BY <1>2
  <2>5. n \in Fields[frames[Len(frames)].this] /\ frames[Len(frames)].this = This
    BY <1>2, <1>4 DEF HasField, This
  <2>6. This = o
    BY <2>3, <2>4, <2>5
  <2>7. QED
    BY <2>3, <2>6 DEF m
<1>9. QED
  BY <1>2, <1>3, <1>4, <1>5, <1>6, <1>7, <1>8

(* The program's own state, as the chain shows it.                          *)
MeantIs ==
  /\ Scopes \in Seq(Block) /\ Len(Scopes) = Len(env)
  /\ \A i \in 1..Len(env) :
       DOMAIN Scopes[i] = declared[i] /\ \A n \in declared[i] : Scopes[i][n] = Sole(env[i][n])
  /\ Methods \in Seq([this : Objects \cup {None}, first : Nat])
  /\ Len(Methods) = Len(frames)
  /\ \A k \in 1..Len(frames) :
       Methods[k] = [this |-> frames[k].owner, first |-> frames[k].first]
  /\ Meant!Here = [this |-> Here.owner, first |-> Here.first]

LEMMA MeantFacts == ASSUME Chain PROVE MeantIs
<1>1. /\ Len(frames) \in Nat \ {0} /\ Here = frames[Len(frames)]
      /\ Here \in Method /\ Len(env) \in Nat /\ DOMAIN env = 1..Len(env)
      /\ \A i \in 1..Len(env) : env[i] \in Scope /\ declared[i] \in SUBSET Names
      /\ \A k \in 1..Len(frames) : frames[k] \in Method
      /\ \A i \in 1..Len(env) : declared[i] \subseteq DOMAIN env[i]
  BY HereFacts DEF Chain
<1>2. DOMAIN frames = 1..Len(frames)
  BY LenProperties DEF Chain
<1>3. \A i \in 1..Len(env) : Restricted(i) = [n \in declared[i] |-> Sole(env[i][n])]
  <2>1. SUFFICES ASSUME NEW i \in 1..Len(env)
                 PROVE  Restricted(i) = [n \in declared[i] |-> Sole(env[i][n])]
    OBVIOUS
  <2>2. DOMAIN env[i] \cap declared[i] = declared[i]
    BY <1>1
  <2>3. QED
    BY <2>2 DEF Restricted
<1>4. \A i \in 1..Len(env) : [n \in declared[i] |-> Sole(env[i][n])] \in Block
  <2>1. SUFFICES ASSUME NEW i \in 1..Len(env)
                 PROVE  [n \in declared[i] |-> Sole(env[i][n])] \in Block
    OBVIOUS
  <2>2. /\ declared[i] \subseteq Names \cup Keys
        /\ \A n \in declared[i] : Sole(env[i][n]) \in Stored
    BY <1>1, ScopeFacts, EntryFacts
  <2>3. [n \in declared[i] |-> Sole(env[i][n])] \in [declared[i] -> Stored]
    BY <2>2
  <2>4. QED
    BY <2>2, <2>3, BlockType
<1>5. Scopes \in [1..Len(env) -> Block]
  BY <1>1, <1>3, <1>4 DEF Scopes
<1>6. /\ Scopes \in Seq(Block) /\ Len(Scopes) = Len(env)
  BY <1>1, <1>5, SeqDef, LenProperties
<1>7. ASSUME NEW i \in 1..Len(env)
      PROVE  DOMAIN Scopes[i] = declared[i] /\ \A n \in declared[i] : Scopes[i][n] = Sole(env[i][n])
  <2>1. Scopes[i] = [n \in declared[i] |-> Sole(env[i][n])]
    BY <1>1, <1>3 DEF Scopes
  <2>2. QED
    BY <2>1
<1>8. Methods \in [1..Len(frames) -> [this : Objects \cup {None}, first : Nat]]
  BY <1>1, <1>2 DEF Methods, Method
<1> DEFINE M == [this : Objects \cup {None}, first : Nat]
<1>9. Methods \in Seq(M) /\ Len(Methods) = Len(frames)
  <2>1. Methods \in [1..Len(frames) -> M]
    BY <1>8
  <2> HIDE DEF M
  <2>2. QED
    BY <1>1, <2>1, SeqDef, LenProperties
<1>10. Meant!Here = Methods[Len(Methods)]
  BY DEF Meant!Here, Meant!Last
<1>11. \A k \in 1..Len(frames) :
         Methods[k] = [this |-> frames[k].owner, first |-> frames[k].first]
  BY <1>1, <1>2 DEF Methods
<1>12. QED
  BY <1>1, <1>6, <1>7, <1>9, <1>10, <1>11 DEF MeantIs

LEMMA MeantNames ==
  ASSUME Chain, NEW n
  PROVE  /\ Meant!Declaring(n) = {i \in Here.first..Len(env) : n \in declared[i]}
         /\ Meant!Own(n) <=> Own(n)
         /\ Meant!Visible(n) <=> Visible(n)
<1>1. Meant!Declaring(n)
        = {i \in Meant!Here.first..Len(Scopes) : n \in DOMAIN Scopes[i]}
  BY DEF Meant!Declaring
<1>2. Here.first \in 1..Len(env) /\ Len(env) \in Nat
  BY HereFacts
<1>3. Meant!Declaring(n) = {i \in Here.first..Len(env) : n \in declared[i]}
  <2>1. Len(Scopes) = Len(env) /\ Meant!Here.first = Here.first
    BY MeantFacts DEF MeantIs
  <2>2. \A i \in 1..Len(env) : DOMAIN Scopes[i] = declared[i]
    BY MeantFacts DEF MeantIs
  <2>3. \A i \in Here.first..Len(env) : i \in 1..Len(env)
    BY <1>2
  <2>4. QED
    BY <1>1, <2>1, <2>2, <2>3
<1>4. Meant!Own(n) <=> Own(n)
  BY MeantFacts DEF MeantIs, Meant!Own, Own
<1>5. Meant!Visible(n) <=> Visible(n)
  BY <1>3, <1>4 DEF Meant!Visible, Visible, Declares
<1>6. QED
  BY <1>3, <1>4, <1>5

LEMMA ReadsAsMeant ==
  ASSUME NameInv, NEW n \in Names, Visible(n), Mistaken(n) = {}
  PROVE  Reads(n) = {Meant!Lookup(n)} /\ Meant!Lookup(n) \in Stored
<1>1. Chain /\ Alone
  BY DEF NameInv
<1> DEFINE at == {i \in Here.first..Len(env) : n \in declared[i]}
<1>2. /\ Meant!Declaring(n) = at /\ (Meant!Own(n) <=> Own(n))
      /\ (at # {} <=> Declares(n))
  BY <1>1, MeantNames DEF Declares
<1>3. CASE Declares(n)
  <2> DEFINE m == Max(at)
  <2>1. /\ Having(n) # {} /\ at # {} /\ Max(Having(n)) = m /\ m \in at
        /\ m \in 1..Len(env) /\ n \in DOMAIN env[m]
    BY <1>1, <1>3, Nearest
  <2>2. Reads(n) = Range(env[m][n])
    BY <2>1 DEF Reads
  <2>3. Meant!Lookup(n) = Scopes[m][n]
    BY <1>2, <2>1 DEF Meant!Lookup, Meant!Max, Max
  <2>4. n \in declared[m]
    BY <2>1
  <2>5. env[m] \in Scope /\ \A x \in declared[m] : Scopes[m][x] = Sole(env[m][x])
    <3> HIDE DEF m
    <3>1. QED
      BY <1>1, <2>1, HereFacts, MeantFacts DEF MeantIs
  <2> HIDE DEF m
  <2>6. QED
    BY <2>1, <2>2, <2>3, <2>4, <2>5, ScopeFacts, EntryFacts
<1>4. CASE ~Declares(n)
  <2>1. Own(n) /\ (n \in ClassNames => Having(n) # {})
    BY <1>4 DEF Mistaken
  <2>2. /\ Here.owner = This /\ HasField(n)
        /\ Having(n) # {} => Sole(env[Max(Having(n))][n]) = fields[This][n]
    BY <1>4, <2>1, OneCopy
  <2>3. Reads(n) = {fields[This][n]}
    <3>1. CASE Having(n) = {}
      BY <2>1, <2>2, <3>1 DEF Reads
    <3>2. CASE Having(n) # {}
      <4>1. PICK m : m = Max(Having(n))
        OBVIOUS
      <4>2. /\ m \in 1..Len(env) /\ n \in DOMAIN env[m]
            /\ Sole(env[m][n]) = fields[This][n]
        BY <1>4, <2>1, <3>2, <4>1, OneCopy
      <4>3. env[m][n] \in Entry
        BY <1>1, <4>2, HereFacts, ScopeFacts
      <4>4. Reads(n) = Range(env[m][n])
        BY <3>2, <4>1 DEF Reads
      <4>5. QED
        BY <4>2, <4>3, <4>4, EntryFacts
    <3>3. QED
      BY <3>1, <3>2
  <2>4. Meant!Lookup(n) = fields[Here.owner][n]
    BY <1>1, <1>2, <1>4, <2>1, MeantFacts DEF MeantIs, Meant!Lookup
  <2>5. fields[This][n] \in Stored
    BY <1>1, <2>2, HereFacts DEF Chain, HasField
  <2>6. QED
    BY <2>2, <2>3, <2>4, <2>5
<1>5. QED
  BY <1>3, <1>4

(* And so do expressions.                                                   *)
LEMMA ValueMeant ==
  ASSUME NameInv, NEW e \in Names \cup Values, Says(e), MistakenIn(e) = {}
  PROVE  /\ Results(e) = {Meant!Meaning(e)} /\ Meant!Meaning(e) \in Stored
         /\ Meant!Says(e)
<1>1. Chain
  BY DEF NameInv
<1>2. CASE e \in Names
  <2>1. Visible(e) /\ Mistaken(e) = {}
    BY <1>2 DEF Says, MistakenIn
  <2>2. QED
    BY <1>1, <1>2, <2>1, ReadsAsMeant, MeantNames
    DEF Results, Meant!Meaning, Meant!Says
<1>3. CASE e \notin Names
  BY <1>3 DEF Results, Meant!Meaning, Meant!Says, Stored
<1>4. QED
  BY <1>2, <1>3

----------------------------------------------------------------------------
(* What a step leaves.                                                      *)

MeantAfter == Chain => MeantIs
LEMMA MeantNow == MeantAfter
BY MeantFacts DEF MeantAfter
LEMMA MeantThen == ASSUME Chain' PROVE MeantIs'
<1>1. MeantAfter'
  BY MeantNow, PTL
<1>2. QED
  BY <1>1 DEF MeantAfter

(* Two scopes are equal when they give each name the same.                  *)
LEMMA SameScope ==
  ASSUME NEW f \in Block, NEW g \in Block, DOMAIN f = DOMAIN g,
         \A m \in DOMAIN f : f[m] = g[m]
  PROVE  f = g
BY BlockFacts

LEMMA MethodsAre ==
  ASSUME Chain', NEW s \in Seq([this : Objects \cup {None}, first : Nat]),
         Len(s) = Len(frames'),
         \A k \in 1..Len(frames') :
           s[k] = [this |-> frames'[k].owner, first |-> frames'[k].first]
  PROVE  Methods' = s
<1>1. /\ Methods' \in Seq([this : Objects \cup {None}, first : Nat])
      /\ Len(Methods') = Len(frames')
      /\ \A k \in 1..Len(frames') :
           Methods'[k] = [this |-> frames'[k].owner, first |-> frames'[k].first]
  BY MeantThen DEF MeantIs
<1>2. \A k \in 1..Len(s) : Methods'[k] = s[k]
  BY <1>1
<1> DEFINE M == [this : Objects \cup {None}, first : Nat]
<1>3. Methods' \in Seq(M) /\ s \in Seq(M) /\ Len(Methods') = Len(s)
  BY <1>1
<1> HIDE DEF M
<1>4. QED
  BY <1>2, <1>3, SeqEqual

LEMMA ScopesAre ==
  ASSUME Chain', NEW s \in Seq(Block), Len(s) = Len(env'),
         \A i \in 1..Len(env') :
           DOMAIN s[i] = declared'[i] /\ \A m \in declared'[i] : s[i][m] = Sole(env'[i][m])
  PROVE  Scopes' = s
<1>1. /\ Scopes' \in Seq(Block) /\ Len(Scopes') = Len(env')
      /\ \A i \in 1..Len(env') :
           /\ DOMAIN Scopes'[i] = declared'[i]
           /\ \A m \in declared'[i] : Scopes'[i][m] = Sole(env'[i][m])
  BY MeantThen DEF MeantIs
<1>2. \A i \in 1..Len(s) : Scopes'[i] = s[i]
  <2>1. \A i \in 1..Len(s) : Scopes'[i] \in Block /\ s[i] \in Block
    BY <1>1, LenProperties
  <2>2. QED
    BY <1>1, <2>1, SameScope
<1>3. QED
  BY <1>1, <1>2, SeqEqual

(* The static variables are in the root scope under their keys.             *)
LEMMA StaticStays ==
  ASSUME \A x \in Keys : x \in DOMAIN env'[1] <=> x \in DOMAIN env[1],
         \A x \in Keys : x \in DOMAIN env[1] => env'[1][x] = env[1][x]
  PROVE  StaticValues' = StaticValues
<1>1. \A n \in Statics : Key(n) \in Keys
  BY DEF Keys
<1> HIDE DEF Keys
<1>2. QED
  BY <1>1 DEF StaticValues

(* A variable gets a value in one of the scopes.                            *)
Puts(j, n, v) ==
  /\ env' \in Seq(Scope) /\ Len(env') = Len(env)
  /\ \A i \in 1..Len(env) :
       DOMAIN env'[i] = IF i = j THEN DOMAIN env[i] \cup {n} ELSE DOMAIN env[i]
  /\ \A i \in 1..Len(env) : \A m \in DOMAIN env[i] :
       ~(i = j /\ m = n) => env'[i][m] = env[i][m]
  /\ Sole(env'[j][n]) = v
  /\ StaticValues' = StaticValues

LEMMA Written ==
  ASSUME Chain, NEW j \in 1..Len(env), NEW n \in Names, NEW v, NEW f,
         With(env[j], n, v, f), env' = [env EXCEPT ![j] = f]
  PROVE  Puts(j, n, v)
<1>1. /\ Len(env) \in Nat \ {0} /\ env \in Seq(Scope)
      /\ \A i \in 1..Len(env) : env[i] \in Scope
  BY HereFacts DEF Chain
<1>2. /\ f \in Scope /\ DOMAIN f = DOMAIN env[j] \cup {n} /\ Sole(f[n]) = v
      /\ \A m \in DOMAIN env[j] : m # n => f[m] = env[j][m]
  BY DEF With
<1>4. /\ env' \in Seq(Scope) /\ Len(env') = Len(env)
      /\ \A i \in 1..Len(env) : env'[i] = IF i = j THEN f ELSE env[i]
  BY <1>1, <1>2, ExceptSeq
<1>5. StaticValues' = StaticValues
  <2>1. \A x \in Keys : x # n
    BY NamesAssumption DEF Keys
  <2>2. CASE j = 1
    <3>1. env'[1] = f
      BY <1>1, <1>4, <2>2
    <3>2. QED
      BY <1>2, <2>1, <2>2, <3>1, StaticStays
  <2>3. CASE j # 1
    <3>1. env'[1] = env[1]
      BY <1>1, <1>4, <2>3
    <3>2. QED
      BY <3>1, StaticStays
  <2>4. QED
    BY <2>2, <2>3
<1>6. QED
  BY <1>1, <1>2, <1>4, <1>5 DEF Puts

LEMMA SameMethods ==
  ASSUME UNCHANGED frames
  PROVE  Methods' = Methods /\ Here' = Here /\ This' = This
BY DEF Methods, Here, This
----------------------------------------------------------------------------
(* The statements, one by one: each keeps the invariant and is Lexical's.    *)

(* int n = e;                                                               *)
LEMMA Declared ==
  ASSUME NameInv, NEW n \in Names, NEW e \in Names \cup Values,
         NEW s \in Spellings, Declare(n, s, e), confused' = {}
  PROVE  NameInv' /\ Meant!Declare(n, e)
<1>101. PICK v \in Results(e) : env' = [env EXCEPT ![Len(env)] = Define(@, n, s, v)]
  BY DEF Declare
<1>102. PICK top : top = Len(env)
  OBVIOUS
<1>1. Chain /\ Alone /\ Copied /\ Clear
  BY DEF NameInv
<1>2. /\ v \in Results(e) /\ top = Len(env)
      /\ ~Declares(n) /\ Says(e) /\ MistakenIn(e) = {} /\ Respelt(n, s) = {}
      /\ env' = [env EXCEPT ![top] = Define(@, n, s, v)]
      /\ declared' = [declared EXCEPT ![top] = @ \cup {n}]
      /\ UNCHANGED <<frames, fields>>
  BY <1>101, <1>102 DEF Declare
<1>3. v \in Stored /\ v = Meant!Meaning(e) /\ Meant!Says(e)
  BY <1>2, ValueMeant
<1>4. /\ top = Len(env) /\ top \in Nat /\ top \in 1..Len(env) /\ Here.first \in 2..top /\ Here.first + 1 <= top
      /\ \A i \in 1..Len(env) : declared[i] \in SUBSET Names /\ env[i] \in Scope
      /\ \A i \in 1..Len(env) : declared[i] \subseteq DOMAIN env[i]
      /\ Len(frames) \in Nat /\ \A k \in 1..Len(frames) : frames[k] \in Method
  BY <1>1, <1>102, HereFacts DEF Chain
<1>5. Puts(top, n, v)
  <2> DEFINE f == Define(env[top], n, s, v)
  <2>101. n \in DOMAIN env[top] => s \in DOMAIN env[top][n]
    BY <1>1, <1>2 DEF Respelt, Last
  <2>1. With(env[top], n, v, f)
    <3>1. env[top] \in Scope /\ n \in Names \cup Keys
      BY <1>4
    <3>2. QED
      BY <1>3, <2>101, <3>1, DefineFacts
  <2>2. env' = [env EXCEPT ![top] = f]
    BY <1>2
  <2> HIDE DEF f
  <2>3. QED
    BY <1>1, <1>4, <2>1, <2>2, Written
<1>6. /\ declared' \in Seq(SUBSET Names) /\ Len(declared') = Len(env)
      /\ \A i \in 1..Len(env) :
           declared'[i] = IF i = top THEN declared[i] \cup {n} ELSE declared[i]
  <2>1. declared[top] \cup {n} \in SUBSET Names
    BY <1>4
  <2>2. declared \in Seq(SUBSET Names) /\ top \in 1..Len(declared)
    BY <1>1, <1>4 DEF Chain
  <2>3. declared' = [declared EXCEPT ![top] = declared[top] \cup {n}]
    BY <1>2
  <2>4. /\ declared' \in Seq(SUBSET Names) /\ Len(declared') = Len(declared)
        /\ \A i \in 1..Len(declared) :
             declared'[i] = IF i = top THEN declared[top] \cup {n} ELSE declared[i]
    <3>1. QED
      BY <2>1, <2>2, <2>3, ExceptSeq
  <2>5. QED
    BY <1>1, <2>4 DEF Chain
<1>7. \A i \in 1..Len(env) : declared'[i] \subseteq DOMAIN env'[i]
  BY <1>4, <1>5, <1>6 DEF Puts
<1>8. Chain'
  <2>1. /\ frames' \in Seq(Method) /\ frames' # <<>>
        /\ \A k \in 1..Len(frames') :
             2 <= frames'[k].first /\ frames'[k].first + 1 <= Len(env')
        /\ \A h, k \in 1..Len(frames') :
             h < k => frames'[h].first + 1 < frames'[k].first
    BY <1>1, <1>2, <1>5 DEF Puts, Chain
  <2>2. fields' = [o \in Objects |-> fields'[o]]
        /\ \A o \in Objects : fields'[o] \in [Fields[o] -> Stored]
    BY <1>1, <1>2 DEF Chain
  <2>3. QED
    BY <1>5, <1>6, <1>7, <2>1, <2>2 DEF Puts, Chain
<1>9. \A i \in 1..Len(env) : \A m \in Names :
        m \in DOMAIN env'[i] /\ m \notin declared'[i] =>
          /\ m \in DOMAIN env[i] /\ m \notin declared[i]
          /\ env'[i][m] = env[i][m]
  BY <1>5, <1>6 DEF Puts
<1>10. Alone'
  <2>1. SUFFICES ASSUME NEW i \in 1..Len(env), NEW m \in Names,
                        m \in DOMAIN env'[i] /\ m \notin declared'[i],
                        NEW j \in 1..(i - 1)
                 PROVE  m \notin DOMAIN env'[j]
    BY <1>5 DEF Puts, Alone
  <2>2. m \notin DOMAIN env[j]
    BY <1>1, <1>9, <2>1 DEF Alone
  <2>3. j \in 1..Len(env) /\ j # top
    BY <1>4
  <2>4. QED
    BY <1>5, <2>2, <2>3 DEF Puts
<1>11. Copied'
  <2>1. SUFFICES ASSUME NEW i \in 1..Len(env), NEW m \in Names,
                        m \in DOMAIN env'[i] /\ m \notin declared'[i]
                 PROVE  \E o \in Objects :
                          /\ m \in Fields[o] /\ Sole(env'[i][m]) = fields'[o][m]
                          /\ \A k \in 1..Len(frames') :
                               /\ k < Len(frames') => i < frames'[k + 1].first
                               /\ m \in Fields[frames'[k].this]
                               => frames'[k].this = o
    BY <1>5 DEF Puts, Copied
  <2>2. QED
    BY <1>1, <1>2, <1>9, <2>1 DEF Copied
<1>12. Clear'
  <2>1. SUFFICES ASSUME NEW k \in 1..Len(frames), frames[k].owner # None
                 PROVE  /\ frames[k].owner = frames[k].this
                        /\ \A m \in Fields[frames[k].owner] :
                             \A i \in 1..(frames[k].first - 1) : m \notin declared'[i]
    BY <1>2 DEF Clear
  <2>2. /\ frames[k].owner = frames[k].this
        /\ \A m \in Fields[frames[k].owner] :
             \A i \in 1..(frames[k].first - 1) : m \notin declared[i]
    BY <1>1, <2>1 DEF Clear
  <2>3. \A i \in 1..(frames[k].first - 1) : i \in 1..Len(env) /\ i # top
    <3>1. frames[k].first \in Nat
      BY <1>4 DEF Method
    <3>2. frames[k].first + 1 <= Len(env)
      BY <1>1 DEF Chain
    <3>3. QED
      BY <1>4, <3>1, <3>2
  <2>4. QED
    BY <1>6, <2>2, <2>3
<1>13. Meant!Declaring(n) = {}
  BY <1>1, <1>2, MeantNames DEF Declares
<1>14. /\ Scopes \in Seq(Block) /\ Len(Scopes) = Len(env)
       /\ \A i \in 1..Len(env) :
            DOMAIN Scopes[i] = declared[i] /\ \A m \in declared[i] : Scopes[i][m] = Sole(env[i][m])
  BY <1>1, MeantFacts DEF MeantIs
<1>15. Scopes' = [Scopes EXCEPT ![Len(Scopes)] = Meant!Define(@, n, v)]
  <2> DEFINE g == Meant!Define(Scopes[top], n, v)
             q == [Scopes EXCEPT ![top] = g]
  <2>1. /\ DOMAIN g = declared[top] \cup {n} /\ g[n] = v
        /\ \A m \in declared[top] : m # n => g[m] = Sole(env[top][m])
    BY <1>4, <1>14 DEF Meant!Define
  <2>2. g \in Block
    <3>1. g \in [DOMAIN g -> Stored]
      <4>1. \A m \in declared[top] : Sole(env[top][m]) \in Stored
        BY <1>4, ScopeFacts, EntryFacts
      <4>2. \A m \in DOMAIN g : g[m] \in Stored
        BY <1>3, <2>1, <4>1
      <4>3. g = [m \in DOMAIN g |-> g[m]]
        BY DEF Meant!Define
      <4> HIDE DEF g
      <4>4. QED
        BY <4>2, <4>3
    <3>2. DOMAIN g \subseteq Names \cup Keys
      BY <1>4, <2>1
    <3> HIDE DEF g
    <3>3. QED
      BY <3>1, <3>2, BlockType
  <2>3. /\ q \in Seq(Block) /\ Len(q) = top
        /\ \A i \in 1..top : q[i] = IF i = top THEN g ELSE Scopes[i]
    <3> HIDE DEF g
    <3>1. QED
      BY <1>4, <1>14, <2>2, ExceptSeq
  <2> HIDE DEF g, q
  <2>4. ASSUME NEW i \in 1..top
        PROVE  DOMAIN q[i] = declared'[i] /\ \A m \in declared'[i] : q[i][m] = Sole(env'[i][m])
    <3>1. declared'[i] = IF i = top THEN declared[i] \cup {n} ELSE declared[i]
      BY <1>4, <1>6
    <3>2. \A m \in declared[i] : ~(i = top /\ m = n) => env'[i][m] = env[i][m]
      BY <1>4, <1>5 DEF Puts
    <3>3. CASE i = top
      BY <1>5, <2>1, <2>3, <3>1, <3>2, <3>3 DEF Puts
    <3>4. CASE i # top
      BY <1>4, <1>14, <2>3, <3>1, <3>2, <3>4
    <3>5. QED
      BY <3>3, <3>4
  <2>5. Scopes' = q
    BY <1>4, <1>5, <1>8, <2>3, <2>4, ScopesAre DEF Puts
  <2>6. QED
    BY <1>4, <1>14, <2>5 DEF q, g
<1>16. Meant!Declare(n, e)
  BY <1>2, <1>3, <1>5, <1>13, <1>15, SameMethods
  DEF Puts, Meant!Declare, Meant!Define
<1>17. QED
  BY <1>8, <1>10, <1>11, <1>12, <1>16 DEF NameInv

(* And a field of an object.                                                *)
FieldGets(o, n, v) ==
  /\ fields' = [p \in Objects |-> fields'[p]]
  /\ \A p \in Objects : fields'[p] \in [Fields[p] -> Stored]
  /\ fields'[o][n] = v
  /\ \A p \in Objects : \A m \in Fields[p] :
       ~(p = o /\ m = n) => fields'[p][m] = fields[p][m]

LEMMA FieldPut ==
  ASSUME Chain, NEW o \in Objects, NEW n \in Fields[o], NEW v \in Stored,
         fields' = [fields EXCEPT ![o][n] = v]
  PROVE  FieldGets(o, n, v)
<1>1. /\ DOMAIN fields = Objects /\ fields = [p \in Objects |-> fields[p]]
      /\ \A p \in Objects : fields[p] \in [Fields[p] -> Stored]
  BY DEF Chain
<1> DEFINE g == [fields[o] EXCEPT ![n] = v]
<1>2. /\ g \in [Fields[o] -> Stored] /\ g[n] = v
      /\ \A m \in Fields[o] : m # n => g[m] = fields[o][m]
  BY <1>1
<1>3. fields' = [fields EXCEPT ![o] = g]
  OBVIOUS
<1> HIDE DEF g
<1>4. \A p \in Objects : fields'[p] = IF p = o THEN g ELSE fields[p]
  BY <1>1, <1>3
<1>5. fields' = [p \in Objects |-> fields'[p]]
  BY <1>1, <1>3
<1>6. QED
  BY <1>1, <1>2, <1>4, <1>5 DEF FieldGets

LEMMA PutChain ==
  ASSUME Chain, NEW j \in 1..Len(env), NEW n \in Names, NEW v, Puts(j, n, v),
         UNCHANGED <<frames, declared>>,
         fields' = [p \in Objects |-> fields'[p]],
         \A p \in Objects : fields'[p] \in [Fields[p] -> Stored]
  PROVE  Chain'
<1>1. \A i \in 1..Len(env) : declared'[i] \subseteq DOMAIN env'[i]
  BY DEF Puts, Chain
<1>2. /\ env' \in Seq(Scope) /\ Len(env') = Len(env)
      /\ declared' \in Seq(SUBSET Names) /\ Len(declared') = Len(env)
  BY DEF Puts, Chain
<1>3. /\ frames' \in Seq(Method) /\ frames' # <<>>
      /\ \A k \in 1..Len(frames') :
           2 <= frames'[k].first /\ frames'[k].first + 1 <= Len(env')
      /\ \A h, k \in 1..Len(frames') :
           h < k => frames'[h].first + 1 < frames'[k].first
  BY <1>2 DEF Chain
<1>4. QED
  BY <1>1, <1>2, <1>3 DEF Chain

LEMMA SameClear ==
  ASSUME Clear, UNCHANGED <<frames, declared>>
  PROVE  Clear'
BY DEF Clear

(* n = e, a variable of the method.                                         *)
LEMMA AssignedVariable ==
  ASSUME NameInv, NEW n \in Names, NEW e \in Names \cup Values,
         Assign(n, e), confused' = {}, Declares(n)
  PROVE  NameInv' /\ Meant!Assign(n, e)
<1> DEFINE at == {i \in Here.first..Len(env) : n \in declared[i]}
<1>101. PICK v \in Results(e) :
          /\ env' \in Set(n, v)
          /\ fields' = IF HasField(n) THEN [fields EXCEPT ![This][n] = v] ELSE fields
  BY DEF Assign
<1>102. PICK j : j = Max(at)
  OBVIOUS
<1>1. Chain /\ Alone /\ Copied /\ Clear
  BY DEF NameInv
<1>2. /\ v \in Results(e) /\ Visible(n) /\ Says(e) /\ MistakenIn(e) = {}
      /\ env' \in Set(n, v) /\ ~HasField(n)
      /\ UNCHANGED <<frames, declared, fields>>
  BY <1>101 DEF Assign
<1>3. v \in Stored /\ v = Meant!Meaning(e) /\ Meant!Says(e)
  BY <1>2, ValueMeant
<1>4. /\ Having(n) # {} /\ at # {} /\ Max(Having(n)) = j
      /\ j \in at /\ j \in 1..Len(env) /\ n \in DOMAIN env[j]
  BY <1>1, <1>102, Nearest
<1>5. n \in declared[j]
  BY <1>4
<1>6. /\ Len(env) \in Nat
      /\ \A i \in 1..Len(env) : declared[i] \in SUBSET Names /\ env[i] \in Scope
      /\ \A i \in 1..Len(env) : declared[i] \subseteq DOMAIN env[i]
  BY <1>1, HereFacts DEF Chain
<1>7. Puts(j, n, v)
  <2>101. PICK t \in DOMAIN env[j][n] : env' = [env EXCEPT ![j][n][t] = v]
    <3>1. env' \in SetIn(j, n, Spellings, v)
      BY <1>2, <1>4 DEF Set
    <3>2. QED
      BY <1>4, <3>1 DEF SetIn
  <2> DEFINE f == [env[j] EXCEPT ![n][t] = v]
  <2>1. With(env[j], n, v, f)
    <3>1. env[j] \in Scope
      BY <1>4, <1>6
    <3>2. QED
      BY <1>3, <1>4, <3>1, ReplacedFacts
  <2>2. env' = [env EXCEPT ![j] = f]
    BY <2>101
  <2> HIDE DEF f, at
  <2>3. QED
    BY <1>1, <1>4, <2>1, <2>2, Written
<1>8. Chain'
  <2>1. /\ fields' = [p \in Objects |-> fields'[p]]
        /\ \A p \in Objects : fields'[p] \in [Fields[p] -> Stored]
    BY <1>1, <1>2 DEF Chain
  <2>2. QED
    BY <1>1, <1>2, <1>4, <1>7, <2>1, PutChain
<1>9. \A i \in 1..Len(env) : DOMAIN env'[i] = DOMAIN env[i]
  BY <1>4, <1>7 DEF Puts
<1>10. Alone'
  <2>1. SUFFICES ASSUME NEW i \in 1..Len(env), NEW m \in Names,
                        m \in DOMAIN env[i] /\ m \notin declared[i],
                        NEW h \in 1..(i - 1)
                 PROVE  m \notin DOMAIN env'[h]
    BY <1>2, <1>7, <1>9 DEF Alone, Puts
  <2>2. m \notin DOMAIN env[h]
    BY <1>1, <2>1 DEF Alone
  <2>3. h \in 1..Len(env)
    BY <1>6
  <2>4. QED
    BY <1>9, <2>2, <2>3
<1>11. Copied'
  <2>1. SUFFICES ASSUME NEW i \in 1..Len(env), NEW m \in Names,
                        m \in DOMAIN env[i] /\ m \notin declared[i]
                 PROVE  \E o \in Objects :
                          /\ m \in Fields[o] /\ Sole(env'[i][m]) = fields[o][m]
                          /\ \A k \in 1..Len(frames) :
                               /\ k < Len(frames) => i < frames[k + 1].first
                               /\ m \in Fields[frames[k].this]
                               => frames[k].this = o
    BY <1>2, <1>7, <1>9 DEF Copied, Puts
  <2>2. env'[i][m] = env[i][m]
    BY <1>5, <1>7, <2>1 DEF Puts
  <2>3. QED
    BY <1>1, <2>1, <2>2 DEF Copied
<1>12. Clear'
  BY <1>1, <1>2, SameClear
<1>13. Meant!Declaring(n) = at /\ Meant!Visible(n)
  BY <1>1, <1>2, MeantNames
<1>14. Meant!Max(Meant!Declaring(n)) = j
  BY <1>102, <1>13 DEF Meant!Max, Max
<1>15. /\ Scopes \in Seq(Block) /\ Len(Scopes) = Len(env)
       /\ \A i \in 1..Len(env) :
            DOMAIN Scopes[i] = declared[i] /\ \A m \in declared[i] : Scopes[i][m] = Sole(env[i][m])
  BY <1>1, MeantFacts DEF MeantIs
<1>16. Scopes' = [Scopes EXCEPT ![j][n] = v]
  <2> DEFINE g == [Scopes[j] EXCEPT ![n] = v]
             s == [Scopes EXCEPT ![j] = g]
  <2>1. Scopes[j] \in Block /\ n \in DOMAIN Scopes[j]
    <3> HIDE DEF at
    <3>1. QED
      BY <1>4, <1>5, <1>15, LenProperties
  <2>2. /\ g \in Block /\ DOMAIN g = declared[j] /\ g[n] = v
        /\ \A m \in declared[j] : m # n => g[m] = Sole(env[j][m])
    BY <1>3, <1>4, <1>15, <2>1, BlockReplaced
  <2>3. /\ s \in Seq(Block) /\ Len(s) = Len(env)
        /\ \A i \in 1..Len(env) : s[i] = IF i = j THEN g ELSE Scopes[i]
    <3> HIDE DEF g, at
    <3>1. QED
      BY <1>4, <1>15, <2>2, ExceptSeq
  <2> HIDE DEF g, s
  <2>4. ASSUME NEW i \in 1..Len(env)
        PROVE  DOMAIN s[i] = declared'[i] /\ \A m \in declared'[i] : s[i][m] = Sole(env'[i][m])
    <3>1. declared'[i] = declared[i]
      BY <1>2
    <3>2. \A m \in declared[i] : ~(i = j /\ m = n) => env'[i][m] = env[i][m]
      BY <1>6, <1>7 DEF Puts
    <3>3. CASE i = j
      BY <1>7, <2>2, <2>3, <3>1, <3>2, <3>3 DEF Puts
    <3>4. CASE i # j
      BY <1>15, <2>3, <3>1, <3>2, <3>4
    <3>5. QED
      BY <3>3, <3>4
  <2>5. Scopes' = s
    BY <1>7, <1>8, <2>3, <2>4, ScopesAre DEF Puts
  <2>6. QED
    BY <2>5 DEF s, g
<1>17. Meant!Assign(n, e)
  <2>1. Meant!Declaring(n) # {} /\ UNCHANGED <<fields, StaticValues, Methods>>
    BY <1>2, <1>4, <1>7, <1>13, SameMethods DEF Puts
  <2>2. Scopes' = [Scopes EXCEPT ![Meant!Max(Meant!Declaring(n))][n] = Meant!Meaning(e)]
    BY <1>3, <1>14, <1>16
  <2>3. QED
    BY <1>3, <1>13, <2>1, <2>2 DEF Meant!Assign
<1>18. QED
  BY <1>8, <1>10, <1>11, <1>12, <1>17 DEF NameInv

(* n = e, a field of the method's object: the chain's copy is written too.  *)
LEMMA AssignedField ==
  ASSUME NameInv, NEW n \in Names, NEW e \in Names \cup Values,
         Assign(n, e), confused' = {}, ~Declares(n)
  PROVE  NameInv' /\ Meant!Assign(n, e)
<1>101. PICK v \in Results(e) :
          /\ env' \in Set(n, v)
          /\ fields' = IF HasField(n) THEN [fields EXCEPT ![This][n] = v] ELSE fields
  BY DEF Assign
<1>1. Chain /\ Alone /\ Copied /\ Clear
  BY DEF NameInv
<1>2. /\ v \in Results(e) /\ Visible(n) /\ Says(e) /\ MistakenIn(e) = {}
      /\ env' \in Set(n, v) /\ Own(n)
      /\ fields' = IF HasField(n) THEN [fields EXCEPT ![This][n] = v] ELSE fields
      /\ UNCHANGED <<frames, declared>>
  BY <1>101 DEF Assign
<1>3. v \in Stored /\ v = Meant!Meaning(e) /\ Meant!Says(e)
  BY <1>2, ValueMeant
<1>4. /\ Here.owner = This /\ HasField(n)
      /\ Having(n) # {} =>
           /\ Having(n) = {Max(Having(n))}
           /\ Max(Having(n)) \in 1..Len(env)
           /\ n \in DOMAIN env[Max(Having(n))]
           /\ n \notin declared[Max(Having(n))]
           /\ Sole(env[Max(Having(n))][n]) = fields[This][n]
      /\ \A i \in 1..Len(env) : n \notin declared[i]
  BY <1>2, OneCopy
<1>5. /\ Len(env) \in Nat /\ Len(env) \in 1..Len(env) /\ DOMAIN env = 1..Len(env)
      /\ This \in Objects /\ n \in Fields[This]
      /\ Len(frames) \in Nat \ {0} /\ Here = frames[Len(frames)]
      /\ \A i \in 1..Len(env) : declared[i] \in SUBSET Names /\ env[i] \in Scope
      /\ \A i \in 1..Len(env) : declared[i] \subseteq DOMAIN env[i]
  BY <1>1, <1>4, HereFacts DEF Chain, HasField
(* The one scope that has the name, or else the last, gets the value.       *)
<1>6. \E j \in 1..Len(env) :
        /\ Puts(j, n, v)
        /\ \A i \in 1..Len(env) : i # j => n \notin DOMAIN env[i]
        /\ n \in DOMAIN env[j] \/ j = Len(env)
  <2>1. CASE Having(n) # {}
    <3>1. PICK j : j = Max(Having(n))
      OBVIOUS
    <3>2. /\ j \in 1..Len(env) /\ n \in DOMAIN env[j] /\ Having(n) = {j}
      BY <1>4, <2>1, <3>1
    <3>101. PICK t \in DOMAIN env[j][n] : env' = [env EXCEPT ![j][n][t] = v]
      <4>1. env' \in SetIn(j, n, Spellings, v)
        BY <1>2, <2>1, <3>1 DEF Set
      <4>2. QED
        BY <3>2, <4>1 DEF SetIn
    <3> DEFINE f == [env[j] EXCEPT ![n][t] = v]
    <3>3. With(env[j], n, v, f)
      <4>1. env[j] \in Scope
        BY <1>5, <3>2
      <4>2. QED
        BY <1>3, <3>2, <4>1, ReplacedFacts
    <3>4. env' = [env EXCEPT ![j] = f]
      BY <3>101
    <3>5. Puts(j, n, v)
      <4> HIDE DEF f
      <4>1. QED
        BY <1>1, <3>2, <3>3, <3>4, Written
    <3>6. \A i \in 1..Len(env) : i # j => n \notin DOMAIN env[i]
      BY <1>5, <3>2 DEF Having
    <3>7. QED
      BY <3>2, <3>5, <3>6
  <2>2. CASE Having(n) = {}
    <3>1. PICK j : j = Len(env)
      OBVIOUS
    <3>2. j \in 1..Len(env) /\ n \notin DOMAIN env[j] /\ env[j] \in Scope
      BY <1>5, <2>2, <3>1 DEF Having
    <3>101. PICK s \in Spellings : env' = [env EXCEPT ![j] = Define(@, n, s, v)]
      <4>1. env' \in SetIn(j, n, Spellings, v)
        BY <1>2, <2>2, <3>1 DEF Set
      <4>2. QED
        BY <3>2, <4>1 DEF SetIn
    <3> DEFINE f == Define(env[j], n, s, v)
    <3>3. With(env[j], n, v, f)
      BY <1>3, <3>2, DefineFacts
    <3>4. env' = [env EXCEPT ![j] = f]
      BY <3>101
    <3>5. Puts(j, n, v)
      <4> HIDE DEF f
      <4>1. QED
        BY <1>1, <3>2, <3>3, <3>4, Written
    <3>6. \A i \in 1..Len(env) : n \notin DOMAIN env[i]
      BY <1>5, <2>2 DEF Having
    <3>7. QED
      BY <3>1, <3>2, <3>5, <3>6
  <2>3. QED
    BY <2>1, <2>2
<1>7. PICK j \in 1..Len(env) :
        /\ Puts(j, n, v)
        /\ \A i \in 1..Len(env) : i # j => n \notin DOMAIN env[i]
        /\ n \in DOMAIN env[j] \/ j = Len(env)
  BY <1>6
<1>8. /\ fields' = [p \in Objects |-> fields'[p]]
      /\ \A p \in Objects : fields'[p] \in [Fields[p] -> Stored]
      /\ fields'[This][n] = v
      /\ \A p \in Objects : \A m \in Fields[p] :
           ~(p = This /\ m = n) => fields'[p][m] = fields[p][m]
  <2>1. PICK o : o = This
    OBVIOUS
  <2>2. o \in Objects /\ n \in Fields[o] /\ fields' = [fields EXCEPT ![o][n] = v]
    BY <1>2, <1>4, <1>5, <2>1
  <2>3. FieldGets(o, n, v)
    BY <1>1, <1>3, <2>2, FieldPut
  <2>4. QED
    BY <2>1, <2>3 DEF FieldGets
<1>9. Chain'
  BY <1>1, <1>2, <1>7, <1>8, PutChain
<1>10. ASSUME NEW i \in 1..Len(env), NEW m \in Names,
              m \in DOMAIN env'[i], m \notin declared[i], m # n
       PROVE  m \in DOMAIN env[i] /\ env'[i][m] = env[i][m]
  BY <1>7, <1>10 DEF Puts
<1>11. Alone'
  <2>1. SUFFICES ASSUME NEW i \in 1..Len(env), NEW m \in Names,
                        m \in DOMAIN env'[i] /\ m \notin declared[i],
                        NEW h \in 1..(i - 1)
                 PROVE  m \notin DOMAIN env'[h]
    BY <1>2, <1>7 DEF Alone, Puts
  <2>2. h \in 1..Len(env) /\ h # i
    BY <1>5
  <2>3. CASE m = n
    <3>1. i = j
      BY <1>7, <2>1, <2>3 DEF Puts
    <3>2. QED
      BY <1>7, <2>2, <2>3, <3>1 DEF Puts
  <2>4. CASE m # n
    <3>1. m \in DOMAIN env[i]
      BY <1>10, <2>1, <2>4
    <3>2. m \notin DOMAIN env[h]
      BY <1>1, <2>1, <3>1 DEF Alone
    <3>3. QED
      BY <1>7, <2>2, <2>4, <3>2 DEF Puts
  <2>5. QED
    BY <2>3, <2>4
<1>12. \A k \in 1..Len(frames) :
         /\ k < Len(frames) => j < frames[k + 1].first
         /\ n \in Fields[frames[k].this]
         => frames[k].this = This
  <2>1. CASE n \in DOMAIN env[j]
    <3>1. PICK o \in Objects :
            \A k \in 1..Len(frames) :
              /\ k < Len(frames) => j < frames[k + 1].first
              /\ n \in Fields[frames[k].this]
              => frames[k].this = o
      BY <1>1, <1>4, <1>7, <2>1 DEF Copied
    <3>2. /\ Len(frames) \in 1..Len(frames) /\ ~(Len(frames) < Len(frames))
          /\ frames[Len(frames)].this = This
      BY <1>5 DEF This
    <3>3. This = o
      BY <1>5, <3>1, <3>2
    <3>4. QED
      BY <3>1, <3>3
  <2>2. CASE n \notin DOMAIN env[j]
    <3>1. j = Len(env)
      BY <1>7, <2>2
    <3>2. SUFFICES ASSUME NEW k \in 1..Len(frames),
                          k < Len(frames) => j < frames[k + 1].first
                   PROVE  frames[k].this = This
      OBVIOUS
    <3>3. CASE k = Len(frames)
      BY <1>5, <3>3 DEF This
    <3>4. CASE k # Len(frames)
      <4>1. k + 1 \in 1..Len(frames) /\ k < Len(frames)
        BY <1>5, <3>4
      <4>2. frames[k + 1].first + 1 <= Len(env) /\ frames[k + 1] \in Method
        BY <1>1, <4>1, HereFacts DEF Chain
      <4>3. frames[k + 1].first \in Nat
        BY <4>2 DEF Method
      <4>4. ~(Len(env) < frames[k + 1].first)
        BY <1>5, <4>2, <4>3
      <4>5. QED
        BY <3>1, <3>2, <4>1, <4>4
    <3>5. QED
      BY <3>3, <3>4
  <2>3. QED
    BY <2>1, <2>2
<1>13. Copied'
  <2>1. SUFFICES ASSUME NEW i \in 1..Len(env), NEW m \in Names,
                        m \in DOMAIN env'[i] /\ m \notin declared[i]
                 PROVE  \E o \in Objects :
                          /\ m \in Fields[o] /\ Sole(env'[i][m]) = fields'[o][m]
                          /\ \A k \in 1..Len(frames) :
                               /\ k < Len(frames) => i < frames[k + 1].first
                               /\ m \in Fields[frames[k].this]
                               => frames[k].this = o
    BY <1>2, <1>7 DEF Copied, Puts
  <2>2. CASE m = n
    <3>1. i = j /\ Sole(env'[i][m]) = v
      BY <1>7, <2>1, <2>2 DEF Puts
    <3>2. QED
      BY <1>5, <1>8, <1>12, <2>2, <3>1
  <2>3. CASE m # n
    <3>1. m \in DOMAIN env[i] /\ env'[i][m] = env[i][m]
      BY <1>10, <2>1, <2>3
    <3>2. PICK o \in Objects :
            /\ m \in Fields[o] /\ Sole(env[i][m]) = fields[o][m]
            /\ \A k \in 1..Len(frames) :
                 /\ k < Len(frames) => i < frames[k + 1].first
                 /\ m \in Fields[frames[k].this]
                 => frames[k].this = o
      BY <1>1, <2>1, <3>1 DEF Copied
    <3>3. fields'[o][m] = fields[o][m]
      BY <1>8, <2>3, <3>2
    <3>4. QED
      BY <3>1, <3>2, <3>3
  <2>4. QED
    BY <2>2, <2>3
<1>14. Clear'
  BY <1>1, <1>2, SameClear
<1>15. /\ Scopes \in Seq(Block) /\ Len(Scopes) = Len(env)
       /\ \A i \in 1..Len(env) :
            DOMAIN Scopes[i] = declared[i] /\ \A m \in declared[i] : Scopes[i][m] = Sole(env[i][m])
       /\ Meant!Here.this = This
  BY <1>1, <1>4, MeantFacts DEF MeantIs
<1>16. Scopes' = Scopes
  <2>1. PICK s : s = Scopes
    OBVIOUS
  <2>2. ASSUME NEW i \in 1..Len(env)
        PROVE  DOMAIN s[i] = declared'[i] /\ \A m \in declared'[i] : s[i][m] = Sole(env'[i][m])
    <3>1. n \notin declared[i] /\ declared'[i] = declared[i] /\ declared[i] \subseteq DOMAIN env[i]
      BY <1>2, <1>4, <1>5
    <3>2. \A m \in declared[i] : env'[i][m] = env[i][m]
      BY <1>7, <3>1 DEF Puts
    <3>3. QED
      BY <1>15, <2>1, <3>1, <3>2
  <2>3. s \in Seq(Block) /\ Len(s) = Len(env') /\ Len(env') = Len(env)
    BY <1>7, <1>15, <2>1 DEF Puts
  <2>4. QED
    BY <1>9, <2>1, <2>2, <2>3, ScopesAre
<1>17. Meant!Assign(n, e)
  <2>1. /\ Meant!Declaring(n) = {} /\ Meant!Own(n) /\ Meant!Visible(n)
    BY <1>1, <1>2, MeantNames DEF Declares
  <2>2. /\ fields' = [fields EXCEPT ![Meant!Here.this][n] = Meant!Meaning(e)]
        /\ UNCHANGED <<Scopes, StaticValues, Methods>>
    BY <1>2, <1>3, <1>4, <1>7, <1>15, <1>16, SameMethods DEF Puts
  <2>3. QED
    BY <1>3, <2>1, <2>2 DEF Meant!Assign
<1>18. QED
  BY <1>9, <1>11, <1>13, <1>14, <1>17 DEF NameInv

(* Of a program's names, nothing has changed on the chain.                  *)
SameNames ==
  /\ env' \in Seq(Scope) /\ Len(env') = Len(env)
  /\ \A i \in 1..Len(env) : \A m \in Names :
       /\ m \in DOMAIN env'[i] <=> m \in DOMAIN env[i]
       /\ m \in DOMAIN env[i] => env'[i][m] = env[i][m]
  /\ UNCHANGED <<frames, declared>>

LEMMA SameNamesKeep ==
  ASSUME NameInv, SameNames,
         fields' = [p \in Objects |-> fields'[p]],
         \A p \in Objects : fields'[p] \in [Fields[p] -> Stored],
         \A i \in 1..Len(env) : \A m \in DOMAIN env[i] \ declared[i] : \A p \in Objects :
           m \in Names /\ m \in Fields[p] => fields'[p][m] = fields[p][m]
  PROVE  NameInv' /\ Scopes' = Scopes
<1>1. Chain /\ Alone /\ Copied /\ Clear
  BY DEF NameInv
<1>2. /\ Len(env) \in Nat
      /\ \A i \in 1..Len(env) : declared[i] \in SUBSET Names /\ declared[i] \subseteq DOMAIN env[i]
  BY <1>1, HereFacts DEF Chain
<1>3. \A i \in 1..Len(env) : declared'[i] \subseteq DOMAIN env'[i]
  BY <1>2 DEF SameNames
<1>4. Chain'
  <2>1. /\ frames' \in Seq(Method) /\ frames' # <<>>
        /\ \A k \in 1..Len(frames') :
             2 <= frames'[k].first /\ frames'[k].first + 1 <= Len(env')
        /\ \A h, k \in 1..Len(frames') :
             h < k => frames'[h].first + 1 < frames'[k].first
    BY <1>1 DEF Chain, SameNames
  <2>2. declared' \in Seq(SUBSET Names) /\ Len(declared') = Len(env')
    BY <1>1 DEF Chain, SameNames
  <2>3. QED
    BY <1>3, <2>1, <2>2 DEF Chain, SameNames
<1>5. Alone'
  <2>1. SUFFICES ASSUME NEW i \in 1..Len(env), NEW m \in Names,
                        m \in DOMAIN env[i] /\ m \notin declared[i],
                        NEW h \in 1..(i - 1)
                 PROVE  m \notin DOMAIN env'[h]
    BY DEF Alone, SameNames
  <2>2. m \notin DOMAIN env[h] /\ h \in 1..Len(env)
    BY <1>1, <1>2, <2>1 DEF Alone
  <2>3. QED
    BY <2>2 DEF SameNames
<1>6. Copied'
  <2>1. SUFFICES ASSUME NEW i \in 1..Len(env), NEW m \in Names,
                        m \in DOMAIN env[i] /\ m \notin declared[i]
                 PROVE  \E o \in Objects :
                          /\ m \in Fields[o] /\ Sole(env'[i][m]) = fields'[o][m]
                          /\ \A k \in 1..Len(frames) :
                               /\ k < Len(frames) => i < frames[k + 1].first
                               /\ m \in Fields[frames[k].this]
                               => frames[k].this = o
    BY DEF Copied, SameNames
  <2>2. PICK o \in Objects :
          /\ m \in Fields[o] /\ Sole(env[i][m]) = fields[o][m]
          /\ \A k \in 1..Len(frames) :
               /\ k < Len(frames) => i < frames[k + 1].first
               /\ m \in Fields[frames[k].this]
               => frames[k].this = o
    BY <1>1, <2>1 DEF Copied
  <2>3. env'[i][m] = env[i][m] /\ fields'[o][m] = fields[o][m]
    BY <2>1, <2>2 DEF SameNames
  <2>4. QED
    BY <2>2, <2>3
<1>7. Clear'
  BY <1>1, SameClear DEF SameNames
<1>8. Scopes' = Scopes
  <2>1. PICK s : s = Scopes
    OBVIOUS
  <2>2. /\ s \in Seq(Block) /\ Len(s) = Len(env)
        /\ \A i \in 1..Len(env) :
             DOMAIN s[i] = declared[i] /\ \A m \in declared[i] : s[i][m] = Sole(env[i][m])
    BY <1>1, <2>1, MeantFacts DEF MeantIs
  <2>3. ASSUME NEW i \in 1..Len(env)
        PROVE  DOMAIN s[i] = declared'[i] /\ \A m \in declared'[i] : s[i][m] = Sole(env'[i][m])
    <3>1. declared'[i] = declared[i]
      BY DEF SameNames
    <3>2. \A m \in declared[i] : env'[i][m] = env[i][m]
      BY <1>2 DEF SameNames
    <3>3. QED
      BY <2>2, <3>1, <3>2
  <2>4. Len(env') = Len(env)
    BY DEF SameNames
  <2>5. QED
    BY <1>4, <2>1, <2>2, <2>3, <2>4, ScopesAre
<1>9. QED
  BY <1>4, <1>5, <1>6, <1>7, <1>8 DEF NameInv

(* o.n = e                                                                  *)
LEMMA FieldSet ==
  ASSUME NameInv, NEW o \in Objects, NEW n \in Names, NEW e \in Names \cup Values,
         SetField(o, n, e), confused' = {}
  PROVE  NameInv' /\ Meant!SetField(o, n, e)
<1>101. PICK v \in Results(e) : fields' = [fields EXCEPT ![o][n] = v]
  BY DEF SetField
<1>1. Chain
  BY DEF NameInv
<1>2. /\ v \in Results(e) /\ n \in Fields[o] /\ Says(e) /\ MistakenIn(e) = {}
      /\ fields' = [fields EXCEPT ![o][n] = v]
      /\ \A i \in Having(n) : n \in declared[i]
      /\ UNCHANGED <<env, frames, declared>>
  BY <1>101 DEF SetField
<1>3. v \in Stored /\ v = Meant!Meaning(e) /\ Meant!Says(e)
  BY <1>2, ValueMeant
<1>4. FieldGets(o, n, v)
  BY <1>1, <1>2, <1>3, FieldPut
<1>5. SameNames
  BY <1>1, <1>2 DEF SameNames, Chain
<1>6. ASSUME NEW i \in 1..Len(env), NEW m \in DOMAIN env[i] \ declared[i], NEW p \in Objects,
             m \in Names, m \in Fields[p]
      PROVE  fields'[p][m] = fields[p][m]
  <2>1. DOMAIN env = 1..Len(env)
    BY <1>1, HereFacts
  <2>2. m # n
    BY <1>2, <2>1 DEF Having
  <2>3. QED
    BY <1>4, <1>6, <2>2 DEF FieldGets
<1>7. NameInv' /\ Scopes' = Scopes
  <2>1. /\ fields' = [p \in Objects |-> fields'[p]]
        /\ \A p \in Objects : fields'[p] \in [Fields[p] -> Stored]
    BY <1>4 DEF FieldGets
  <2>2. QED
    BY <1>5, <1>6, <2>1, SameNamesKeep
<1>8. StaticValues' = StaticValues
  BY <1>2 DEF StaticValues
<1>9. Methods' = Methods
  BY <1>2, SameMethods
<1>10. Meant!SetField(o, n, e)
  BY <1>2, <1>3, <1>7, <1>8, <1>9 DEF Meant!SetField
<1>11. QED
  BY <1>7, <1>10

(* C.n = e                                                                  *)
LEMMA StaticSet ==
  ASSUME NameInv, NEW n \in Names, NEW e \in Names \cup Values,
         SetStatic(n, e), confused' = {}
  PROVE  NameInv' /\ Meant!SetStatic(n, e)
<1>101. PICK v \in Results(e) : env' \in SetIn(1, Key(n), {Somehow}, v)
  BY DEF SetStatic
<1>1. Chain
  BY DEF NameInv
<1>2. /\ v \in Results(e) /\ n \in Statics /\ Says(e) /\ MistakenIn(e) = {}
      /\ UNCHANGED <<frames, fields, declared>>
  BY <1>101 DEF SetStatic
<1>3. v \in Stored /\ v = Meant!Meaning(e) /\ Meant!Says(e)
  BY <1>2, ValueMeant
<1>4. /\ Key(n) \in Keys /\ Key(n) \notin Names
      /\ \A m \in Statics : Key(m) = Key(n) => m = n
  BY <1>2, NamesAssumption DEF Keys
<1>5. /\ Len(env) \in Nat /\ 1 \in 1..Len(env) /\ env[1] \in Scope /\ env \in Seq(Scope)
      /\ \A i \in 1..Len(env) : env[i] \in Scope
  BY <1>1, HereFacts DEF Chain
<1>102. PICK f : env' = [env EXCEPT ![1] = f] /\ With(env[1], Key(n), v, f)
  <2>1. CASE Key(n) \in DOMAIN env[1]
    <3>1. PICK t \in DOMAIN env[1][Key(n)] : env' = [env EXCEPT ![1][Key(n)][t] = v]
      BY <1>101, <2>1 DEF SetIn
    <3>2. env' = [env EXCEPT ![1] = [env[1] EXCEPT ![Key(n)][t] = v]]
      BY <3>1
    <3>3. With(env[1], Key(n), v, [env[1] EXCEPT ![Key(n)][t] = v])
      BY <1>3, <1>5, <2>1, ReplacedFacts
    <3>4. QED
      BY <3>2, <3>3
  <2>2. CASE Key(n) \notin DOMAIN env[1]
    <3>1. env' = [env EXCEPT ![1] = Define(env[1], Key(n), Somehow, v)]
      BY <1>101, <2>2 DEF SetIn
    <3>2. With(env[1], Key(n), v, Define(env[1], Key(n), Somehow, v))
      BY <1>3, <1>4, <1>5, <2>2, SomehowIs, DefineFacts
    <3>3. QED
      BY <3>1, <3>2
  <2>3. QED
    BY <2>1, <2>2
<1>6. /\ f \in Scope /\ DOMAIN f = DOMAIN env[1] \cup {Key(n)} /\ Sole(f[Key(n)]) = v
      /\ \A m \in DOMAIN env[1] : m # Key(n) => f[m] = env[1][m]
  BY <1>102 DEF With
<1>7. /\ env' \in Seq(Scope) /\ Len(env') = Len(env)
      /\ \A i \in 1..Len(env) : env'[i] = IF i = 1 THEN f ELSE env[i]
  BY <1>5, <1>6, <1>102, ExceptSeq
<1>8. SameNames
  BY <1>2, <1>4, <1>6, <1>7 DEF SameNames
<1>9. NameInv' /\ Scopes' = Scopes
  <2>1. /\ fields' = [p \in Objects |-> fields'[p]]
        /\ \A p \in Objects : fields'[p] \in [Fields[p] -> Stored]
    BY <1>1, <1>2 DEF Chain
  <2>2. QED
    BY <1>2, <1>8, <2>1, SameNamesKeep
<1>10. StaticValues' = [StaticValues EXCEPT ![n] = v]
  <2>1. env'[1] = f
    BY <1>5, <1>7
  <2>2. \A m \in Statics :
          (IF Key(m) \in DOMAIN env'[1] THEN Sole(env'[1][Key(m)]) ELSE Unset)
            = IF m = n THEN v
              ELSE IF Key(m) \in DOMAIN env[1] THEN Sole(env[1][Key(m)]) ELSE Unset
    BY <1>4, <1>6, <2>1
  <2>3. QED
    BY <1>2, <2>2 DEF StaticValues
<1>11. Methods' = Methods
  BY <1>2, SameMethods
<1>12. Meant!SetStatic(n, e)
  BY <1>2, <1>3, <1>9, <1>10, <1>11 DEF Meant!SetStatic
<1>13. QED
  BY <1>9, <1>12

(* The chain is cut off above scope c, which is in method t.                *)
CutAt(c, t) ==
  /\ env' \in Seq(Scope) /\ Len(env') = c
  /\ declared' \in Seq(SUBSET Names) /\ Len(declared') = c
  /\ frames' \in Seq(Method) /\ Len(frames') = t
  /\ \A i \in 1..c : env'[i] = env[i] /\ declared'[i] = declared[i]
  /\ \A k \in 1..t : frames'[k] = frames[k]
  /\ fields' = fields

LEMMA CutKeeps ==
  ASSUME NameInv, NEW c \in 1..Len(env), NEW t \in 1..Len(frames), CutAt(c, t),
         frames[t].first + 1 <= c,
         t < Len(frames) => c < frames[t + 1].first
  PROVE  /\ NameInv' /\ StaticValues' = StaticValues
         /\ \A i \in 1..c : Scopes'[i] = Scopes[i]
         /\ \A k \in 1..t : Methods'[k] = Methods[k]
<1>1. Chain /\ Alone /\ Copied /\ Clear
  BY DEF NameInv
<1>2. /\ Len(env) \in Nat /\ Len(frames) \in Nat /\ c \in Nat /\ t \in Nat
      /\ \A k \in 1..Len(frames) : frames[k] \in Method
      /\ \A i \in 1..c : i \in 1..Len(env)
      /\ \A k \in 1..t : k \in 1..Len(frames)
  BY <1>1, HereFacts
<1>3. \A k \in 1..Len(frames) : frames[k].first \in Nat
  BY <1>2 DEF Method
<1>4. Chain'
  <2>1. frames' # <<>>
    BY EmptySeq DEF CutAt
  <2>2. ASSUME NEW k \in 1..t
        PROVE  2 <= frames[k].first /\ frames[k].first + 1 <= c
    <3>1. 2 <= frames[k].first /\ frames[k].first \in Nat /\ frames[t].first \in Nat
      BY <1>1, <1>2, <1>3 DEF Chain
    <3>2. k < t => frames[k].first + 1 < frames[t].first
      BY <1>1, <1>2 DEF Chain
    <3>3. QED
      BY <1>2, <3>1, <3>2
  <2>3. \A h, k \in 1..t : h < k => frames[h].first + 1 < frames[k].first
    BY <1>1, <1>2 DEF Chain
  <2>4. \A i \in 1..c : declared[i] \subseteq DOMAIN env[i]
    BY <1>1, <1>2 DEF Chain
  <2>5. /\ \A k \in 1..Len(frames') :
             2 <= frames'[k].first /\ frames'[k].first + 1 <= Len(env')
        /\ \A h, k \in 1..Len(frames') :
             h < k => frames'[h].first + 1 < frames'[k].first
        /\ \A i \in 1..Len(env') : declared'[i] \subseteq DOMAIN env'[i]
    BY <2>2, <2>3, <2>4 DEF CutAt
  <2>6. /\ fields' = [o \in Objects |-> fields'[o]]
        /\ \A o \in Objects : fields'[o] \in [Fields[o] -> Stored]
    BY <1>1 DEF Chain, CutAt
  <2>7. QED
    BY <2>1, <2>5, <2>6 DEF Chain, CutAt
<1>5. Alone'
  <2>1. SUFFICES ASSUME NEW i \in 1..c, NEW m \in Names,
                        m \in DOMAIN env[i] /\ m \notin declared[i],
                        NEW h \in 1..(i - 1)
                 PROVE  m \notin DOMAIN env'[h]
    BY DEF Alone, CutAt
  <2>2. m \notin DOMAIN env[h] /\ h \in 1..c
    BY <1>1, <1>2, <2>1 DEF Alone
  <2>3. QED
    BY <2>2 DEF CutAt
<1>6. Copied'
  <2>1. SUFFICES ASSUME NEW i \in 1..c, NEW m \in Names,
                        m \in DOMAIN env'[i] /\ m \notin declared'[i]
                 PROVE  \E o \in Objects :
                          /\ m \in Fields[o] /\ Sole(env'[i][m]) = fields'[o][m]
                          /\ \A k \in 1..Len(frames') :
                               /\ k < Len(frames') => i < frames'[k + 1].first
                               /\ m \in Fields[frames'[k].this]
                               => frames'[k].this = o
    <3>1. Len(env') = c
      BY DEF CutAt
    <3>2. QED
      BY <3>1 DEF Copied
  <2>2. env'[i] = env[i] /\ declared'[i] = declared[i]
    BY DEF CutAt
  <2>3. PICK o \in Objects :
          /\ m \in Fields[o] /\ Sole(env[i][m]) = fields[o][m]
          /\ \A k \in 1..Len(frames) :
               /\ k < Len(frames) => i < frames[k + 1].first
               /\ m \in Fields[frames[k].this]
               => frames[k].this = o
    BY <1>1, <1>2, <2>1, <2>2 DEF Copied
  <2>4. ASSUME NEW k \in 1..t, k < t => i < frames'[k + 1].first,
               m \in Fields[frames[k].this]
        PROVE  frames[k].this = o
    <3>1. CASE k < t
      <4>1. k + 1 \in 1..t
        BY <1>2, <3>1
      <4>2. i < frames[k + 1].first
        BY <2>4, <3>1, <4>1 DEF CutAt
      <4>3. QED
        BY <1>2, <2>3, <2>4, <4>2
    <3>2. CASE k = t
      <4>1. t < Len(frames) => i < frames[t + 1].first
        <5>1. ASSUME t < Len(frames) PROVE frames[t + 1].first \in Nat
          BY <1>2, <1>3, <5>1
        <5>2. QED
          BY <1>2, <5>1
      <4>2. QED
        BY <1>2, <2>3, <2>4, <3>2, <4>1
    <3>3. QED
      BY <1>2, <3>1, <3>2
  <2>5. QED
    BY <2>3, <2>4, <2>2 DEF CutAt
<1>7. Clear'
  <2>1. SUFFICES ASSUME NEW k \in 1..t, frames[k].owner # None
                 PROVE  /\ frames[k].owner = frames[k].this
                        /\ \A m \in Fields[frames[k].owner] :
                             \A i \in 1..(frames[k].first - 1) : m \notin declared'[i]
    BY DEF Clear, CutAt
  <2>2. /\ frames[k].owner = frames[k].this
        /\ \A m \in Fields[frames[k].owner] :
             \A i \in 1..(frames[k].first - 1) : m \notin declared[i]
    BY <1>1, <1>2, <2>1 DEF Clear
  <2>3. frames[k].first \in Nat /\ frames[k].first + 1 <= c
    <3>1. frames'[k] = frames[k] /\ frames'[k].first + 1 <= c
      BY <1>4 DEF Chain, CutAt
    <3>2. QED
      BY <1>2, <1>3, <3>1
  <2>4. \A i \in 1..(frames[k].first - 1) : i \in 1..c
    BY <1>2, <2>3
  <2>5. QED
    BY <2>2, <2>4 DEF CutAt
<1>8. StaticValues' = StaticValues
  BY <1>2, StaticStays DEF CutAt
<1>9. ASSUME NEW i \in 1..c PROVE Scopes'[i] = Scopes[i]
  <2>1. /\ Scopes \in Seq(Block) /\ Len(Scopes) = Len(env)
        /\ DOMAIN Scopes[i] = declared[i] /\ \A m \in declared[i] : Scopes[i][m] = Sole(env[i][m])
    BY <1>1, <1>2, MeantFacts DEF MeantIs
  <2>2. /\ Scopes' \in Seq(Block) /\ Len(Scopes') = Len(env') /\ Len(env') = c
    BY <1>4, MeantThen DEF MeantIs, CutAt
  <2>3. /\ DOMAIN Scopes'[i] = declared'[i]
        /\ \A m \in declared'[i] : Scopes'[i][m] = Sole(env'[i][m])
    BY <1>4, <2>2, MeantThen DEF MeantIs
  <2>4. Scopes[i] \in Block /\ Scopes'[i] \in Block
    <3>1. i \in 1..Len(Scopes) /\ i \in 1..Len(Scopes')
      BY <1>2, <2>1, <2>2
    <3>2. QED
      BY <2>1, <2>2, <3>1, LenProperties
  <2>5. env'[i] = env[i] /\ declared'[i] = declared[i]
    BY DEF CutAt
  <2>6. QED
    BY <2>1, <2>3, <2>4, <2>5, SameScope
<1>10. ASSUME NEW k \in 1..t PROVE Methods'[k] = Methods[k]
  <2>1. Methods[k] = [this |-> frames[k].owner, first |-> frames[k].first]
    BY <1>1, <1>2, MeantFacts DEF MeantIs
  <2>2. Len(frames') = t /\ frames'[k] = frames[k]
    BY DEF CutAt
  <2>3. Methods'[k] = [this |-> frames'[k].owner, first |-> frames'[k].first]
    BY <1>4, <2>2, MeantThen DEF MeantIs
  <2>4. QED
    BY <2>1, <2>2, <2>3
<1>11. QED
  BY <1>4, <1>5, <1>6, <1>7, <1>8, <1>9, <1>10 DEF NameInv

LEMMA Returned ==
  ASSUME NameInv, Return
  PROVE  NameInv' /\ Meant!Return
<1>101. PICK c : c = Here.first - 1
  OBVIOUS
<1>102. PICK t : t = Len(frames) - 1
  OBVIOUS
<1>1. Chain
  BY DEF NameInv
<1>2. /\ Len(frames) > 1 /\ env' = SubSeq(env, 1, c) /\ declared' = SubSeq(declared, 1, c)
      /\ frames' = Front(frames) /\ fields' = fields
  BY <1>101 DEF Return
<1>3. /\ Len(frames) \in Nat /\ Len(env) \in Nat /\ t \in 1..Len(frames) /\ t + 1 = Len(frames)
      /\ Here = frames[Len(frames)] /\ Here \in Method
      /\ Here.first \in 2..Len(env) /\ Here.first + 1 <= Len(env)
      /\ \A k \in 1..Len(frames) : frames[k] \in Method
      /\ frames # <<>>
      /\ env \in Seq(Scope) /\ declared \in Seq(SUBSET Names) /\ frames \in Seq(Method)
      /\ Len(declared) = Len(env)
  BY <1>1, <1>2, <1>102, HereFacts DEF Chain
<1>4. c \in 1..Len(env) /\ c \in 0..Len(env) /\ c < Here.first
  BY <1>101, <1>3
<1>5. frames[t].first + 1 <= c
  <2>1. frames[t].first + 1 < Here.first
    BY <1>1, <1>3 DEF Chain
  <2>2. frames[t].first \in Nat
    BY <1>3 DEF Method
  <2>3. QED
    BY <1>3, <1>101, <2>1, <2>2
<1>6. CutAt(c, t)
  <2>1. /\ env' \in Seq(Scope) /\ Len(env') = c /\ \A i \in 1..c : env'[i] = env[i]
    BY <1>2, <1>3, <1>4, PrefixFacts
  <2>2. /\ declared' \in Seq(SUBSET Names) /\ Len(declared') = c
        /\ \A i \in 1..c : declared'[i] = declared[i]
    BY <1>2, <1>3, <1>4, PrefixFacts
  <2>3. /\ frames' \in Seq(Method) /\ Len(frames') = t
        /\ \A k \in 1..t : frames'[k] = frames[k]
    BY <1>2, <1>3, <1>102, FrontFacts
  <2>4. QED
    BY <1>2, <2>1, <2>2, <2>3 DEF CutAt
<1>7. /\ NameInv' /\ StaticValues' = StaticValues
      /\ \A i \in 1..c : Scopes'[i] = Scopes[i]
      /\ \A k \in 1..t : Methods'[k] = Methods[k]
  <2>1. t < Len(frames) => c < frames[t + 1].first
    BY <1>3, <1>4
  <2>2. QED
    BY <1>3, <1>4, <1>5, <1>6, <2>1, CutKeeps
<1> DEFINE M == [this : Objects \cup {None}, first : Nat]
<1>8. /\ Scopes \in Seq(Block) /\ Len(Scopes) = Len(env)
      /\ Methods \in Seq(M) /\ Len(Methods) = Len(frames) /\ Meant!Here.first = Here.first
  BY <1>1, MeantFacts DEF MeantIs
<1>9. /\ Scopes' \in Seq(Block) /\ Len(Scopes') = c
      /\ Methods' \in Seq(M) /\ Len(Methods') = t
  BY <1>6, <1>7, MeantThen DEF MeantIs, CutAt, NameInv
<1> HIDE DEF M
<1>10. Scopes' = SubSeq(Scopes, 1, c)
  <2>1. /\ SubSeq(Scopes, 1, c) \in Seq(Block) /\ Len(SubSeq(Scopes, 1, c)) = c
        /\ \A i \in 1..c : SubSeq(Scopes, 1, c)[i] = Scopes[i]
    BY <1>4, <1>8, PrefixFacts
  <2>2. QED
    BY <1>7, <1>9, <2>1, SeqEqual
<1>11. Methods' = Meant!Front(Methods)
  <2>1. Meant!Front(Methods) = SubSeq(Methods, 1, t)
    BY <1>8, <1>102 DEF Meant!Front
  <2>2. /\ SubSeq(Methods, 1, t) \in Seq(M) /\ Len(SubSeq(Methods, 1, t)) = t
        /\ \A k \in 1..t : SubSeq(Methods, 1, t)[k] = Methods[k]
    <3>1. t \in 0..Len(Methods)
      BY <1>3, <1>8
    <3>2. QED
      BY <1>8, <3>1, PrefixFacts
  <2>3. QED
    BY <1>7, <1>9, <2>1, <2>2, SeqEqual
<1>12. Meant!Return
  <2>1. Len(Methods) > 1
    BY <1>2, <1>8
  <2>2. Scopes' = SubSeq(Scopes, 1, Meant!Here.first - 1)
    BY <1>101, <1>8, <1>10
  <2>3. QED
    BY <1>2, <1>7, <1>11, <2>1, <2>2 DEF Meant!Return
<1>13. QED
  BY <1>7, <1>12

LEMMA BlockClosed ==
  ASSUME NameInv, CloseBlock
  PROVE  NameInv' /\ Meant!Close
<1>101. PICK c : c = Len(env) - 1
  OBVIOUS
<1>102. PICK t : t = Len(frames)
  OBVIOUS
<1>1. Chain
  BY DEF NameInv
<1>2. /\ Len(env) > Here.first + 1 /\ env' = Front(env) /\ declared' = Front(declared)
      /\ UNCHANGED <<frames, fields>>
  BY DEF CloseBlock
<1>3. /\ Len(frames) \in Nat /\ Len(env) \in Nat /\ t \in 1..Len(frames) /\ ~(t < Len(frames))
      /\ Here = frames[t] /\ Here.first \in 2..Len(env)
      /\ env \in Seq(Scope) /\ declared \in Seq(SUBSET Names) /\ frames \in Seq(Method)
      /\ Len(declared) = Len(env)
  BY <1>1, <1>102, HereFacts DEF Chain
<1>4. c \in 1..Len(env) /\ env # <<>> /\ declared # <<>>
  BY <1>101, <1>2, <1>3, EmptySeq
<1>5. frames[t].first + 1 <= c
  BY <1>101, <1>2, <1>3
<1>6. CutAt(c, t)
  <2>1. env' \in Seq(Scope) /\ Len(env') = c /\ \A i \in 1..c : env'[i] = env[i]
    BY <1>2, <1>3, <1>4, <1>101, FrontFacts
  <2>2. /\ declared' \in Seq(SUBSET Names) /\ Len(declared') = c
        /\ \A i \in 1..c : declared'[i] = declared[i]
    BY <1>2, <1>3, <1>4, <1>101, FrontFacts
  <2>3. /\ frames' \in Seq(Method) /\ Len(frames') = t
        /\ \A k \in 1..t : frames'[k] = frames[k]
    BY <1>2, <1>3, <1>102
  <2>4. QED
    BY <1>2, <2>1, <2>2, <2>3 DEF CutAt
<1>7. /\ NameInv' /\ StaticValues' = StaticValues
      /\ \A i \in 1..c : Scopes'[i] = Scopes[i]
  BY <1>3, <1>4, <1>5, <1>6, CutKeeps
<1>8. /\ Scopes \in Seq(Block) /\ Len(Scopes) = Len(env) /\ Meant!Here.first = Here.first
  BY <1>1, MeantFacts DEF MeantIs
<1>9. Scopes' \in Seq(Block) /\ Len(Scopes') = c
  BY <1>6, <1>7, MeantThen DEF MeantIs, CutAt, NameInv
<1>10. Scopes' = Meant!Front(Scopes)
  <2>1. Meant!Front(Scopes) = SubSeq(Scopes, 1, c)
    BY <1>8, <1>101 DEF Meant!Front
  <2>2. /\ SubSeq(Scopes, 1, c) \in Seq(Block) /\ Len(SubSeq(Scopes, 1, c)) = c
        /\ \A i \in 1..c : SubSeq(Scopes, 1, c)[i] = Scopes[i]
    <3>1. c \in 0..Len(Scopes)
      BY <1>4, <1>8
    <3>2. QED
      BY <1>8, <3>1, PrefixFacts
  <2>3. QED
    BY <1>7, <1>9, <2>1, <2>2, SeqEqual
<1>11. Meant!Close
  BY <1>2, <1>7, <1>8, <1>10, SameMethods DEF Meant!Close
<1>12. QED
  BY <1>7, <1>11

(* The chain grows by scopes that have what they declare.                   *)
Grown ==
  /\ env' \in Seq(Scope) /\ Len(env') \in Nat /\ Len(env) <= Len(env')
  /\ declared' \in Seq(SUBSET Names) /\ Len(declared') = Len(env')
  /\ \A i \in 1..Len(env) : env'[i] = env[i] /\ declared'[i] = declared[i]
  /\ \A i \in 1..Len(env') : i > Len(env) => DOMAIN env'[i] = declared'[i]
  /\ fields' = fields

LEMMA GrownKeeps ==
  ASSUME NameInv, Grown
  PROVE  /\ Alone' /\ StaticValues' = StaticValues
         /\ \A i \in 1..Len(env') : declared'[i] \subseteq DOMAIN env'[i]
         /\ Chain' => \A i \in 1..Len(env) : Scopes'[i] = Scopes[i]
<1>1. Chain /\ Alone
  BY DEF NameInv
<1>2. /\ Len(env) \in Nat /\ 1 \in 1..Len(env) /\ Len(env') \in Nat
      /\ \A i \in 1..Len(env) : i \in 1..Len(env')
      /\ \A i \in 1..Len(env') : i \in 1..Len(env) \/ i > Len(env)
  BY <1>1, HereFacts DEF Grown
<1>3. Alone'
  <2>1. SUFFICES ASSUME NEW i \in 1..Len(env'), NEW m \in Names,
                        m \in DOMAIN env'[i] /\ m \notin declared'[i],
                        NEW h \in 1..(i - 1)
                 PROVE  m \notin DOMAIN env'[h]
    BY DEF Alone
  <2>2. i \in 1..Len(env)
    BY <1>2, <2>1 DEF Grown
  <2>3. m \notin DOMAIN env[h] /\ h \in 1..Len(env)
    BY <1>1, <1>2, <2>1, <2>2 DEF Alone, Grown
  <2>4. QED
    BY <2>3 DEF Grown
<1>4. StaticValues' = StaticValues
  BY <1>2, StaticStays DEF Grown
<1>5. ASSUME NEW i \in 1..Len(env') PROVE declared'[i] \subseteq DOMAIN env'[i]
  <2>1. CASE i \in 1..Len(env)
    BY <1>1, <2>1 DEF Chain, Grown
  <2>2. CASE i > Len(env)
    BY <2>2 DEF Grown
  <2>3. QED
    BY <1>2, <2>1, <2>2
<1>6. ASSUME Chain', NEW i \in 1..Len(env) PROVE Scopes'[i] = Scopes[i]
  <2>1. /\ Scopes \in Seq(Block) /\ Len(Scopes) = Len(env)
        /\ DOMAIN Scopes[i] = declared[i] /\ \A m \in declared[i] : Scopes[i][m] = Sole(env[i][m])
    BY <1>1, MeantFacts DEF MeantIs
  <2>2. /\ Scopes' \in Seq(Block) /\ Len(Scopes') = Len(env')
        /\ DOMAIN Scopes'[i] = declared'[i]
        /\ \A m \in declared'[i] : Scopes'[i][m] = Sole(env'[i][m])
    BY <1>2, <1>6, MeantThen DEF MeantIs
  <2>3. Scopes[i] \in Block /\ Scopes'[i] \in Block
    <3>1. i \in 1..Len(Scopes) /\ i \in 1..Len(Scopes')
      BY <1>2, <2>1, <2>2
    <3>2. QED
      BY <2>1, <2>2, <3>1, LenProperties
  <2>4. env'[i] = env[i] /\ declared'[i] = declared[i]
    BY DEF Grown
  <2>5. QED
    BY <2>1, <2>2, <2>3, <2>4, SameScope
<1>7. QED
  BY <1>3, <1>4, <1>5, <1>6

LEMMA BlockOpened ==
  ASSUME NameInv, OpenBlock
  PROVE  NameInv' /\ Meant!Open
<1>1. Chain /\ Copied /\ Clear
  BY DEF NameInv
<1>2. /\ env' = Append(env, Empty) /\ declared' = Append(declared, {})
      /\ UNCHANGED <<frames, fields>>
  BY DEF OpenBlock
<1>3. /\ env \in Seq(Scope) /\ declared \in Seq(SUBSET Names) /\ Len(declared) = Len(env)
      /\ Len(env) \in Nat /\ Len(frames) \in Nat
      /\ \A k \in 1..Len(frames) : frames[k] \in Method /\ frames[k].first + 1 <= Len(env)
  BY <1>1, HereFacts DEF Chain
<1>4. /\ env' \in Seq(Scope) /\ Len(env') = Len(env) + 1
      /\ \A i \in 1..Len(env) : env'[i] = env[i]
      /\ env'[Len(env) + 1] = Empty
  <2>1. Empty \in Scope
    BY EmptyScope
  <2>2. QED
    BY <1>2, <1>3, <2>1, AppendProperties
<1>5. /\ declared' \in Seq(SUBSET Names) /\ Len(declared') = Len(env) + 1
      /\ \A i \in 1..Len(env) : declared'[i] = declared[i]
      /\ declared'[Len(env) + 1] = {}
  BY <1>2, <1>3, AppendProperties
<1>6. Grown
  <2>1. \A i \in 1..Len(env') : i > Len(env) => i = Len(env) + 1
    BY <1>3, <1>4
  <2>2. \A i \in 1..Len(env') : i > Len(env) => DOMAIN env'[i] = declared'[i]
    BY <1>4, <1>5, <2>1, EmptyScope
  <2>3. Len(env') \in Nat /\ Len(env) <= Len(env')
    BY <1>3, <1>4
  <2>4. QED
    BY <1>2, <1>4, <1>5, <2>2, <2>3 DEF Grown
<1>7. /\ Alone' /\ StaticValues' = StaticValues
      /\ \A i \in 1..Len(env') : declared'[i] \subseteq DOMAIN env'[i]
      /\ Chain' => \A i \in 1..Len(env) : Scopes'[i] = Scopes[i]
  BY <1>6, GrownKeeps
<1>8. Chain'
  <2>1. \A k \in 1..Len(frames) : 2 <= frames[k].first /\ frames[k].first + 1 <= Len(env) + 1
    <3>1. \A k \in 1..Len(frames) : frames[k].first \in Nat
      BY <1>3 DEF Method
    <3>2. QED
      BY <1>1, <1>3, <3>1 DEF Chain
  <2>2. /\ frames' \in Seq(Method) /\ frames' # <<>>
        /\ \A k \in 1..Len(frames') :
             2 <= frames'[k].first /\ frames'[k].first + 1 <= Len(env')
        /\ \A h, k \in 1..Len(frames') :
             h < k => frames'[h].first + 1 < frames'[k].first
    BY <1>1, <1>2, <1>4, <2>1 DEF Chain
  <2>3. fields' = [o \in Objects |-> fields'[o]]
        /\ \A o \in Objects : fields'[o] \in [Fields[o] -> Stored]
    BY <1>1, <1>2 DEF Chain
  <2>4. QED
    BY <1>4, <1>5, <1>7, <2>2, <2>3 DEF Chain
<1>9. Copied'
  <2>1. SUFFICES ASSUME NEW i \in 1..Len(env'), NEW m \in Names,
                        m \in DOMAIN env'[i] /\ m \notin declared'[i]
                 PROVE  \E o \in Objects :
                          /\ m \in Fields[o] /\ Sole(env'[i][m]) = fields'[o][m]
                          /\ \A k \in 1..Len(frames') :
                               /\ k < Len(frames') => i < frames'[k + 1].first
                               /\ m \in Fields[frames'[k].this]
                               => frames'[k].this = o
    BY DEF Copied
  <2>2. i \in 1..Len(env)
    <3>1. ~(i > Len(env))
      BY <1>6, <2>1 DEF Grown
    <3>2. QED
      BY <1>3, <3>1
  <2>3. QED
    BY <1>1, <1>2, <1>4, <1>5, <2>1, <2>2 DEF Copied
<1>10. Clear'
  <2>1. SUFFICES ASSUME NEW k \in 1..Len(frames), frames[k].owner # None
                 PROVE  /\ frames[k].owner = frames[k].this
                        /\ \A m \in Fields[frames[k].owner] :
                             \A i \in 1..(frames[k].first - 1) : m \notin declared'[i]
    BY <1>2 DEF Clear
  <2>2. /\ frames[k].owner = frames[k].this
        /\ \A m \in Fields[frames[k].owner] :
             \A i \in 1..(frames[k].first - 1) : m \notin declared[i]
    BY <1>1, <2>1 DEF Clear
  <2>3. frames[k].first \in Nat /\ frames[k].first + 1 <= Len(env)
    BY <1>3 DEF Method
  <2>4. \A i \in 1..(frames[k].first - 1) : i \in 1..Len(env)
    BY <1>3, <2>3
  <2>5. QED
    BY <1>5, <2>2, <2>4
<1>11. Scopes' = Append(Scopes, Meant!Empty)
  <2>1. /\ Scopes \in Seq(Block) /\ Len(Scopes) = Len(env)
    BY <1>1, MeantFacts DEF MeantIs
  <2>2. PICK s : s = Append(Scopes, Empty)
    OBVIOUS
  <2>3. /\ s \in Seq(Block) /\ Len(s) = Len(env) + 1
        /\ \A i \in 1..Len(env) : s[i] = Scopes[i]
        /\ s[Len(env) + 1] = Empty
    BY <2>1, <2>2, EmptyScope, AppendProperties
  <2>4. ASSUME NEW i \in 1..Len(env')
        PROVE  DOMAIN s[i] = declared'[i] /\ \A m \in declared'[i] : s[i][m] = Sole(env'[i][m])
    <3>1. CASE i \in 1..Len(env)
      <4>1. /\ DOMAIN Scopes'[i] = declared'[i]
            /\ \A m \in declared'[i] : Scopes'[i][m] = Sole(env'[i][m])
        BY <1>8, MeantThen DEF MeantIs
      <4>2. s[i] = Scopes'[i]
        BY <1>7, <1>8, <2>3, <3>1
      <4>3. QED
        BY <4>1, <4>2
    <3>2. CASE i = Len(env) + 1
      BY <1>5, <2>3, <3>2, EmptyScope
    <3>3. QED
      BY <1>3, <1>4, <3>1, <3>2
  <2>5. Scopes' = s
    BY <1>4, <1>8, <2>3, <2>4, ScopesAre
  <2>6. Meant!Empty = Empty
    BY DEF Meant!Empty, Empty
  <2>7. QED
    BY <2>2, <2>5, <2>6
<1>12. Meant!Open
  BY <1>2, <1>7, <1>11, SameMethods DEF Meant!Open
<1>13. QED
  BY <1>7, <1>8, <1>9, <1>10, <1>12 DEF NameInv

LEMMA PairFacts ==
  ASSUME NEW S, NEW a \in S, NEW b \in S
  PROVE  <<a, b>> \in Seq(S) /\ Len(<<a, b>>) = 2 /\ <<a, b>>[1] = a /\ <<a, b>>[2] = b
OBVIOUS

(* The new scopes after those there were.                                   *)
LEMMA PairAdded ==
  ASSUME NEW S, NEW s \in Seq(S), NEW a \in S, NEW b \in S
  PROVE  /\ s \o <<a, b>> \in Seq(S) /\ Len(s \o <<a, b>>) = Len(s) + 2
         /\ \A i \in 1..Len(s) : (s \o <<a, b>>)[i] = s[i]
         /\ (s \o <<a, b>>)[Len(s) + 1] = a /\ (s \o <<a, b>>)[Len(s) + 2] = b
<1>1. PICK p : p = <<a, b>>
  OBVIOUS
<1>2. p \in Seq(S) /\ Len(p) = 2 /\ p[1] = a /\ p[2] = b
  BY <1>1, PairFacts
<1>3. Len(s) \in Nat
  BY LenProperties
<1>4. /\ s \o p \in Seq(S) /\ Len(s \o p) = Len(s) + 2
      /\ \A i \in 1..(Len(s) + 2) : (s \o p)[i] = IF i <= Len(s) THEN s[i] ELSE p[i - Len(s)]
  <2>1. /\ s \o p \in Seq(S) /\ Len(s \o p) = Len(s) + Len(p)
        /\ \A i \in 1..(Len(s) + Len(p)) :
             (s \o p)[i] = IF i <= Len(s) THEN s[i] ELSE p[i - Len(s)]
    BY <1>2, ConcatProperties
  <2>2. QED
    BY <1>2, <2>1
<1>5. /\ (Len(s) + 1) - Len(s) = 1 /\ (Len(s) + 2) - Len(s) = 2
      /\ Len(s) + 1 \in 1..(Len(s) + 2) /\ Len(s) + 2 \in 1..(Len(s) + 2)
      /\ ~(Len(s) + 1 <= Len(s)) /\ ~(Len(s) + 2 <= Len(s))
      /\ \A i \in 1..Len(s) : i \in 1..(Len(s) + 2) /\ i <= Len(s)
  BY <1>3
<1>6. QED
  BY <1>1, <1>2, <1>4, <1>5

(* A call.                                                                  *)
LEMMA Entered ==
  ASSUME NameInv, NEW this \in Objects, NEW owner \in Objects \cup {None},
         IF owner = None THEN this = This ELSE this = owner,
         NEW p \in Names, NEW e \in Names \cup Values,
         Enter(this, owner, p, e), confused' = {}
  PROVE  NameInv' /\ Meant!Call(owner, p, e)
<1>101. PICK v \in Results(e) : env' = env \o <<Define(Empty, p, Somehow, v), Empty>>
  BY DEF Enter
<1>102. PICK f : f = Define(Empty, p, Somehow, v)
  OBVIOUS
<1>103. PICK L : L = Len(env)
  OBVIOUS
<1>104. PICK T : T = Len(frames)
  OBVIOUS
<1>105. PICK r : r = [this |-> this, owner |-> owner, first |-> L + 1]
  OBVIOUS
<1>1. Chain /\ Alone /\ Copied /\ Clear
  BY DEF NameInv
<1>2. /\ Says(e) /\ MistakenIn(e) = {} /\ Captured(owner) = {}
      /\ env' = env \o <<f, Empty>> /\ declared' = declared \o <<{p}, {}>>
      /\ frames' = Append(frames, r) /\ fields' = fields
  BY <1>101, <1>102, <1>103, <1>105 DEF Enter
<1>3. v \in Stored /\ v = Meant!Meaning(e) /\ Meant!Says(e)
  BY <1>2, <1>101, ValueMeant
<1>4. /\ env \in Seq(Scope) /\ declared \in Seq(SUBSET Names) /\ frames \in Seq(Method)
      /\ L = Len(env) /\ Len(declared) = L /\ T = Len(frames)
      /\ L \in Nat /\ T \in Nat \ {0} /\ DOMAIN env = 1..L
      /\ This = frames[T].this
      /\ \A k \in 1..T : frames[k] \in Method
      /\ \A i \in 1..L : declared[i] \subseteq DOMAIN env[i]
  BY <1>1, <1>103, <1>104, HereFacts DEF Chain, This
<1>5. \A k \in 1..T : /\ frames[k].first \in Nat /\ 2 <= frames[k].first
                      /\ frames[k].first + 1 <= L
  BY <1>1, <1>4 DEF Chain, Method
<1>6. f \in Scope /\ DOMAIN f = {p} /\ Sole(f[p]) = v /\ Empty \in Scope /\ DOMAIN Empty = {}
  <2>1. p \notin DOMAIN Empty
    BY EmptyScope
  <2>2. With(Empty, p, v, f)
    BY <1>3, <1>102, <2>1, EmptyScope, SomehowIs, DefineFacts
  <2>3. QED
    BY <2>2, EmptyScope DEF With
<1>7. /\ env' \in Seq(Scope) /\ Len(env') = L + 2
      /\ \A i \in 1..L : env'[i] = env[i]
      /\ env'[L + 1] = f /\ env'[L + 2] = Empty
  BY <1>2, <1>4, <1>6, PairAdded
<1>8. /\ declared' \in Seq(SUBSET Names) /\ Len(declared') = L + 2
      /\ \A i \in 1..L : declared'[i] = declared[i]
      /\ declared'[L + 1] = {p} /\ declared'[L + 2] = {}
  <2> DEFINE S == SUBSET Names
  <2>1. PICK a : a = {p}
    OBVIOUS
  <2>2. PICK b : b = {}
    OBVIOUS
  <2>3. a \in S /\ b \in S /\ declared \in Seq(S)
    BY <1>4, <2>1, <2>2
  <2> HIDE DEF S
  <2>4. /\ declared \o <<a, b>> \in Seq(S) /\ Len(declared \o <<a, b>>) = Len(declared) + 2
        /\ \A i \in 1..Len(declared) : (declared \o <<a, b>>)[i] = declared[i]
        /\ (declared \o <<a, b>>)[Len(declared) + 1] = a
        /\ (declared \o <<a, b>>)[Len(declared) + 2] = b
    BY <2>3, PairAdded
  <2>5. declared' = declared \o <<a, b>>
    BY <1>2, <2>1, <2>2
  <2>6. QED
    BY <1>4, <2>1, <2>2, <2>4, <2>5 DEF S
<1>9. /\ r \in Method /\ r.this = this /\ r.owner = owner /\ r.first = L + 1
      /\ frames' \in Seq(Method) /\ frames' # <<>> /\ Len(frames') = T + 1
      /\ \A k \in 1..T : frames'[k] = frames[k]
      /\ frames'[T + 1] = r
  <2>1. r \in Method /\ r.this = this /\ r.owner = owner /\ r.first = L + 1
    BY <1>4, <1>105 DEF Method
  <2>2. QED
    BY <1>2, <1>4, <2>1, AppendProperties
<1>10. /\ \A i \in 1..(L + 2) : i \in 1..L \/ i = L + 1 \/ i = L + 2
       /\ \A k \in 1..(T + 1) : k \in 1..T \/ k = T + 1
       /\ T \in 1..T /\ T + 1 \in 1..(T + 1)
  <2>1. L \in Nat /\ T \in Nat \ {0}
    BY <1>4
  <2>2. \A i \in 1..(L + 2) : i \in 1..L \/ i = L + 1 \/ i = L + 2
    BY <2>1
  <2>3. \A k \in 1..(T + 1) : k \in 1..T \/ k = T + 1
    BY <2>1
  <2>4. T \in 1..T /\ T + 1 \in 1..(T + 1)
    BY <2>1
  <2>5. QED
    BY <2>2, <2>3, <2>4
<1>11. Grown
  <2>1. L \in Nat
    BY <1>4
  <2>2. \A i \in 1..(L + 2) : i > L => i = L + 1 \/ i = L + 2
    BY <2>1
  <2>3. \A i \in 1..(L + 2) : i > L => DOMAIN env'[i] = declared'[i]
    BY <1>6, <1>7, <1>8, <2>2
  <2>4. Len(env') \in Nat /\ Len(env) <= Len(env')
    BY <1>4, <1>7
  <2>5. QED
    BY <1>2, <1>4, <1>7, <1>8, <2>3, <2>4 DEF Grown
<1>12. /\ Alone' /\ StaticValues' = StaticValues
       /\ \A i \in 1..Len(env') : declared'[i] \subseteq DOMAIN env'[i]
       /\ Chain' => \A i \in 1..Len(env) : Scopes'[i] = Scopes[i]
  BY <1>11, GrownKeeps
<1>13. Chain'
  <2>1. ASSUME NEW k \in 1..(T + 1)
        PROVE  2 <= frames'[k].first /\ frames'[k].first + 1 <= L + 2
    <3>1. CASE k \in 1..T
      BY <1>4, <1>5, <1>9, <3>1
    <3>2. CASE k = T + 1
      <4>1. L >= 3
        BY <1>4, <1>5, <1>10
      <4>2. frames'[k].first = L + 1
        BY <1>9, <3>2
      <4>3. QED
        BY <1>4, <4>1, <4>2
    <3>3. QED
      BY <1>10, <3>1, <3>2
  <2>2. ASSUME NEW h \in 1..(T + 1), NEW k \in 1..(T + 1), h < k
        PROVE  frames'[h].first + 1 < frames'[k].first
    <3>1. h \in 1..T
      BY <1>4, <2>2
    <3>2. CASE k \in 1..T
      <4>1. frames[h].first + 1 < frames[k].first
        BY <1>1, <1>4, <2>2, <3>1, <3>2 DEF Chain
      <4>2. QED
        BY <1>9, <3>1, <3>2, <4>1
    <3>3. CASE k = T + 1
      <4>1. frames'[k].first = L + 1 /\ frames'[h] = frames[h]
        BY <1>9, <3>1, <3>3
      <4>2. QED
        BY <1>4, <1>5, <3>1, <4>1
    <3>4. QED
      BY <1>10, <3>2, <3>3
  <2>3. /\ fields' = [o \in Objects |-> fields'[o]]
        /\ \A o \in Objects : fields'[o] \in [Fields[o] -> Stored]
    BY <1>1, <1>2 DEF Chain
  <2>4. QED
    BY <1>7, <1>8, <1>9, <1>12, <2>1, <2>2, <2>3 DEF Chain
(* What another object's method has written, the callee does not mean.      *)
<1>14. ASSUME NEW m \in Fields[this], NEW i \in 1..L, m \in DOMAIN env[i]
       PROVE  this = This /\ (owner # None => m \notin declared[i])
  <2>1. CASE owner = None
    BY <2>1
  <2>2. CASE owner # None
    BY <1>2, <1>4, <1>14, <2>2 DEF Captured, Having
  <2>3. QED
    BY <2>1, <2>2
<1>15. Copied'
  <2>1. SUFFICES ASSUME NEW i \in 1..Len(env'), NEW m \in Names,
                        m \in DOMAIN env'[i] /\ m \notin declared'[i]
                 PROVE  \E o \in Objects :
                          /\ m \in Fields[o] /\ Sole(env'[i][m]) = fields'[o][m]
                          /\ \A k \in 1..Len(frames') :
                               /\ k < Len(frames') => i < frames'[k + 1].first
                               /\ m \in Fields[frames'[k].this]
                               => frames'[k].this = o
    BY DEF Copied
  <2>2. i \in 1..L
    BY <1>6, <1>7, <1>8, <1>10, <2>1
  <2>3. env'[i] = env[i] /\ declared'[i] = declared[i]
    BY <1>7, <1>8, <2>2
  <2>4. PICK o \in Objects :
          /\ m \in Fields[o] /\ Sole(env[i][m]) = fields[o][m]
          /\ \A k \in 1..T :
               /\ k < T => i < frames[k + 1].first
               /\ m \in Fields[frames[k].this]
               => frames[k].this = o
    <3>1. m \in DOMAIN env[i] /\ m \notin declared[i] /\ i \in 1..Len(env)
      BY <1>4, <2>1, <2>2, <2>3
    <3>2. QED
      BY <1>1, <1>4, <3>1 DEF Copied
  <2>5. m \in Fields[This] => This = o
    <3>1. ~(T < T)
      BY <1>4
    <3>2. QED
      BY <1>4, <1>10, <2>4, <3>1
  <2>6. ASSUME NEW k \in 1..(T + 1), k < T + 1 => i < frames'[k + 1].first,
               m \in Fields[frames'[k].this]
        PROVE  frames'[k].this = o
    <3>1. CASE k = T + 1
      <4>1. frames'[k].this = this
        BY <1>9, <3>1
      <4>2. this = This
        BY <1>14, <2>1, <2>2, <2>3, <2>6, <4>1
      <4>3. QED
        BY <2>5, <2>6, <4>1, <4>2
    <3>2. CASE k \in 1..T
      <4>1. frames'[k] = frames[k]
        BY <1>9, <3>2
      <4>2. ASSUME k < T PROVE i < frames[k + 1].first
        <5>1. k + 1 \in 1..T /\ k < T + 1
          BY <1>4, <3>2, <4>2
        <5>2. QED
          BY <1>9, <2>6, <5>1
      <4>3. QED
        BY <2>4, <2>6, <3>2, <4>1, <4>2
    <3>3. QED
      BY <1>10, <3>1, <3>2
  <2>7. Sole(env'[i][m]) = fields'[o][m]
    BY <1>2, <2>3, <2>4
  <2>8. Len(frames') = T + 1
    BY <1>9
  <2>9. QED
    BY <2>4, <2>6, <2>7, <2>8
<1>16. Clear'
  <2>1. SUFFICES ASSUME NEW k \in 1..(T + 1), frames'[k].owner # None
                 PROVE  /\ frames'[k].owner = frames'[k].this
                        /\ \A m \in Fields[frames'[k].owner] :
                             \A i \in 1..(frames'[k].first - 1) : m \notin declared'[i]
    BY <1>9 DEF Clear
  <2>2. CASE k \in 1..T
    <3>1. frames'[k] = frames[k]
      BY <1>9, <2>2
    <3>2. /\ frames[k].owner = frames[k].this
          /\ \A m \in Fields[frames[k].owner] :
               \A i \in 1..(frames[k].first - 1) : m \notin declared[i]
      BY <1>1, <1>4, <2>1, <2>2, <3>1 DEF Clear
    <3>3. \A i \in 1..(frames[k].first - 1) : i \in 1..L
      BY <1>4, <1>5, <2>2
    <3>4. QED
      BY <1>8, <3>1, <3>2, <3>3
  <2>3. CASE k = T + 1
    <3>1. frames'[k].owner = owner /\ frames'[k].this = this /\ frames'[k].first = L + 1
      BY <1>9, <2>3
    <3>2. owner # None /\ owner = this
      BY <2>1, <3>1
    <3>3. \A i \in 1..((L + 1) - 1) : i \in 1..L
      BY <1>4
    <3>4. ASSUME NEW m \in Fields[this], NEW i \in 1..L PROVE m \notin declared'[i]
      <4>1. m \in DOMAIN env[i] => m \notin declared[i]
        BY <1>14, <3>2
      <4>2. QED
        BY <1>4, <1>8, <4>1
    <3>5. QED
      BY <3>1, <3>2, <3>3, <3>4
  <2>4. QED
    BY <1>10, <2>2, <2>3
<1>17. /\ Scopes \in Seq(Block) /\ Len(Scopes) = L
       /\ \A k \in 1..T : Methods[k] = [this |-> frames[k].owner, first |-> frames[k].first]
       /\ Methods \in Seq([this : Objects \cup {None}, first : Nat]) /\ Len(Methods) = T
  BY <1>1, <1>4, MeantFacts DEF MeantIs
<1>18. Scopes' = Scopes \o <<Meant!Define(Meant!Empty, p, v), Meant!Empty>>
  <2>101. PICK b : b = Meant!Define(Meant!Empty, p, v)
    OBVIOUS
  <2>102. b \in Block /\ DOMAIN b = {p} /\ b[p] = v
    <3>1. b \in [{p} -> Stored] /\ b[p] = v
      BY <1>3, <2>101 DEF Meant!Define, Meant!Empty
    <3>2. QED
      BY <3>1, BlockType
  <2>1. PICK s : s = Scopes \o <<b, Empty>>
    OBVIOUS
  <2>2. /\ s \in Seq(Block) /\ Len(s) = L + 2
        /\ \A i \in 1..L : s[i] = Scopes[i]
        /\ s[L + 1] = b /\ s[L + 2] = Empty
    BY <1>17, <2>1, <2>102, EmptyScope, PairAdded
  <2>3. ASSUME NEW i \in 1..Len(env')
        PROVE  DOMAIN s[i] = declared'[i] /\ \A m \in declared'[i] : s[i][m] = Sole(env'[i][m])
    <3>1. CASE i \in 1..L
      <4>1. /\ DOMAIN Scopes'[i] = declared'[i]
            /\ \A m \in declared'[i] : Scopes'[i][m] = Sole(env'[i][m])
        BY <1>13, MeantThen DEF MeantIs
      <4>2. s[i] = Scopes'[i]
        BY <1>4, <1>12, <1>13, <2>2, <3>1
      <4>3. QED
        BY <4>1, <4>2
    <3>2. CASE i = L + 1
      BY <1>6, <1>7, <1>8, <2>2, <2>102, <3>2
    <3>3. CASE i = L + 2
      BY <1>6, <1>8, <2>2, <3>3
    <3>4. QED
      BY <1>7, <1>10, <3>1, <3>2, <3>3
  <2>4. Scopes' = s
    BY <1>7, <1>13, <2>2, <2>3, ScopesAre
  <2>5. Meant!Empty = Empty
    BY DEF Meant!Empty, Empty
  <2>6. QED
    BY <2>1, <2>4, <2>5, <2>101
<1>19. Methods' = Append(Methods, [this |-> owner, first |-> Len(Scopes) + 1])
  <2> DEFINE M == [this : Objects \cup {None}, first : Nat]
  <2>1. PICK q : q = [this |-> owner, first |-> L + 1]
    OBVIOUS
  <2>2. PICK s : s = Append(Methods, q)
    OBVIOUS
  <2>3. q \in M
    BY <1>4, <2>1
  <2>4. Methods \in Seq(M)
    BY <1>17
  <2> HIDE DEF M
  <2>5. /\ s \in Seq(M) /\ Len(s) = T + 1
        /\ \A k \in 1..T : s[k] = Methods[k]
        /\ s[T + 1] = q
    BY <1>17, <2>2, <2>3, <2>4, AppendProperties
  <2>6. ASSUME NEW k \in 1..Len(frames')
        PROVE  s[k] = [this |-> frames'[k].owner, first |-> frames'[k].first]
    <3>1. CASE k \in 1..T
      BY <1>9, <1>17, <2>5, <3>1
    <3>2. CASE k = T + 1
      BY <1>9, <2>1, <2>5, <3>2
    <3>3. QED
      BY <1>9, <1>10, <3>1, <3>2
  <2>7. Methods' = s
    BY <1>9, <1>13, <2>5, <2>6, MethodsAre DEF M
  <2>8. QED
    BY <1>17, <2>1, <2>2, <2>7
<1>20. Meant!Call(owner, p, e)
  BY <1>2, <1>3, <1>12, <1>18, <1>19 DEF Meant!Call, Meant!Define
<1>21. QED
  BY <1>12, <1>13, <1>15, <1>16, <1>20 DEF NameInv

LEMMA InitFacts ==
  ASSUME NameInit
  PROVE  NameInv
<1>1. /\ env = <<Empty, Empty, Empty>> /\ declared = <<{}, {}, {}>>
      /\ fields = [o \in Objects |-> [n \in Fields[o] |-> Unset]]
  BY DEF NameInit
<1>2. PICK o \in Objects, static \in BOOLEAN :
        frames = <<[this |-> o, owner |-> IF static THEN None ELSE o, first |-> 2]>>
  BY DEF NameInit
<1>3. PICK r : r = [this |-> o, owner |-> IF static THEN None ELSE o, first |-> 2]
  OBVIOUS
<1>4. /\ r \in Method /\ r.this = o /\ r.owner = (IF static THEN None ELSE o) /\ r.first = 2
      /\ frames = <<r>>
  BY <1>2, <1>3 DEF Method
<1>5. /\ frames \in Seq(Method) /\ frames # <<>> /\ Len(frames) = 1 /\ frames[1] = r
  <2> DEFINE M == Method
  <2>1. r \in M /\ frames = <<r>>
    BY <1>4
  <2> HIDE DEF M
  <2>2. frames \in Seq(M) /\ frames # <<>> /\ Len(frames) = 1 /\ frames[1] = r
    BY <2>1
  <2>3. QED
    BY <2>2 DEF M
<1>6. /\ env \in Seq(Scope) /\ Len(env) = 3
      /\ \A i \in 1..3 : env[i] = Empty
  <2>1. PICK E : E = Empty
    OBVIOUS
  <2>2. E \in Scope /\ env = <<E, E, E>>
    BY <1>1, <2>1, EmptyScope
  <2> DEFINE S == Scope
  <2>3. E \in S
    BY <2>2
  <2> HIDE DEF S
  <2>4. env \in Seq(S) /\ Len(env) = 3 /\ \A i \in 1..3 : env[i] = E
    BY <2>2, <2>3
  <2>5. QED
    BY <2>1, <2>4 DEF S
<1>7. /\ declared \in Seq(SUBSET Names) /\ Len(declared) = 3
      /\ \A i \in 1..3 : declared[i] = {}
  BY <1>1
<1>8. /\ fields = [p \in Objects |-> fields[p]]
      /\ \A p \in Objects : fields[p] \in [Fields[p] -> Stored]
  BY <1>1 DEF Stored
<1>9. Chain
  <2>1. \A i \in 1..3 : declared[i] \subseteq DOMAIN env[i]
    BY <1>7
  <2>2. /\ \A k \in 1..Len(frames) : 2 <= frames[k].first /\ frames[k].first + 1 <= 3
        /\ \A h, k \in 1..Len(frames) : h < k => frames[h].first + 1 < frames[k].first
    BY <1>4, <1>5
  <2>3. QED
    BY <1>5, <1>6, <1>7, <1>8, <2>1, <2>2 DEF Chain
<1>10. Alone /\ Copied
  BY <1>6, EmptyScope DEF Alone, Copied
<1>11. Clear
  <2>1. SUFFICES ASSUME NEW k \in 1..Len(frames), frames[k].owner # None
                 PROVE  /\ frames[k].owner = frames[k].this
                        /\ \A n \in Fields[frames[k].owner] :
                             \A i \in 1..(frames[k].first - 1) : n \notin declared[i]
    BY DEF Clear
  <2>2. frames[k] = r /\ \A i \in 1..(2 - 1) : i \in 1..3
    BY <1>5
  <2>3. QED
    BY <1>4, <1>7, <2>1, <2>2
<1>12. QED
  BY <1>9, <1>10, <1>11 DEF NameInv

(* It begins as the program as it is written begins.                       *)
LEMMA InitMeant ==
  ASSUME NameInit
  PROVE  Meant!LexInit
<1>1. Chain
  BY InitFacts DEF NameInv
<1>2. /\ env = <<Empty, Empty, Empty>> /\ declared = <<{}, {}, {}>>
      /\ fields = [o \in Objects |-> [n \in Fields[o] |-> Unset]]
  BY DEF NameInit
<1>3. PICK o \in Objects, static \in BOOLEAN :
        frames = <<[this |-> o, owner |-> IF static THEN None ELSE o, first |-> 2]>>
  BY DEF NameInit
<1>4. PICK p : p = IF static THEN None ELSE o
  OBVIOUS
<1>5. Scopes = <<Meant!Empty, Meant!Empty, Meant!Empty>>
  <2>1. PICK E : E = Empty
    OBVIOUS
  <2>2. /\ Scopes \in Seq(Block) /\ Len(Scopes) = 3
        /\ \A i \in 1..3 : Scopes[i] \in Block /\ DOMAIN Scopes[i] = {}
    <3>1. Len(env) = 3 /\ \A i \in 1..3 : declared[i] = {}
      BY <1>2
    <3>2. /\ Scopes \in Seq(Block) /\ Len(Scopes) = 3
          /\ \A i \in 1..3 : DOMAIN Scopes[i] = {}
      BY <1>1, <3>1, MeantFacts DEF MeantIs
    <3>3. QED
      BY <3>2, LenProperties
  <2>3. E \in Block /\ DOMAIN E = {}
    BY <2>1, EmptyScope
  <2>4. \A i \in 1..3 : Scopes[i] = E
    BY <2>2, <2>3, SameScope
  <2> DEFINE S == Block
  <2>5. Scopes \in Seq(S) /\ Len(Scopes) = 3 /\ E \in S
    BY <2>2, <2>3
  <2> HIDE DEF S
  <2>6. Scopes = <<E, E, E>>
    <3>1. /\ <<E, E, E>> \in Seq(S) /\ Len(<<E, E, E>>) = 3
          /\ \A i \in 1..3 : <<E, E, E>>[i] = E
      BY <2>5
    <3>2. QED
      BY <2>4, <2>5, <3>1, SeqEqual
  <2>7. Meant!Empty = E
    BY <2>1 DEF Meant!Empty, Empty
  <2>8. QED
    BY <2>6, <2>7
<1>6. Methods = <<[this |-> p, first |-> 2]>>
  <2>1. DOMAIN frames = 1..1 /\ frames[1].owner = p /\ frames[1].first = 2
    BY <1>3, <1>4
  <2>2. QED
    BY <2>1 DEF Methods
<1>7. StaticValues = [n \in Statics |-> Unset]
  <2>1. DOMAIN env[1] = {}
    BY <1>2 DEF Empty
  <2>2. QED
    BY <2>1 DEF StaticValues
<1>8. p \in Objects \cup {None}
  BY <1>4
<1>9. QED
  BY <1>2, <1>5, <1>6, <1>7, <1>8 DEF Meant!LexInit

(* A step that confuses nothing keeps the invariant, and is one of Lexical. *)
LEMMA NextFacts ==
  ASSUME NameInv, NameNext, confused' = {}
  PROVE  NameInv' /\ Meant!LexNext
<1>1. ASSUME NEW n \in Names, NEW e \in Names \cup Values, NEW s \in Spellings,
             Declare(n, s, e)
      PROVE  NameInv' /\ Meant!LexNext
  BY <1>1, Declared DEF Meant!LexNext
<1>2. ASSUME NEW n \in Names, NEW e \in Names \cup Values, Assign(n, e)
      PROVE  NameInv' /\ Meant!LexNext
  <2>1. NameInv' /\ Meant!Assign(n, e)
    BY <1>2, AssignedVariable, AssignedField
  <2>2. QED
    BY <2>1 DEF Meant!LexNext
<1>3. ASSUME NEW n \in Names, NEW e \in Names \cup Values, SetStatic(n, e)
      PROVE  NameInv' /\ Meant!LexNext
  BY <1>3, StaticSet DEF Meant!LexNext
<1>4. ASSUME NEW n \in Names, NEW e \in Names \cup Values, CallStatic(n, e)
      PROVE  NameInv' /\ Meant!LexNext
  <2>1. PICK o : o = This
    OBVIOUS
  <2>2. o \in Objects
    BY <2>1, HereFacts DEF NameInv
  <2>3. Enter(o, None, n, e)
    BY <1>4, <2>1 DEF CallStatic, Enter
  <2>4. NameInv' /\ Meant!Call(None, n, e)
    BY <2>1, <2>2, <2>3, Entered
  <2>5. QED
    BY <2>4 DEF Meant!LexNext
<1>5. ASSUME NEW n \in Names, NEW e \in Names \cup Values, NEW o \in Objects, SetField(o, n, e)
      PROVE  NameInv' /\ Meant!LexNext
  BY <1>5, FieldSet DEF Meant!LexNext
<1>6. ASSUME NEW n \in Names, NEW e \in Names \cup Values, NEW o \in Objects, CallOn(o, n, e)
      PROVE  NameInv' /\ Meant!LexNext
  <2>1. o # None /\ o \in Objects \cup {None}
    BY NamesAssumption
  <2>2. Enter(o, o, n, e)
    BY <1>6 DEF CallOn
  <2>3. NameInv' /\ Meant!Call(o, n, e)
    BY <2>1, <2>2, Entered
  <2>4. QED
    BY <2>1, <2>3 DEF Meant!LexNext
<1>7. ASSUME Return PROVE NameInv' /\ Meant!LexNext
  BY <1>7, Returned DEF Meant!LexNext
<1>8. ASSUME OpenBlock PROVE NameInv' /\ Meant!LexNext
  BY <1>8, BlockOpened DEF Meant!LexNext
<1>9. ASSUME CloseBlock PROVE NameInv' /\ Meant!LexNext
  BY <1>9, BlockClosed DEF Meant!LexNext
<1>10. QED
  BY <1>1, <1>2, <1>3, <1>4, <1>5, <1>6, <1>7, <1>8, <1>9 DEF NameNext

LEMMA SameState ==
  ASSUME NameInv, UNCHANGED nameVars
  PROVE  NameInv'
BY DEF NameInv, Chain, Alone, Copied, Clear, nameVars

(* It is an invariant, as long as the program has confused no name.         *)
Unconfused == confused = {} => NameInv

LEMMA AlwaysUnconfused == NameSpec => []Unconfused
<1>1. NameInit => Unconfused
  BY InitFacts DEF Unconfused
<1>2. Unconfused /\ [NameNext]_nameVars => Unconfused'
  <2>1. CASE NameNext
    BY <2>1, NextFacts DEF Unconfused, NameNext
  <2>2. CASE UNCHANGED nameVars
    BY <2>2, SameState DEF Unconfused, nameVars
  <2>3. QED
    BY <2>1, <2>2
<1>3. QED
  BY <1>1, <1>2, PTL DEF NameSpec

(* Whatever the program calls, declares and assigns, in methods of any      *)
(* objects, as long as it has done none of the six things that confuse     *)
(* names, each name it may use reads as it means: VisitIdPrimary and the    *)
(* stacked scopes of env.go.                                                *)
THEOREM NamesAreRead == NameSpec => []NamesMeanWhatTheySay
<1>1. Unconfused => NamesMeanWhatTheySay
  BY ReadsAsMeant DEF Unconfused, NamesMeanWhatTheySay
<1>2. QED
  BY <1>1, AlwaysUnconfused, PTL

(* The interpreter begins as the program as it is written begins, and each  *)
(* of its steps is one the program as it is written takes: variables,       *)
(* fields and static variables, which the chain holds mixed, change as the  *)
(* same statement changes them in Lexical (env.go; assignToExpression,      *)
(* executeMethodNode and VisitBlock of interpreter.go).                     *)
THEOREM NamesImplementLexical == NameSpec => Meant!LexInit /\ LexicalUnlessConfused
<1>1. NameInit => Meant!LexInit
  BY InitMeant
<1>2. Unconfused /\ [NameNext]_nameVars
        => [confused' = {} => UNCHANGED Meant!lexVars \/ Meant!LexNext]_nameVars
  BY NextFacts DEF Unconfused, NameNext
<1>3. QED
  BY <1>1, <1>2, AlwaysUnconfused, PTL DEF NameSpec, LexicalUnlessConfused
=============================================================================
