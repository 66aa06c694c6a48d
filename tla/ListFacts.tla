------------------------------ MODULE ListFacts ------------------------------
(***************************************************************************)
(* Facts about sequences and natural numbers that the proofs of several    *)
(* modules use.  Induction is stated for a set of numbers and not for a    *)
(* predicate, so that first-order provers can use it; it rests on strict   *)
(* inclusion being well founded among the subsets of 0..n.                 *)
(***************************************************************************)
EXTENDS SequencesExt, SequenceTheorems, FiniteSetTheorems, TLAPS

(* The elements but the last. *)
LEMMA FrontFacts ==
  ASSUME NEW S, NEW s \in Seq(S), s # <<>>
  PROVE  /\ Len(s) \in Nat \ {0}
         /\ Last(s) = s[Len(s)] /\ Last(s) \in S
         /\ Front(s) \in Seq(S)
         /\ Len(Front(s)) = Len(s) - 1
         /\ \A i \in 1..(Len(s) - 1) : Front(s)[i] = s[i]
<1>1. Len(s) \in Nat \ {0} /\ \A i \in 1..Len(s) : s[i] \in S
  BY EmptySeq, LenProperties
<1>2. \A i \in 1..(Len(s) - 1) : s[i] \in S
  BY <1>1
<1>3. Last(s) = s[Len(s)] /\ Last(s) \in S
  BY <1>1 DEF Last
<1>4. Front(s) \in Seq(S)
  BY <1>1, <1>2, SubSeqProperties DEF Front
<1>5. Len(Front(s)) = Len(s) - 1
  <2>1. ASSUME NEW n \in Nat \ {0}
        PROVE  (IF 1 <= n - 1 THEN (n - 1) - 1 + 1 ELSE 0) = n - 1
    OBVIOUS
  <2>2. Len(Front(s)) = IF 1 <= Len(s) - 1 THEN (Len(s) - 1) - 1 + 1 ELSE 0
    BY <1>1, <1>2, SubSeqProperties DEF Front
  <2>3. QED
    BY <1>1, <2>1, <2>2
<1>6. \A i \in 1..(Len(s) - 1) : Front(s)[i] = s[i]
  BY <1>1, <1>2, SubSeqProperties DEF Front
<1>7. QED
  BY <1>1, <1>3, <1>4, <1>5, <1>6

(* The last element replaced by another. *)
LEMMA ReplaceFacts ==
  ASSUME NEW S, NEW s \in Seq(S), s # <<>>, NEW e \in S
  PROVE  /\ Append(Front(s), e) \in Seq(S)
         /\ Len(Append(Front(s), e)) = Len(s)
         /\ \A i \in 1..(Len(s) - 1) : Append(Front(s), e)[i] = s[i]
         /\ Append(Front(s), e)[Len(s)] = e
BY FrontFacts, AppendProperties

(* The elements up to k. *)
LEMMA PrefixFacts ==
  ASSUME NEW S, NEW s \in Seq(S), NEW k \in 0..Len(s)
  PROVE  /\ SubSeq(s, 1, k) \in Seq(S)
         /\ Len(SubSeq(s, 1, k)) = k
         /\ \A i \in 1..k : SubSeq(s, 1, k)[i] = s[i]
<1>1. Len(s) \in Nat /\ \A i \in 1..Len(s) : s[i] \in S
  BY LenProperties
<1>2. \A i \in 1..k : s[i] \in S
  BY <1>1
<1>3. k \in Int
  BY <1>1
<1>4. SubSeq(s, 1, k) \in Seq(S)
  BY <1>2, <1>3, SubSeqProperties
<1>5. Len(SubSeq(s, 1, k)) = k
  <2>1. Len(SubSeq(s, 1, k)) = IF 1 <= k THEN k - 1 + 1 ELSE 0
    BY <1>2, <1>3, SubSeqProperties
  <2>2. QED
    BY <1>1, <2>1
<1>6. \A i \in 1..(k - 1 + 1) : SubSeq(s, 1, k)[i] = s[1 + i - 1]
  BY <1>2, <1>3, SubSeqProperties
<1>7. QED
  BY <1>1, <1>4, <1>5, <1>6

LEMMA Induction ==
  ASSUME NEW n \in Nat, NEW T, 0 \in T,
         \A i \in 0..(n - 1) : i \in T => i + 1 \in T
  PROVE  0..n \subseteq T
<1> DEFINE S == 0..n
           C == S \ T
           F == {0..i : i \in C}
<1>1. SUFFICES ASSUME C # {} PROVE FALSE
  OBVIOUS
<1>2. IsFiniteSet(S)
  BY FS_Interval
<1>3. IsWellFoundedOn(StrictSubsetOrdering(S), SUBSET S)
  <2> HIDE DEF S
  <2>1. QED
    BY <1>2, FS_FiniteSubsetsOfFinite, FS_StrictSubsetOrderingWellFounded
<1>4. F \subseteq SUBSET S /\ F # {}
  BY <1>1
<1>5. PICK X \in F : \A Y \in F : <<Y, X>> \notin StrictSubsetOrdering(S)
  <2> HIDE DEF S, F
  <2>1. QED
    BY <1>3, <1>4, WFMin
<1>6. PICK m \in C : X = 0..m
  OBVIOUS
<1>7. m # 0 /\ m - 1 \in 0..(n - 1)
  OBVIOUS
<1>8. m - 1 \in T
  <2>1. SUFFICES ASSUME m - 1 \in C PROVE FALSE
    BY <1>7
  <2>2. 0..(m - 1) \in F /\ 0..m \in F
    BY <2>1
  <2>3. 0..(m - 1) \in SUBSET S /\ 0..m \in SUBSET S
    BY <2>2
  <2>4. 0..(m - 1) \subseteq 0..m /\ 0..(m - 1) # 0..m
    BY <1>7
  <2>5. <<0..(m - 1), 0..m>> \in StrictSubsetOrdering(S)
    <3> HIDE DEF S
    <3>1. QED
      BY <2>3, <2>4 DEF StrictSubsetOrdering
  <2>6. QED
    BY <2>2, <2>5, <1>5, <1>6
<1>9. QED
  BY <1>7, <1>8

(* A set of numbers below n has a greatest one. *)
LEMMA Maximum ==
  ASSUME NEW n \in Nat, NEW A, A \subseteq 0..n, A # {}
  PROVE  Max(A) \in A /\ \A y \in A : y <= Max(A)
<1> DEFINE T == {i \in 0..n : A \cap 0..i # {} =>
                       \E x \in A : x <= i /\ \A y \in A : y <= i => y <= x}
<1>1. 0 \in T
  OBVIOUS
<1>2. ASSUME NEW i \in 0..(n - 1), i \in T PROVE i + 1 \in T
  <2>1. CASE i + 1 \in A
    BY <2>1
  <2>2. CASE i + 1 \notin A
    <3>1. \A y \in A : y <= i + 1 => y <= i
      BY <2>2
    <3>2. A \cap 0..(i + 1) # {} => A \cap 0..i # {}
      BY <3>1
    <3>3. i + 1 \in 0..n
      OBVIOUS
    <3>4. i <= i + 1
      OBVIOUS
    <3>5. QED
      BY <1>2, <3>1, <3>2, <3>3
  <2>3. QED
    BY <2>1, <2>2
<1>3. n \in T
  <2> HIDE DEF T
  <2>1. QED
    BY <1>1, <1>2, Induction
<1>4. \E x \in A : \A y \in A : x >= y
  <2>1. A \cap 0..n # {}
    OBVIOUS
  <2>2. \A y \in A : y \in Nat /\ y <= n
    OBVIOUS
  <2>3. \E x \in A : x <= n /\ \A y \in A : y <= n => y <= x
    BY <1>3, <2>1
  <2>4. QED
    BY <2>2, <2>3
<1>5. Max(A) \in A /\ \A y \in A : Max(A) >= y
  BY <1>4 DEF Max
<1>6. QED
  BY <1>5

(* And a least one. *)
LEMMA Minimum ==
  ASSUME NEW n \in Nat, NEW A, A \subseteq 0..n, A # {}
  PROVE  Min(A) \in A /\ \A y \in A : Min(A) <= y
<1> DEFINE B == {n - x : x \in A}
<1>1. B \subseteq 0..n /\ B # {}
  <2>1. \A x \in A : n - x \in 0..n
    <3>1. \A x \in 0..n : n - x \in 0..n
      OBVIOUS
    <3>2. QED
      BY <3>1
  <2>2. PICK x \in A : TRUE
    OBVIOUS
  <2>3. n - x \in B
    OBVIOUS
  <2>4. QED
    BY <2>1, <2>3
<1>2. Max(B) \in B /\ \A y \in B : y <= Max(B)
  <2> HIDE DEF B
  <2>1. QED
    BY <1>1, Maximum
<1>3. PICK m \in A : Max(B) = n - m
  BY <1>2
<1>4. ASSUME NEW x \in A PROVE m <= x
  <2>1. n - x <= n - m
    BY <1>2, <1>3
  <2>2. QED
    BY <2>1
<1>5. QED
  BY <1>4 DEF Min

(* What holds of a member when it holds of those below it holds of all. *)
LEMMA HeightInduction ==
  ASSUME NEW S, NEW Height \in [S -> Nat], NEW P,
         \A s \in S : (\A r \in S : Height[r] < Height[s] => r \in P) => s \in P
  PROVE  S \subseteq P
<1>1. SUFFICES ASSUME NEW s \in S PROVE s \in P
  OBVIOUS
<1> DEFINE n == Height[s] + 1
           I == {i \in 0..n : \A r \in S : Height[r] < i => r \in P}
<1>2. n \in Nat /\ n \in 0..n /\ Height[s] < n
  OBVIOUS
<1>3. 0 \in I
  OBVIOUS
<1>4. ASSUME NEW i \in 0..(n - 1), i \in I PROVE i + 1 \in I
  <2>1. \A r, q \in S : Height[r] < i + 1 /\ Height[q] < Height[r] => Height[q] < i
    OBVIOUS
  <2>2. i + 1 \in 0..n
    BY <1>2
  <2> QED
    BY <1>4, <2>1, <2>2
<1>5. n \in I
  <2> HIDE DEF I, n
  <2> QED
    BY <1>2, <1>3, <1>4, Induction
<1> QED
  BY <1>2, <1>5

(* A recursive definition over a set whose members have heights: the value *)
(* of a member is made of the values of those below it.  Such a definition *)
(* has a solution.                                                         *)
Recursive(S, T, Height, step) ==
  /\ T # {} /\ Height \in [S -> Nat] /\ step \in [[S -> T] -> [S -> T]]
  /\ \A s \in S : \A f, g \in [S -> T] :
       (\A r \in S : Height[r] < Height[s] => f[r] = g[r]) => step[f][s] = step[g][s]

LEMMA Recursion ==
  ASSUME NEW S, NEW T, NEW Height, NEW step, Recursive(S, T, Height, step)
  PROVE  \E f \in [S -> T] : f = step[f]
<1> USE DEF Recursive
<1> DEFINE Good(n) == {f \in [S -> T] : \A s \in S : Height[s] < n => f[s] = step[f][s]}
<1>1. ASSUME NEW n \in Nat, Good(n) # {} PROVE Good(n + 1) # {}
  <2>1. PICK f \in Good(n) : TRUE
    BY <1>1
  <2> DEFINE g == [s \in S |-> step[f][s]]
  <2>2. g \in [S -> T]
    OBVIOUS
  <2>3. \A r \in S : Height[r] < n => f[r] = g[r]
    OBVIOUS
  <2>4. ASSUME NEW s \in S, Height[s] < n + 1 PROVE g[s] = step[g][s]
    <3>1. \A r \in S : Height[r] < Height[s] => f[r] = g[r]
      BY <2>3, <2>4
    <3>2. f \in [S -> T]
      OBVIOUS
    <3> HIDE DEF g
    <3>3. step[f][s] = step[g][s]
      BY <2>2, <3>1, <3>2
    <3> QED
      BY <3>3 DEF g
  <2> HIDE DEF g
  <2> QED
    BY <2>2, <2>4
<1>2. \A n \in Nat : Good(n) # {}
  <2>1. SUFFICES ASSUME NEW n \in Nat PROVE Good(n) # {}
    OBVIOUS
  <2> DEFINE I == {i \in 0..n : Good(i) # {}}
  <2>2. 0 \in I
    <3>1. PICK t \in T : TRUE
      OBVIOUS
    <3>2. [s \in S |-> t] \in Good(0)
      OBVIOUS
    <3> QED
      BY <3>2
  <2>3. \A i \in 0..(n - 1) : i \in I => i + 1 \in I
    <3> HIDE DEF Good
    <3> QED
      BY <1>1
  <2>4. 0..n \subseteq I
    <3> HIDE DEF I
    <3> QED
      BY <2>2, <2>3, Induction
  <2>5. n \in 0..n
    OBVIOUS
  <2> HIDE DEF Good
  <2> QED
    BY <2>4, <2>5
\* Solutions agree as far as both go.
<1>3. ASSUME NEW m \in Nat, NEW f \in Good(m), NEW g \in Good(m), NEW s \in S, Height[s] < m
      PROVE  f[s] = g[s]
  <2> DEFINE I == {i \in 0..m : \A r \in S : Height[r] < i => f[r] = g[r]}
  <2>1. 0 \in I
    OBVIOUS
  <2>2. ASSUME NEW i \in 0..(m - 1), i \in I PROVE i + 1 \in I
    <3>1. ASSUME NEW r \in S, Height[r] < i + 1 PROVE f[r] = g[r]
      <4>1. \A q \in S : Height[q] < Height[r] => f[q] = g[q]
        BY <2>2, <3>1
      <4>2. f \in [S -> T] /\ g \in [S -> T]
        OBVIOUS
      <4>3. step[f][r] = step[g][r]
        BY <4>1, <4>2
      <4>4. Height[r] < m
        BY <3>1
      <4>5. f[r] = step[f][r] /\ g[r] = step[g][r]
        BY <4>4
      <4> QED
        BY <4>3, <4>5
    <3> QED
      BY <3>1
  <2>3. 0..m \subseteq I
    <3> HIDE DEF I
    <3>1. \A i \in 0..(m - 1) : i \in I => i + 1 \in I
      BY <2>2
    <3> HIDE DEF Recursive
    <3> QED
      BY <2>1, <3>1, Induction
  <2>4. m \in 0..m
    OBVIOUS
  <2> QED
    BY <1>3, <2>3, <2>4
<1>4. ASSUME NEW n \in Nat, NEW m \in Nat, n <= m PROVE Good(m) \subseteq Good(n)
  <2>1. \A s \in S : Height[s] < n => Height[s] < m
    BY <1>4
  <2> QED
    BY <2>1
<1> DEFINE upTo(n) == CHOOSE f \in Good(n) : TRUE
           sol == [s \in S |-> upTo(Height[s] + 1)[s]]
<1>5. \A n \in Nat : upTo(n) \in Good(n)
  BY <1>2
<1> HIDE DEF upTo
<1>6. sol \in [S -> T]
  BY <1>5
<1>7. ASSUME NEW n \in Nat, NEW f \in Good(n), NEW s \in S, Height[s] < n PROVE sol[s] = f[s]
  <2> DEFINE k == Height[s] + 1
             g == upTo(k)
  <2>1. k \in Nat /\ k <= n /\ Height[s] < k
    BY <1>7
  <2>2. g \in Good(k) /\ f \in Good(k)
    BY <1>4, <1>5, <2>1
  <2>3. g[s] = f[s]
    <3> HIDE DEF g, k, Good
    <3> QED
      BY <1>3, <2>1, <2>2
  <2> QED
    BY <2>3
<1>8. ASSUME NEW s \in S PROVE sol[s] = step[sol][s]
  <2> DEFINE k == Height[s] + 1
             g == upTo(k)
  <2>1. k \in Nat /\ Height[s] < k
    OBVIOUS
  <2>2. g \in Good(k)
    BY <1>5, <2>1
  <2>3. \A r \in S : Height[r] < Height[s] => sol[r] = g[r]
    <3>1. \A r \in S : Height[r] < Height[s] => Height[r] < k
      BY <2>1
    <3> HIDE DEF sol, g, k, Good
    <3> QED
      BY <1>7, <2>1, <2>2, <3>1
  <2>4. g \in [S -> T] /\ g[s] = step[g][s]
    <3> HIDE DEF g
    <3> QED
      BY <2>1, <2>2
  <2>5. sol[s] = g[s]
    <3> HIDE DEF sol, g, k, Good
    <3> QED
      BY <1>7, <2>1, <2>2
  <2> HIDE DEF sol, g
  <2> QED
    BY <1>6, <2>3, <2>4, <2>5
<1> HIDE DEF sol
<1> QED
  BY <1>6, <1>8
=============================================================================
