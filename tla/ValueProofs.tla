---------------------------- MODULE ValueProofs ----------------------------
(***************************************************************************)
(* What the operators of Values keep, for integers and doubles of any      *)
(* width: results fit, types widen, == tells integers apart up to where a  *)
(* double stops holding each of them, one order holds between two values,  *)
(* and slots of sets and maps and branches of a switch follow ==.          *)
(***************************************************************************)
EXTENDS Values, ListFacts

(* What is wrapped fits. *)
LEMMA WrappedFits ==
  ASSUME NEW n \in Int, NEW half \in Nat \ {0}
  PROVE  Wrap(n, half) \in Span(half)
<1>1. (n + half) % (2 * half) \in 0..(2 * half - 1)
  <2>1. ASSUME NEW a \in Int, NEW d \in Nat \ {0} PROVE a % d \in 0..(d - 1)
    BY SMT
  <2>2. n + half \in Int /\ 2 * half \in Nat \ {0}
    OBVIOUS
  <2> QED
    BY <2>1, <2>2
<1> QED
  BY <1>1 DEF Wrap, Span

(* The width of an integer: its kinds of values, and no two kinds in common. *)
LEMMA Kinds ==
  ASSUME NEW v \in Scalars \cup Maps
  PROVE  /\ v.type \in {"Null", "Boolean", "Integer", "Long", "Double", "String", "Keyed"}
         /\ v.type = "Null" => v = Nil
         /\ v.type = "Integer" => v = Integer(v.n) /\ v.n \in Span(IntHalf)
         /\ v.type = "Long" => v = Long(v.n) /\ v.n \in Span(LongHalf)
         /\ v.type = "Double" => v = Double(v.f) /\ v.f \in Floats
         /\ v.type = "Keyed" <=> v \in Maps
BY Widths, SMT DEF Scalars, Maps, Nil, Boolean, Integer, Long, Double, Str, Keyed

(* The sorts of floats. *)
LEMMA FloatFacts ==
  ASSUME NEW f \in Floats
  PROVE  /\ f.sort \in {"finite", "zero", "infinite", "nan"} /\ f.n \in Int
         /\ f.sort = "finite" => f = Finite(f.n)
         /\ f.sort = "zero" => f = MinusZero /\ f.n = 0
         /\ f.sort = "infinite" => f.n \in {1, -1} /\ f = Infinity(f.n)
         /\ f.sort = "nan" => f = NaN
BY Widths DEF Floats, Finite, MinusZero, Infinity, NaN

LEMMA QuotientIsInt ==
  ASSUME NEW m \in Int, NEW n \in Int, n # 0
  PROVE  Quotient(m, n) \in Int
<1>1. ASSUME NEW a \in Nat, NEW b \in Nat \ {0} PROVE a \div b \in Int
  BY SMT
<1>2. (IF m < 0 THEN -m ELSE m) \in Nat /\ (IF n < 0 THEN -n ELSE n) \in Nat \ {0}
  OBVIOUS
<1>3. (IF m < 0 THEN -m ELSE m) \div (IF n < 0 THEN -n ELSE n) \in Int
  BY <1>1, <1>2
<1> DEFINE q == (IF m < 0 THEN -m ELSE m) \div (IF n < 0 THEN -n ELSE n)
<1>4. Quotient(m, n) = IF (m < 0) = (n < 0) THEN q ELSE -q
  BY DEF Quotient
<1>5. q \in Int
  BY <1>3
<1> HIDE DEF q
<1> QED
  BY <1>4, <1>5

LEMMA ExactIsInt ==
  ASSUME NEW m \in Int, NEW n \in Int, NEW op \in {"+", "-", "*", "/", "%"},
         op \in {"/", "%"} => n # 0
  PROVE  Exact(op, m, n) \in Int
<1>1. CASE op = "+"
  BY <1>1 DEF Exact
<1>2. CASE op = "-"
  BY <1>2 DEF Exact
<1>3. CASE op = "*"
  <2>1. m * n \in Int
    OBVIOUS
  <2> QED
    BY <1>3, <2>1 DEF Exact
<1>4. CASE op = "/"
  BY <1>4, QuotientIsInt DEF Exact
<1>5. CASE op = "%"
  <2>1. PICK q \in Int : q = Quotient(m, n)
    BY <1>5, QuotientIsInt
  <2>2. m - (n * q) \in Int
    OBVIOUS
  <2> QED
    BY <1>5, <2>1, <2>2 DEF Exact
<1> QED
  BY <1>1, <1>2, <1>3, <1>4, <1>5

(* The distance of the doubles around a number is the least that reaches it. *)
LEMMA UnitFacts ==
  ASSUME NEW m \in 0..LongHalf
  PROVE  /\ Unit(m) \in Units
         /\ m <= Unit(m) * Precise
         /\ Unit(m) = 1 \/ Unit(m) * Precise < 2 * m
<1> USE Widths
<1>1. PICK top \in Units : LongHalf <= top * Precise
  OBVIOUS
<1>2. \A u \in Units : u \in Nat \ {0}
  OBVIOUS
<1> DEFINE A == {u \in Units : u <= top /\ m <= u * Precise}
<1>3. top \in A
  <2>1. top * Precise \in Int
    BY <1>2
  <2> QED
    BY <1>1, <1>2, <2>1
<1>4. PICK least \in A : \A u \in A : least <= u
  <2>1. A \subseteq 0..top
    <3>1. ASSUME NEW u \in Units, u <= top PROVE u \in 0..top
      <4>1. u \in Nat \ {0} /\ top \in Nat \ {0}
        BY <1>2
      <4> QED
        BY <3>1, <4>1
    <3> QED
      BY <3>1
  <2>2. A # {} /\ top \in Nat
    BY <1>2, <1>3
  <2> HIDE DEF A
  <2> QED
    BY <2>1, <2>2, Minimum
<1>5. least = 1 \/ least * Precise < 2 * m
  <2>1. SUFFICES ASSUME least # 1 PROVE least * Precise < 2 * m
    OBVIOUS
  <2>2. PICK half \in Units : least = 2 * half
    BY <2>1
  <2>3. half \notin A /\ half < least /\ half \in Nat
    BY <1>2, <1>4, <2>2
  <2>4. ~(m <= half * Precise)
    BY <1>2, <1>4, <2>3
  <2>5. half * Precise \in Int /\ least * Precise = 2 * (half * Precise)
    BY <2>2, <2>3
  <2> QED
    BY <2>4, <2>5
<1>6. QED
  BY <1>4, <1>5 DEF Unit

(* A double holds an integer up to Precise as it is. *)
LEMMA NearIsHeld ==
  ASSUME NEW m \in 0..Precise
  PROVE  Rounded(m) = m
<1> USE Widths
<1>1. m \in 0..LongHalf
  OBVIOUS
<1>2. Unit(m) \in Nat \ {0} /\ (Unit(m) = 1 \/ Unit(m) * Precise < 2 * m)
  BY <1>1, UnitFacts
<1>3. Unit(m) = 1
  <2>1. ASSUME NEW u \in Nat \ {0}, NEW p \in Nat \ {0}, m \in 0..p, u * p < 2 * m PROVE u = 1
    <3>1. SUFFICES ASSUME u >= 2 PROVE FALSE
      OBVIOUS
    <3>2. u * p >= 2 * p
      BY <3>1
    <3> QED
      BY <2>1, <3>2
  <2> QED
    BY <1>2, <2>1
<1>4. m \div 1 = m /\ m % 1 = 0
  BY SMT
<1> QED
  BY <1>3, <1>4 DEF Rounded, Nearest

(* Whatever lies beyond Precise is rounded to a double that does not lie below it. *)
LEMMA FarStaysFar ==
  ASSUME NEW m \in 0..LongHalf, Precise < m
  PROVE  Rounded(m) \in Int /\ Rounded(m) >= Precise
<1> USE Widths
<1>1. PICK u \in Nat \ {0} : u = Unit(m) /\ u \in Units /\ m <= u * Precise
                             /\ (u = 1 \/ u * Precise < 2 * m)
  BY UnitFacts
<1>2. u # 1
  BY <1>1
<1>3. PICK half \in Nat \ {0} : u = 2 * half
  BY <1>1, <1>2
<1>4. PICK k \in Nat \ {0} : Precise = 2 * k
  <2>1. ASSUME NEW p \in Nat \ {0}, p % 2 = 0 PROVE \E k \in Nat \ {0} : p = 2 * k
    <3>1. p \div 2 \in Nat \ {0} /\ p = 2 * (p \div 2)
      BY <2>1, SMT
    <3> QED
      BY <3>1
  <2> QED
    BY <2>1
<1>5. u * k = half * Precise /\ u * Precise = 2 * (half * Precise) /\ half * Precise \in Int
  BY <1>3, <1>4
<1>6. u * k < m
  BY <1>1, <1>2, <1>5
<1>7. m \div u \in Int /\ m \div u >= k
  <2>1. ASSUME NEW d \in Nat \ {0}, NEW a \in Nat, NEW b \in Nat, d * b < a
        PROVE  a \div d \in Int /\ a \div d >= b
    <3>1. PICK q \in Int : q = a \div d
      BY SMT
    <3>2. a = d * q + (a % d) /\ a % d \in 0..(d - 1)
      BY <3>1, SMT
    <3>3. d * b < d * q + d
      BY <2>1, <3>2
    <3>4. d * (q + 1) = d * q + d
      OBVIOUS
    <3>5. b < q + 1
      <4>1. SUFFICES ASSUME q + 1 <= b PROVE FALSE
        BY <3>1
      <4>2. d * (q + 1) <= d * b
        BY <4>1
      <4> QED
        BY <3>3, <3>4, <4>2
    <3> QED
      BY <3>1, <3>5
  <2> QED
    BY <1>1, <1>6, <2>1
<1>8. PICK r \in Int : r >= k /\ Nearest(m, u) = u * r
  <2>1. PICK below \in Int : below = m \div u /\ below >= k
    BY <1>7
  <2>2. PICK r \in {below, below + 1} : Nearest(m, u) = u * r
    BY <2>1 DEF Nearest
  <2>3. r \in Int /\ r >= k
    BY <2>1
  <2> QED
    BY <2>2, <2>3
<1>9. u * r \in Int /\ u * r >= u * k
  BY <1>8
<1>10. half * Precise >= Precise
  BY <1>3
<1> QED
  BY <1>1, <1>5, <1>8, <1>9, <1>10 DEF Rounded

-----------------------------------------------------------------------------
(* What is given is two values, an operator and the orders of their entries. *)
GivenOK ==
  Given =>
    /\ given.a \in Scalars \cup Maps /\ given.b \in Scalars \cup Maps
    /\ given.op \in {"+", "-", "*", "/", "%"}
    /\ given.a \in Maps \/ given.b \in Maps => given.op = "+"
    /\ given.p \in Traversals(given.a) /\ given.q \in Traversals(given.b)

LEMMA GivenAlwaysOK == ValuesSpec => []GivenOK
<1>1. ValuesInit => GivenOK
  BY DEF ValuesInit, GivenOK, Given
<1>2. GivenOK /\ [ValuesNext]_given => GivenOK'
  <2>1. SUFFICES ASSUME GivenOK, [ValuesNext]_given PROVE GivenOK'
    OBVIOUS
  <2>2. CASE UNCHANGED given
    BY <2>1, <2>2 DEF GivenOK, Given
  <2>3. CASE Apply
    <3>1. PICK v \in Scalars \cup Maps, w \in Scalars \cup Maps, op \in {"+", "-", "*", "/", "%"} :
            \E p \in Traversals(v), q \in Traversals(w) :
              /\ (v \in Maps \/ w \in Maps) => op = "+"
              /\ given' = [a |-> v, b |-> w, op |-> op, p |-> p, q |-> q]
      BY <2>3 DEF Apply
    <3>2. PICK p \in Traversals(v), q \in Traversals(w) :
              /\ (v \in Maps \/ w \in Maps) => op = "+"
              /\ given' = [a |-> v, b |-> w, op |-> op, p |-> p, q |-> q]
      BY <3>1
    <3>3. given'.a = v /\ given'.b = w /\ given'.op = op /\ given'.p = p /\ given'.q = q
      BY <3>2
    <3> QED
      BY <3>2, <3>3 DEF GivenOK
  <2> QED
    BY <2>1, <2>2, <2>3 DEF ValuesNext
<1> QED
  BY <1>1, <1>2, PTL DEF ValuesSpec

Fits(v) == /\ v.type = "Integer" => v.n \in Span(IntHalf)
           /\ v.type = "Long" => v.n \in Span(LongHalf)

LEMMA ResultFits ==
  ASSUME NEW v \in Scalars \cup Maps, NEW w \in Scalars \cup Maps,
         NEW op \in {"+", "-", "*", "/", "%"}, v \in Maps \/ w \in Maps => op = "+"
  PROVE  Fits(Arithmetic(op, v, w))
<1> DEFINE r == Arithmetic(op, v, w)
<1>1. \A n \in Int : Wrap(n, IntHalf) \in Span(IntHalf) /\ Wrap(n, LongHalf) \in Span(LongHalf)
  BY WrappedFits, Widths
<1>2. \A n \in Span(IntHalf) \cup Span(LongHalf) : n \in Int
  BY Widths DEF Span
<1>3. IsNumeric(v) /\ v.type # "Double" => v.n \in Int
  BY <1>2, Kinds DEF IsNumeric
<1>4. IsNumeric(w) /\ w.type # "Double" => w.n \in Int
  BY <1>2, Kinds DEF IsNumeric
<1>5. \/ r.type \notin {"Integer", "Long"}
      \/ \E n \in Int : r = Integer(Wrap(n, IntHalf))
      \/ \E n \in Int : r = Long(Wrap(n, LongHalf))
  <2>1. /\ \A s : Str(s).type \notin {"Integer", "Long"}
        /\ \A x : Exception(x).type \notin {"Integer", "Long"}
        /\ Nil.type \notin {"Integer", "Long"} /\ SomeDouble.type \notin {"Integer", "Long"}
    BY DEF Str, Exception, Nil, SomeDouble, Double
  <2>2. CASE /\ op # "%" /\ "Long" \in {v.type, w.type}
             /\ ~("Double" \in {v.type, w.type}) /\ ~("Null" \in {v.type, w.type})
             /\ ~(op = "+" /\ "String" \in {v.type, w.type})
    <3> DEFINE m == IF IsNumeric(v) THEN v.n ELSE 0
               n == IF IsNumeric(w) THEN w.n ELSE 0
    <3>1. r = IF op = "/" /\ n = 0 THEN Exception("Math") ELSE Long(Wrap(Exact(op, m, n), LongHalf))
      BY <2>2 DEF Arithmetic
    <3>2. m \in Int /\ n \in Int
      BY <1>3, <1>4, <2>2
    <3> HIDE DEF m, n
    <3>3. ~(op = "/" /\ n = 0) => Exact(op, m, n) \in Int
      BY <2>2, <3>2, ExactIsInt
    <3> QED
      BY <2>1, <3>1, <3>3
  <2>3. CASE {v.type, w.type} = {"Integer"}
    <3>1. r = IF op \in {"/", "%"} /\ w.n = 0 THEN Exception("Math")
              ELSE Integer(Wrap(Exact(op, v.n, w.n), IntHalf))
      BY <2>3 DEF Arithmetic
    <3>2. v.n \in Int /\ w.n \in Int
      BY <2>3, <1>3, <1>4 DEF IsNumeric
    <3>3. ~(op \in {"/", "%"} /\ w.n = 0) => Exact(op, v.n, w.n) \in Int
      BY <3>2, ExactIsInt
    <3> QED
      BY <2>1, <3>1, <3>3
  <2>4. CASE /\ {v.type, w.type} # {"Integer"}
             /\ ~(/\ op # "%" /\ "Long" \in {v.type, w.type}
                  /\ ~("Double" \in {v.type, w.type}) /\ ~("Null" \in {v.type, w.type})
                  /\ ~(op = "+" /\ "String" \in {v.type, w.type}))
    <3>1. \/ \E s : r = Str(s)
          \/ \E x : r = Exception(x)
          \/ r = Nil \/ r = SomeDouble
      BY <2>4 DEF Arithmetic
    <3> QED
      BY <2>1, <3>1
  <2> QED
    BY <2>2, <2>3, <2>4
<1> HIDE DEF r
<1>6. ASSUME NEW n PROVE Integer(n).type = "Integer" /\ Integer(n).n = n
                         /\ Long(n).type = "Long" /\ Long(n).n = n
  BY DEF Integer, Long
<1>7. Fits(r)
  BY <1>1, <1>5, <1>6 DEF Fits
<1> QED
  BY <1>7 DEF r

LEMMA NegationFits ==
  ASSUME NEW v \in Scalars \cup Maps
  PROVE  Fits(Negate(v)) <=> v # Integer(-IntHalf)
<1>1. CASE v.type = "Long"
  <2>1. v.n \in Int /\ -v.n \in Int
    BY <1>1, Kinds, Widths DEF Span
  <2>2. Wrap(-v.n, LongHalf) \in Span(LongHalf)
    BY <2>1, WrappedFits, Widths
  <2>3. Negate(v) = Long(Wrap(-v.n, LongHalf))
    BY <1>1 DEF Negate
  <2> QED
    BY <1>1, <2>2, <2>3 DEF Fits, Long, Integer
<1>2. CASE v.type = "Integer"
  <2>1. PICK n \in Span(IntHalf) : v = Integer(n)
    BY <1>2, Kinds
  <2>2. Negate(v) = Integer(-n)
    BY <1>2, <2>1 DEF Negate, Integer
  <2>3. -n \in Span(IntHalf) <=> n # -IntHalf
    BY Widths DEF Span
  <2>4. Integer(n) # Integer(-IntHalf) <=> n # -IntHalf
    BY DEF Integer
  <2> QED
    BY <2>1, <2>2, <2>3, <2>4 DEF Fits, Integer
<1>3. CASE v.type \notin {"Integer", "Long"}
  <2>1. v # Integer(-IntHalf)
    BY <1>3 DEF Integer
  <2>2. CASE v.type = "Double"
    <3>1. Negate(v) = Double(NegatedFloat(v.f))
      BY <2>2 DEF Negate
    <3>2. \A f : Double(f).type = "Double"
      BY DEF Double
    <3> QED
      BY <2>1, <3>1, <3>2 DEF Fits
  <2>3. CASE v.type # "Double"
    <3>1. Negate(v) = v
      BY <1>3, <2>3 DEF Negate
    <3> QED
      BY <1>3, <2>1, <3>1 DEF Fits
  <2> QED
    BY <2>2, <2>3
<1> QED
  BY <1>1, <1>2, <1>3

(* For integers of any width: whatever Add, Subtract, Multiply, Divide and Modulo make of *)
(* values that fit fits too; of the negations only that of the least Integer does not.    *)
THEOREM ResultsAlwaysFit == ValuesSpec => []NumbersStayInRange
<1>1. GivenOK => NumbersStayInRange
  <2>1. SUFFICES ASSUME GivenOK, Given
                 PROVE  /\ Fits(Arithmetic(given.op, given.a, given.b))
                        /\ Fits(Negate(given.a)) <=> given.a # Integer(-IntHalf)
    BY DEF NumbersStayInRange, Fits
  <2> QED
    BY <2>1, ResultFits, NegationFits DEF GivenOK
<1> QED
  BY <1>1, GivenAlwaysOK, PTL

-----------------------------------------------------------------------------
(* For operands of any width: a result has the wider of their types, but for the *)
(* remainder with a Long, which Modulo computes with doubles.                     *)
THEOREM ResultsAlwaysWiden == ValuesSpec => []ResultIsTheWider
<1>1. ASSUME NEW v \in Scalars \cup Maps, NEW w \in Scalars \cup Maps,
             NEW op \in {"+", "-", "*", "/", "%"}, {v.type, w.type} \subseteq Numeric,
             Arithmetic(op, v, w).type # "Exception"
      PROVE  Arithmetic(op, v, w).type =
               LET wider == IF Width(v) > Width(w) THEN v.type ELSE w.type
               IN IF op = "%" /\ wider = "Long" THEN "Double" ELSE wider
  <2> DEFINE wider == IF Width(v) > Width(w) THEN v.type ELSE w.type
  <2>1. IsNumeric(v) /\ IsNumeric(w)
    BY <1>1 DEF IsNumeric, Numeric
  <2>2. /\ \A x : Exception(x).type = "Exception"
        /\ \A n : Integer(n).type = "Integer" /\ Long(n).type = "Long"
        /\ SomeDouble.type = "Double"
    BY DEF Exception, Integer, Long, SomeDouble, Double
  <2>3. CASE "Double" \in {v.type, w.type}
    <3>1. wider = "Double"
      BY <2>1, <2>3 DEF Width, IsNumeric
    <3>2. Arithmetic(op, v, w) = SomeDouble \/ Arithmetic(op, v, w) = Exception("Math")
      BY <2>1, <2>3 DEF Arithmetic, IsNumeric
    <3> QED
      BY <1>1, <2>2, <3>1, <3>2
  <2>4. CASE "Double" \notin {v.type, w.type} /\ "Long" \in {v.type, w.type}
    <3>1. wider = "Long"
      BY <2>1, <2>4 DEF Width, IsNumeric
    <3>2. \/ op = "%" /\ Arithmetic(op, v, w) = SomeDouble
          \/ op # "%" /\ \E n : Arithmetic(op, v, w) = Long(n)
          \/ Arithmetic(op, v, w) = Exception("Math")
      BY <2>1, <2>4 DEF Arithmetic, IsNumeric
    <3> QED
      BY <1>1, <2>2, <3>1, <3>2
  <2>5. CASE {v.type, w.type} = {"Integer"}
    <3>1. wider = "Integer"
      BY <2>5
    <3>2. (\E n : Arithmetic(op, v, w) = Integer(n)) \/ Arithmetic(op, v, w) = Exception("Math")
      BY <2>5 DEF Arithmetic
    <3> QED
      BY <1>1, <2>2, <3>1, <3>2
  <2> QED
    BY <2>1, <2>3, <2>4, <2>5 DEF IsNumeric
<1>2. GivenOK => ResultIsTheWider
  BY <1>1 DEF GivenOK, ResultIsTheWider
<1> QED
  BY <1>2, GivenAlwaysOK, PTL

(* The double of an integer: the integer itself up to Precise, and beyond it one as far *)
(* from zero as Precise, on the same side.                                               *)
LEMMA DoubleOfInteger ==
  ASSUME NEW v \in Scalars \cup Maps, v.type \in {"Integer", "Long"}
  PROVE  /\ ToFloat(v) = Finite(ToFloat(v).n)
         /\ -Precise <= v.n /\ v.n <= Precise => ToFloat(v).n = 2 * v.n
         /\ v.n > Precise => ToFloat(v).n \in Int /\ ToFloat(v).n >= 2 * Precise
         /\ v.n < -Precise => ToFloat(v).n \in Int /\ ToFloat(v).n <= -(2 * Precise)
<1> USE Widths
<1>1. v.n \in Int /\ -LongHalf <= v.n /\ v.n <= LongHalf
  BY Kinds DEF Span
<1>0. \A h : Finite(h).n = h
  BY DEF Finite
<1>2. /\ ToFloat(v).n = IF v.n < 0 THEN -(2 * Rounded(-v.n)) ELSE 2 * Rounded(v.n)
      /\ ToFloat(v) = Finite(ToFloat(v).n)
  BY <1>0 DEF ToFloat
<1>3. PICK n \in Int : n = v.n
  BY <1>1
<1>4. CASE n < 0
  <2>1. -n \in 0..LongHalf
    BY <1>1, <1>3, <1>4
  <2>2. -Precise <= n => -n \in 0..Precise /\ Rounded(-n) = -n
    BY <1>4, NearIsHeld
  <2>3. n < -Precise => Rounded(-n) \in Int /\ Rounded(-n) >= Precise
    BY <2>1, FarStaysFar
  <2> QED
    BY <1>2, <1>3, <1>4, <2>2, <2>3
<1>5. CASE n >= 0
  <2>1. n \in 0..LongHalf
    BY <1>1, <1>3, <1>5
  <2>2. n <= Precise => n \in 0..Precise /\ Rounded(n) = n
    BY <1>5, NearIsHeld
  <2>3. n > Precise => Rounded(n) \in Int /\ Rounded(n) >= Precise
    BY <2>1, FarStaysFar
  <2> QED
    BY <1>2, <1>3, <1>5, <2>2, <2>3
<1> QED
  BY <1>3, <1>4, <1>5

(* For integers of any width, compared as doubles of any precision: an Integer, or a Long *)
(* nearer to zero than Precise, equals its own number and no other.                        *)
THEOREM EqualMeansSame == ValuesSpec => []EqualNumbersAreTheSame
<1>1. ASSUME NEW v \in Scalars \cup Maps, NEW w \in Scalars \cup Maps,
             v.type \in {"Integer", "Long"}, w.type \in {"Integer", "Long"}
      PROVE  /\ v.n = w.n => Equals(v, <<>>, w, <<>>)
             /\ \/ v.type = "Integer" \/ (-Precise < v.n /\ v.n < Precise)
                \/ w.type = "Integer" \/ (-Precise < w.n /\ w.n < Precise)
                => (Equals(v, <<>>, w, <<>>) => v.n = w.n)
  <2>0. ASSUME NEW h, NEW k PROVE FloatEqual(Finite(h), Finite(k)) <=> h = k
    BY DEF FloatEqual, Finite, Scale
  <2>1. Equals(v, <<>>, w, <<>>) <=> ToFloat(v).n = ToFloat(w).n
    <3>1. Equals(v, <<>>, w, <<>>) <=> FloatEqual(ToFloat(v), ToFloat(w))
      BY <1>1 DEF Equals, IsNumeric
    <3>2. ToFloat(v) = Finite(ToFloat(v).n) /\ ToFloat(w) = Finite(ToFloat(w).n)
      BY <1>1, DoubleOfInteger
    <3> QED
      BY <2>0, <3>1, <3>2
  <2>3. v.n = w.n => ToFloat(v).n = ToFloat(w).n
    BY <1>1 DEF ToFloat
  <2>4. v.n \in Int /\ w.n \in Int /\ Precise \in Nat
    BY <1>1, Kinds, Widths DEF Span
  <2>5. /\ v.type = "Integer" => -Precise < v.n /\ v.n < Precise
        /\ w.type = "Integer" => -Precise < w.n /\ w.n < Precise
    BY Kinds, Widths DEF Span
  <2>6. /\ -Precise <= v.n /\ v.n <= Precise => ToFloat(v).n = 2 * v.n
        /\ v.n > Precise => ToFloat(v).n \in Int /\ ToFloat(v).n >= 2 * Precise
        /\ v.n < -Precise => ToFloat(v).n \in Int /\ ToFloat(v).n <= -(2 * Precise)
    BY <1>1, DoubleOfInteger
  <2>7. /\ -Precise <= w.n /\ w.n <= Precise => ToFloat(w).n = 2 * w.n
        /\ w.n > Precise => ToFloat(w).n \in Int /\ ToFloat(w).n >= 2 * Precise
        /\ w.n < -Precise => ToFloat(w).n \in Int /\ ToFloat(w).n <= -(2 * Precise)
    BY <1>1, DoubleOfInteger
  <2> QED
    BY <2>1, <2>3, <2>4, <2>5, <2>6, <2>7
<1>2. GivenOK => EqualNumbersAreTheSame
  <2>1. SUFFICES ASSUME GivenOK, Given, given.a.type \in {"Integer", "Long"},
                        given.b.type \in {"Integer", "Long"}
                 PROVE  LET v == given.a
                            w == given.b
                        IN /\ v.n = w.n => Equals(v, <<>>, w, <<>>)
                           /\ \/ v.type = "Integer" \/ (-Precise < v.n /\ v.n < Precise)
                              \/ w.type = "Integer" \/ (-Precise < w.n /\ w.n < Precise)
                              => (Equals(v, <<>>, w, <<>>) => v.n = w.n)
    BY DEF EqualNumbersAreTheSame
  <2> QED
    BY <1>1, <2>1 DEF GivenOK
<1> QED
  BY <1>2, GivenAlwaysOK, PTL

(* A set or map of at most one entry has one order. *)
LEMMA OneOrder ==
  ASSUME NEW v \in Scalars \cup Maps, NEW p \in Traversals(v), NEW q \in Traversals(v),
         v.type = "Keyed" => Cardinality(v.keys) <= 1
  PROVE  p = q
<1>1. CASE v.type # "Keyed"
  BY <1>1 DEF Traversals
<1>2. CASE v.type = "Keyed"
  <2>1. PICK k \in {{}, {"f"}, {"f", "g"}} : v = Keyed(k)
    BY <1>2, Kinds DEF Maps
  <2>2. v.keys = k
    BY <2>1 DEF Keyed
  <2>3. Cardinality({}) = 0 /\ Cardinality({"f"}) = 1 /\ Cardinality({"f", "g"}) = 2
    <3>1. Cardinality({"f"}) = 1
      BY FS_Singleton
    <3>2. {"f", "g"} = {"f"} \cup {"g"} /\ "g" \notin {"f"} /\ IsFiniteSet({"f"})
      BY FS_Singleton
    <3>3. Cardinality({"f"} \cup {"g"}) = Cardinality({"f"}) + 1
      BY <3>2, FS_AddElement
    <3> QED
      BY <3>1, <3>2, <3>3, FS_EmptySet
  <2>4. CASE k = {}
    <3>1. p \in [1..0 -> {}] /\ q \in [1..0 -> {}]
      BY <1>2, <2>2, <2>3, <2>4 DEF Traversals
    <3> QED
      BY <3>1
  <2>5. CASE k = {"f"}
    <3>1. p \in [1..1 -> {"f"}] /\ q \in [1..1 -> {"f"}]
      BY <1>2, <2>2, <2>3, <2>5 DEF Traversals
    <3> QED
      BY <3>1
  <2>6. k # {"f", "g"}
    <3>1. Cardinality(k) <= 1
      BY <1>2, <2>2
    <3>2. ~(2 <= 1)
      OBVIOUS
    <3> QED
      BY <2>3, <3>1, <3>2
  <2> QED
    BY <2>4, <2>5, <2>6
<1> QED
  BY <1>1, <1>2

(* Of the floats only NaN does not equal itself, and only the two zeros equal another. *)
LEMMA FloatEquality ==
  ASSUME NEW f \in Floats, NEW g \in Floats
  PROVE  /\ f # NaN => FloatEqual(f, f)
         /\ ~FloatEqual(NaN, f) /\ ~FloatEqual(f, NaN)
         /\ FloatEqual(f, g) => f = g \/ MinusZero \in {f, g}
<1>1. f # NaN => FloatEqual(f, f)
  BY FloatFacts DEF FloatEqual
<1>2. ~FloatEqual(NaN, f) /\ ~FloatEqual(f, NaN)
  BY DEF FloatEqual, NaN
<1>3. ASSUME FloatEqual(f, g), f.sort # "zero", g.sort # "zero" PROVE f = g
  <2>1. f.sort # "nan" /\ g.sort # "nan" /\ Scale(f) = Scale(g) /\ f.n = g.n
    BY <1>3 DEF FloatEqual
  <2>2. f.sort \in {"finite", "infinite"} /\ g.sort \in {"finite", "infinite"}
    BY <1>3, <2>1, FloatFacts
  <2>3. f.sort = "infinite" => Scale(f) \in {1, -1}
    BY FloatFacts DEF Scale
  <2>4. g.sort = "infinite" => Scale(g) \in {1, -1}
    BY FloatFacts DEF Scale
  <2>5. /\ f.sort = "finite" => Scale(f) = 0
        /\ g.sort = "finite" => Scale(g) = 0
    BY DEF Scale
  <2>6. f.sort = g.sort
    BY <2>1, <2>2, <2>3, <2>4, <2>5
  <2>7. /\ f.sort = "finite" => f = Finite(f.n) /\ g = Finite(g.n)
        /\ f.sort = "infinite" => f = Infinity(f.n) /\ g = Infinity(g.n)
    BY <2>6, FloatFacts
  <2> QED
    BY <2>1, <2>2, <2>7
<1>4. (f.sort = "zero" => f = MinusZero) /\ (g.sort = "zero" => g = MinusZero)
  BY FloatFacts
<1> QED
  BY <1>1, <1>2, <1>3, <1>4

(* A value equals one just like it unless it is a NaN or holds entries whose order may differ. *)
THEOREM ValuesEqualThemselves == ValuesSpec => []EqualsItself
<1>1. ASSUME NEW v \in Scalars \cup Maps, NEW p \in Traversals(v), NEW q \in Traversals(v),
             ~(v.type = "Keyed" /\ Cardinality(v.keys) > 1), v # Double(NaN)
      PROVE  Equals(v, p, v, q)
  <2>1. v.type = "Keyed" => Cardinality(v.keys) <= 1
    <3>1. \A k \in {{}, {"f"}, {"f", "g"}} : Cardinality(k) \in Nat
      <4>1. IsFiniteSet({}) /\ IsFiniteSet({"f"}) /\ {"f", "g"} = {"f"} \cup {"g"}
        BY FS_EmptySet, FS_Singleton
      <4>2. IsFiniteSet({"f", "g"})
        BY <4>1, FS_AddElement
      <4>3. \A k \in {{}, {"f"}, {"f", "g"}} : IsFiniteSet(k)
        BY <4>1, <4>2
      <4> QED
        BY <4>3, FS_CardinalityType
    <3>2. v.type = "Keyed" => v.keys \in {{}, {"f"}, {"f", "g"}}
      BY Kinds DEF Maps, Keyed
    <3> QED
      BY <1>1, <3>1, <3>2
  <2>2. p = q
    BY <2>1, OneOrder
  <2>3. ASSUME IsNumeric(v) PROVE FloatEqual(ToFloat(v), ToFloat(v))
    <3>1. CASE v.type = "Double"
      <4>1. v.f \in Floats /\ v.f # NaN /\ ToFloat(v) = v.f
        BY <1>1, <3>1, Kinds DEF ToFloat
      <4> QED
        BY <4>1, FloatEquality
    <3>2. CASE v.type # "Double"
      <4>1. PICK h : ToFloat(v) = Finite(h)
        BY <3>2 DEF ToFloat
      <4> QED
        BY <4>1 DEF FloatEqual, Finite
    <3> QED
      BY <3>1, <3>2
  <2> QED
    BY <2>2, <2>3 DEF Equals
<1>2. \A p, q : ~Equals(Double(NaN), p, Double(NaN), q)
  BY DEF Equals, IsNumeric, Double, ToFloat, FloatEqual, NaN
<1>3. GivenOK => EqualsItself
  <2>1. SUFFICES ASSUME GivenOK, Given, given.a = given.b PROVE EqualsItself
    BY DEF EqualsItself
  <2>2. given.a \in Scalars \cup Maps /\ given.p \in Traversals(given.a) /\ given.q \in Traversals(given.a)
    BY <2>1 DEF GivenOK
  <2> QED
    BY <1>1, <1>2, <2>1, <2>2 DEF EqualsItself
<1> QED
  BY <1>3, GivenAlwaysOK, PTL

-----------------------------------------------------------------------------
(* A number is what its double says, but for an integer beyond Precise. *)
LEMMA NumberFacts ==
  ASSUME NEW v \in Scalars \cup Maps, IsNumeric(v)
  PROVE  /\ v.type = "Double" => ToFloat(v) = v.f /\ v.f \in Floats
         /\ v.type # "Double" =>
              /\ v.n \in Int /\ ToFloat(v).n \in Int /\ ToFloat(v) = Finite(ToFloat(v).n)
              /\ v.n \in -Precise .. Precise => ToFloat(v).n = 2 * v.n
              /\ ToFloat(v).n \in -(2 * Precise) + 1 .. 2 * Precise - 1 => ToFloat(v).n = 2 * v.n
         /\ v.type = "Integer" => v.n \in -Precise .. Precise
<1> USE Widths
<1>1. CASE v.type = "Double"
  BY <1>1, Kinds DEF ToFloat
<1>2. CASE v.type \in {"Integer", "Long"}
  <2>1. PICK n \in Int : n = v.n
    BY <1>2, Kinds DEF Span
  <2>2. /\ ToFloat(v) = Finite(ToFloat(v).n)
        /\ -Precise <= v.n /\ v.n <= Precise => ToFloat(v).n = 2 * v.n
        /\ v.n > Precise => ToFloat(v).n \in Int /\ ToFloat(v).n >= 2 * Precise
        /\ v.n < -Precise => ToFloat(v).n \in Int /\ ToFloat(v).n <= -(2 * Precise)
    BY <1>2, DoubleOfInteger
  <2>3. v.type = "Integer" => n \in -Precise .. Precise
    BY <2>1, Kinds DEF Span
  <2> QED
    BY <1>2, <2>1, <2>2, <2>3
<1> QED
  BY <1>1, <1>2 DEF IsNumeric

(* The texts of two numbers, and of a number and a word, tell them apart. *)
LEMMA TextsDiffer ==
  ASSUME NEW h, NEW k, NEW w
  PROVE  /\ Digits(h) = Digits(k) <=> h = k
         /\ Power(h) = Power(k) <=> h = k
         /\ Digits(h) # Power(k)
         /\ Digits(h) # Letters(w)
         /\ Power(h) # Letters(w)
<1>1. Digits(h).digits = h /\ Digits(k).digits = k /\ Power(h).power = h /\ Power(k).power = k
  BY DEF Digits, Power
<1>2. DOMAIN Digits(h) = {"digits"} /\ DOMAIN Power(k) = {"power"} /\ DOMAIN Letters(w) = {"letters"}
      /\ DOMAIN Power(h) = {"power"}
  BY DEF Digits, Power, Letters
<1>3. {"digits"} # {"power"} /\ {"digits"} # {"letters"} /\ {"power"} # {"letters"}
  OBVIOUS
<1> QED
  BY <1>1, <1>2, <1>3

(* Words are told apart by their letters. *)
LEMMA DistinctLetters ==
  ASSUME NEW w, NEW x
  PROVE  Letters(w) = Letters(x) <=> w = x
<1>1. Letters(w).letters = w /\ Letters(x).letters = x
  BY DEF Letters
<1> QED
  BY <1>1

(* A float is told from all others by its text. *)
LEMMA FloatTexts ==
  ASSUME NEW f \in Floats
  PROVE  /\ f.sort = "finite" =>
              FloatText(f) = IF -(2 * Exponent) < f.n /\ f.n < 2 * Exponent THEN Digits(f.n) ELSE Power(f.n)
         /\ f.sort # "finite" => \E w \in {"-0", "+Inf", "-Inf", "NaN"} :
              /\ FloatText(f) = Letters(w)
              /\ f = CASE w = "-0" -> MinusZero [] w = "+Inf" -> Infinity(1)
                       [] w = "-Inf" -> Infinity(-1) [] OTHER -> NaN
<1>1. CASE f.sort = "finite"
  BY <1>1 DEF FloatText
<1>2. CASE f.sort = "zero"
  BY <1>2, FloatFacts DEF FloatText
<1>3. CASE f.sort = "infinite"
  <2>1. f.n \in {1, -1} /\ f = Infinity(f.n)
    BY <1>3, FloatFacts
  <2>2. FloatText(f) = Letters(IF f.n < 0 THEN "-Inf" ELSE "+Inf")
    BY <1>3 DEF FloatText
  <2> QED
    BY <1>3, <2>1, <2>2
<1>4. CASE f.sort = "nan"
  BY <1>4, FloatFacts DEF FloatText
<1> QED
  BY <1>1, <1>2, <1>3, <1>4, FloatFacts

LEMMA FloatTextsDiffer ==
  ASSUME NEW f \in Floats, NEW g \in Floats, FloatText(f) = FloatText(g)
  PROVE  f = g
<1>1. CASE f.sort = "finite" /\ g.sort = "finite"
  <2>1. PICK h \in Int, k \in Int : f.n = h /\ g.n = k /\ f = Finite(h) /\ g = Finite(k)
    BY <1>1, FloatFacts
  <2>2. /\ FloatText(f) = IF -(2 * Exponent) < h /\ h < 2 * Exponent THEN Digits(h) ELSE Power(h)
        /\ FloatText(g) = IF -(2 * Exponent) < k /\ k < 2 * Exponent THEN Digits(k) ELSE Power(k)
    BY <1>1, <2>1, FloatTexts
  <2>3. h = k
    <3>1. /\ Digits(h) = Digits(k) <=> h = k
          /\ Power(h) = Power(k) <=> h = k
          /\ Digits(h) # Power(k) /\ Digits(k) # Power(h)
      BY TextsDiffer
    <3>2. FloatText(f) \in {Digits(h), Power(h)} /\ FloatText(g) \in {Digits(k), Power(k)}
      BY <2>2
    <3>3. FloatText(f) = FloatText(g)
      OBVIOUS
    <3> QED
      BY <3>1, <3>2, <3>3
  <2> QED
    BY <2>1, <2>3
<1>2. CASE f.sort = "finite" /\ g.sort # "finite"
  <2>1. \E h : FloatText(f) = Digits(h) \/ FloatText(f) = Power(h)
    BY <1>2, FloatTexts
  <2>2. \E w : FloatText(g) = Letters(w)
    BY <1>2, FloatTexts
  <2> QED
    BY <2>1, <2>2, TextsDiffer
<1>3. CASE f.sort # "finite" /\ g.sort = "finite"
  <2>1. \E h : FloatText(g) = Digits(h) \/ FloatText(g) = Power(h)
    BY <1>3, FloatTexts
  <2>2. \E w : FloatText(f) = Letters(w)
    BY <1>3, FloatTexts
  <2> QED
    BY <2>1, <2>2, TextsDiffer
<1>4. CASE f.sort # "finite" /\ g.sort # "finite"
  <2> DEFINE Of(w) == CASE w = "-0" -> MinusZero [] w = "+Inf" -> Infinity(1)
                        [] w = "-Inf" -> Infinity(-1) [] OTHER -> NaN
  <2>1. PICK w \in {"-0", "+Inf", "-Inf", "NaN"} : FloatText(f) = Letters(w) /\ f = Of(w)
    BY <1>4, FloatTexts
  <2>2. PICK x \in {"-0", "+Inf", "-Inf", "NaN"} : FloatText(g) = Letters(x) /\ g = Of(x)
    BY <1>4, FloatTexts
  <2> HIDE DEF Of
  <2>3. w = x
    BY <2>1, <2>2, DistinctLetters
  <2> QED
    BY <2>1, <2>2, <2>3
<1> QED
  BY <1>1, <1>2, <1>3, <1>4

(* Where a scalar goes in a set: a number to its digits, or to those of a power of ten. *)
LEMMA SlotFacts ==
  ASSUME NEW v \in Scalars
  PROVE  /\ v.type \in {"Null", "Boolean", "Integer", "Long", "Double", "String"}
         /\ v.type = "Null" => Slot(v) = Letters("null")
         /\ v.type = "Boolean" => /\ v.n \in {0, 1}
                                  /\ Slot(v) = Letters(IF v.n = 1 THEN "true" ELSE "false")
         /\ v.type \in {"Integer", "Long"} => Slot(v) = Digits(2 * v.n)
         /\ v.type = "Double" => Slot(v) = FloatText(v.f)
         /\ v.type = "String" => Slot(v) = v.s
<1>1. v.type \in {"Null", "Boolean", "Integer", "Long", "Double", "String"}
  BY DEF Scalars, Nil, Boolean, Integer, Long, Double, Str
<1>2. v.type = "Boolean" => v.n \in {0, 1}
  BY DEF Scalars, Nil, Boolean, Integer, Long, Double, Str
<1> QED
  BY <1>1, <1>2 DEF Slot, ToText

(* Numbers in one slot are equal but for NaN, and equal ones are in one slot unless they are *)
(* a Long and a Double or two Longs, the one that is a Double has an exponent, or one is the  *)
(* zero below zero.                                                                            *)
LEMMA WholeSlots ==
  ASSUME NEW v \in Scalars, NEW w \in Scalars, v.type \in {"Integer", "Long"}, w.type \in {"Integer", "Long"}
  PROVE  /\ Slot(v) = Slot(w) => FloatEqual(ToFloat(v), ToFloat(w))
         /\ FloatEqual(ToFloat(v), ToFloat(w)) /\ Slot(v) # Slot(w) => {v.type, w.type} \in {{"Long"}, {"Long", "Double"}}
<1>0. Precise \in Nat
  BY Widths
<1>1. PICK m \in Int, n \in Int : m = v.n /\ n = w.n
  BY NumberFacts DEF IsNumeric
<1>2. Slot(v) = Slot(w) <=> m = n
  <2>1. Slot(v) = Digits(2 * m) /\ Slot(w) = Digits(2 * n)
    BY <1>1, SlotFacts
  <2> QED
    BY <2>1, TextsDiffer
<1>3. FloatEqual(ToFloat(v), ToFloat(w)) <=> ToFloat(v).n = ToFloat(w).n
  <2>1. ASSUME NEW h, NEW k PROVE FloatEqual(Finite(h), Finite(k)) <=> h = k
    BY DEF FloatEqual, Finite, Scale
  <2>2. ToFloat(v) = Finite(ToFloat(v).n) /\ ToFloat(w) = Finite(ToFloat(w).n)
    BY NumberFacts DEF IsNumeric
  <2> QED
    BY <2>1, <2>2
<1>4. m = n => ToFloat(v).n = ToFloat(w).n
  BY <1>1 DEF ToFloat
<1>5. ASSUME ToFloat(v).n = ToFloat(w).n, "Integer" \in {v.type, w.type} PROVE m = n
  <2>1. /\ ToFloat(v).n = 2 * m \/ ToFloat(v).n \notin -(2 * Precise) + 1 .. 2 * Precise - 1
        /\ ToFloat(w).n = 2 * n \/ ToFloat(w).n \notin -(2 * Precise) + 1 .. 2 * Precise - 1
    BY <1>1, NumberFacts DEF IsNumeric
  <2>2. ASSUME NEW x \in Scalars, x.type = "Integer"
        PROVE  ToFloat(x).n = 2 * x.n /\ x.n \in Int /\ -Precise < x.n /\ x.n < Precise
    <3>1. x.n \in Span(IntHalf)
      BY <2>2, Kinds
    <3>2. x.n \in Int /\ -Precise < x.n /\ x.n < Precise
      BY <3>1, Widths DEF Span
    <3> QED
      BY <2>2, <3>2, <1>0, NumberFacts DEF IsNumeric
  <2>3. ToFloat(v).n \in -(2 * Precise) + 1 .. 2 * Precise - 1
    BY <1>0, <1>5, <2>2
  <2> QED
    BY <1>1, <1>5, <2>1, <2>3
<1>6. "Integer" \notin {v.type, w.type} => {v.type, w.type} = {"Long"}
  OBVIOUS
<1> QED
  BY <1>2, <1>3, <1>4, <1>5, <1>6

LEMMA WholeAndDoubleSlots ==
  ASSUME NEW v \in Scalars, NEW w \in Scalars, v.type \in {"Integer", "Long"}, w.type = "Double"
  PROVE  /\ Slot(v) = Slot(w) => FloatEqual(ToFloat(v), ToFloat(w)) /\ FloatEqual(ToFloat(w), ToFloat(v))
         /\ FloatEqual(ToFloat(v), ToFloat(w)) \/ FloatEqual(ToFloat(w), ToFloat(v)) =>
              /\ ToFloat(v).n = ToFloat(w).n
              /\ Slot(v) # Slot(w) =>
                   \/ v.type = "Long"
                   \/ ToFloat(v).n \notin -(2 * Exponent) + 1 .. 2 * Exponent - 1
                   \/ w = Double(MinusZero)
<1>0. Exponent \in Nat /\ Precise \in Nat /\ Exponent < Precise
  BY Widths
<1>1. /\ v.n \in Int /\ ToFloat(v).n \in Int /\ ToFloat(v) = Finite(ToFloat(v).n)
      /\ v.n \in -Precise .. Precise => ToFloat(v).n = 2 * v.n
      /\ v.type = "Integer" => v.n \in -Precise .. Precise
      /\ w.f \in Floats /\ ToFloat(w) = w.f /\ w = Double(w.f)
  BY NumberFacts, Kinds DEF IsNumeric
<1>2. PICK m \in Int, k \in Int : m = v.n /\ k = ToFloat(v).n
  BY <1>1
<1>3. Slot(v) = Digits(2 * m) /\ Slot(w) = FloatText(w.f)
  BY <1>2, SlotFacts
<1>4. CASE w.f.sort = "finite"
  <2>1. PICK h \in Int : w.f = Finite(h) /\ h = w.f.n
    BY <1>1, <1>4, FloatFacts
  <2>2. Slot(w) = IF -(2 * Exponent) < h /\ h < 2 * Exponent THEN Digits(h) ELSE Power(h)
    BY <1>1, <1>3, <1>4, <2>1, FloatTexts
  <2>3. ASSUME NEW a, NEW b PROVE FloatEqual(Finite(a), Finite(b)) <=> a = b
    BY DEF FloatEqual, Finite, Scale
  <2>4. /\ FloatEqual(ToFloat(v), ToFloat(w)) <=> k = h
        /\ FloatEqual(ToFloat(w), ToFloat(v)) <=> k = h
        /\ ToFloat(w).n = h
    BY <1>1, <1>2, <2>1, <2>3
  <2>5. ASSUME Slot(v) = Slot(w) PROVE k = h
    <3>1. 2 * m = h /\ -(2 * Exponent) < h /\ h < 2 * Exponent
      BY <1>3, <2>2, <2>5, TextsDiffer
    <3>2. m \in -Precise .. Precise
      BY <1>0, <3>1
    <3> QED
      BY <1>1, <1>2, <3>1, <3>2
  <2>6. ASSUME k = h, v.type = "Integer", k \in -(2 * Exponent) + 1 .. 2 * Exponent - 1
        PROVE  Slot(v) = Slot(w)
    <3>1. k = 2 * m
      BY <1>1, <1>2, <2>6
    <3> QED
      BY <1>0, <1>3, <2>2, <2>6, <3>1
  <2> QED
    BY <1>2, <2>4, <2>5, <2>6
<1>5. CASE w.f.sort # "finite"
  <2>1. PICK x \in {"-0", "+Inf", "-Inf", "NaN"} : Slot(w) = Letters(x)
    BY <1>1, <1>3, <1>5, FloatTexts
  <2>2. Slot(v) # Slot(w)
    BY <1>3, <2>1, TextsDiffer
  <2>3. CASE w.f.sort = "zero"
    BY <1>1, <2>2, <2>3, FloatFacts DEF FloatEqual
  <2>4. CASE w.f.sort = "infinite"
    <3>1. Scale(w.f) # 0
      BY <1>1, <2>4, FloatFacts DEF Scale
    <3>2. Scale(ToFloat(v)) = 0
      BY <1>1 DEF Scale, Finite
    <3> QED
      BY <1>1, <2>2, <3>1, <3>2 DEF FloatEqual
  <2>5. CASE w.f.sort = "nan"
    BY <1>1, <2>2, <2>5 DEF FloatEqual
  <2> QED
    BY <1>1, <1>5, <2>3, <2>4, <2>5, FloatFacts
<1> QED
  BY <1>4, <1>5

LEMMA NumberSlots ==
  ASSUME NEW v \in Scalars, NEW w \in Scalars, IsNumeric(v), IsNumeric(w)
  PROVE  /\ Slot(v) = Slot(w) => FloatEqual(ToFloat(v), ToFloat(w)) \/ {v, w} = {Double(NaN)}
         /\ FloatEqual(ToFloat(v), ToFloat(w)) /\ Slot(v) # Slot(w) =>
              \/ {v.type, w.type} \in {{"Long"}, {"Long", "Double"}}
              \/ /\ {v.type, w.type} = {"Integer", "Double"}
                 /\ ToFloat(v).n \notin -(2 * Exponent) + 1 .. 2 * Exponent - 1
              \/ Double(MinusZero) \in {v, w}
<1>1. CASE v.type \in {"Integer", "Long"} /\ w.type \in {"Integer", "Long"}
  BY <1>1, WholeSlots
<1>2. CASE v.type \in {"Integer", "Long"} /\ w.type = "Double"
  <2>1. v.type = "Long" => {v.type, w.type} = {"Long", "Double"}
    BY <1>2
  <2>2. v.type = "Integer" => {v.type, w.type} = {"Integer", "Double"}
    BY <1>2
  <2> QED
    BY <1>2, <2>1, <2>2, WholeAndDoubleSlots
<1>3. CASE v.type = "Double" /\ w.type \in {"Integer", "Long"}
  <2>1. w.type = "Long" => {v.type, w.type} = {"Long", "Double"}
    BY <1>3
  <2>2. w.type = "Integer" => {v.type, w.type} = {"Integer", "Double"}
    BY <1>3
  <2> QED
    BY <1>3, <2>1, <2>2, WholeAndDoubleSlots
<1>4. CASE v.type = "Double" /\ w.type = "Double"
  <2>1. /\ v.f \in Floats /\ w.f \in Floats /\ v = Double(v.f) /\ w = Double(w.f)
        /\ ToFloat(v) = v.f /\ ToFloat(w) = w.f
        /\ Slot(v) = FloatText(v.f) /\ Slot(w) = FloatText(w.f)
    BY <1>4, NumberFacts, Kinds, SlotFacts
  <2>2. Slot(v) = Slot(w) => v.f = w.f
    BY <2>1, FloatTextsDiffer
  <2>3. v.f = w.f => FloatEqual(v.f, w.f) \/ v.f = NaN
    BY <2>1, FloatEquality
  <2>4. FloatEqual(v.f, w.f) => v.f = w.f \/ MinusZero \in {v.f, w.f}
    BY <2>1, FloatEquality
  <2>5. v.f = w.f /\ v.f = NaN => {v, w} = {Double(NaN)}
    BY <2>1
  <2>6. MinusZero \in {v.f, w.f} => Double(MinusZero) \in {v, w}
    BY <2>1
  <2>7. v.f = w.f => Slot(v) = Slot(w)
    BY <2>1
  <2> QED
    BY <2>1, <2>2, <2>3, <2>4, <2>5, <2>6, <2>7
<1> QED
  BY <1>1, <1>2, <1>3, <1>4 DEF IsNumeric

(* For integers and doubles of any width: what shares the slot of a set or a map is equal, or *)
(* is a value and a text that reads like it, or is NaN; what is equal shares one but for the   *)
(* values the property names; and a switch takes the branch == would unless both are Longs.    *)
THEOREM SlotsFollowEquality == ValuesSpec => []SlotsAndSwitchesFollowEquality
<1>1. ASSUME NEW v \in Scalars, NEW w \in Scalars
      PROVE  /\ Slot(v) = Slot(w) =>
                  Equals(v, <<>>, w, <<>>)
                  \/ ("String" \in {v.type, w.type} /\ {v.type, w.type} # {"String"})
                  \/ {v, w} = {Double(NaN)}
             /\ Equals(v, <<>>, w, <<>>) /\ Slot(v) # Slot(w) =>
                  \/ {v.type, w.type} = {"String"}
                  \/ {v.type, w.type} \in {{"Long"}, {"Long", "Double"}}
                  \/ /\ {v.type, w.type} = {"Integer", "Double"}
                     /\ ToFloat(v).n \notin -(2 * Exponent) + 1 .. 2 * Exponent - 1
                  \/ Double(MinusZero) \in {v, w}
  <2>1. CASE IsNumeric(v) /\ IsNumeric(w)
    BY <2>1, NumberSlots DEF Equals
  <2>2. CASE "String" \in {v.type, w.type}
    <3>1. v.type = "String" /\ w.type = "String" =>
            (Slot(v) = Slot(w) => Equals(v, <<>>, w, <<>>))
      BY SlotFacts DEF Equals, IsNumeric
    <3>2. Equals(v, <<>>, w, <<>>) => v.type = w.type
      BY <2>2 DEF Equals, IsNumeric
    <3>3. CASE v.type = "String" /\ w.type = "String"
      <4>1. {v.type, w.type} = {"String"}
        BY <3>3
      <4> QED
        BY <3>1, <3>3, <4>1
    <3>4. CASE v.type # w.type
      <4>1. {v.type, w.type} # {"String"}
        BY <3>4
      <4> QED
        BY <2>2, <3>2, <3>4, <4>1
    <3> QED
      BY <2>2, <3>3, <3>4
  <2>3. CASE /\ "String" \notin {v.type, w.type}
             /\ ~(IsNumeric(v) /\ IsNumeric(w))
    <3>1. CASE v.type = "Null" /\ w.type = "Null"
      BY <3>1, SlotFacts DEF Equals, IsNumeric
    <3>2. CASE v.type = "Boolean" /\ w.type = "Boolean"
      <4>1. Letters("true") # Letters("false")
        <5>1. Letters("true").letters = "true" /\ Letters("false").letters = "false"
          BY DEF Letters
        <5> QED
          BY <5>1
      <4>2. /\ Slot(v) = Letters(IF v.n = 1 THEN "true" ELSE "false") /\ v.n \in {0, 1}
            /\ Slot(w) = Letters(IF w.n = 1 THEN "true" ELSE "false") /\ w.n \in {0, 1}
        BY <3>2, SlotFacts
      <4>3. Equals(v, <<>>, w, <<>>) <=> v.n = w.n
        BY <3>2 DEF Equals, IsNumeric
      <4> QED
        BY <4>1, <4>2, <4>3
    <3>3. CASE v.type # w.type
      <4>1. ~Equals(v, <<>>, w, <<>>)
        BY <2>3, <3>3 DEF Equals
      <4>2. ASSUME NEW x \in Scalars, IsNumeric(x)
            PROVE  \/ \E h : Slot(x) = Digits(h) \/ Slot(x) = Power(h)
                   \/ \E l \in {"-0", "+Inf", "-Inf", "NaN"} : Slot(x) = Letters(l)
        <5>1. CASE x.type = "Double"
          <6>1. x.f \in Floats /\ Slot(x) = FloatText(x.f)
            BY <5>1, Kinds, SlotFacts
          <6> QED
            BY <6>1, FloatTexts
        <5>2. CASE x.type # "Double"
          BY <4>2, <5>2, SlotFacts DEF IsNumeric
        <5> QED
          BY <5>1, <5>2
      <4>3. ASSUME NEW x \in Scalars, x.type \in {"Null", "Boolean"}
            PROVE  \E l \in {"null", "true", "false"} :
                     Slot(x) = Letters(l) /\ (x.type = "Null" <=> l = "null")
        BY <4>3, SlotFacts
      <4>4. ASSUME NEW h, NEW l PROVE Digits(h) # Letters(l) /\ Power(h) # Letters(l)
        BY TextsDiffer
      <4>5. ASSUME NEW l, NEW m, Letters(l) = Letters(m) PROVE l = m
        <5>1. Letters(l).letters = l /\ Letters(m).letters = m
          BY DEF Letters
        <5> QED
          BY <4>5, <5>1
      <4>6. \A x \in {v, w} : IsNumeric(x) \/ x.type \in {"Null", "Boolean"}
        BY <2>3, SlotFacts DEF IsNumeric
      <4>7. Slot(v) # Slot(w)
        <5>1. CASE IsNumeric(v)
          BY <2>3, <4>2, <4>3, <4>4, <4>5, <4>6, <5>1
        <5>2. CASE IsNumeric(w)
          BY <2>3, <4>2, <4>3, <4>4, <4>5, <4>6, <5>2
        <5>3. CASE ~IsNumeric(v) /\ ~IsNumeric(w)
          <6>1. PICK l \in {"null", "true", "false"} : Slot(v) = Letters(l) /\ (v.type = "Null" <=> l = "null")
            BY <4>3, <4>6, <5>3
          <6>2. PICK m \in {"null", "true", "false"} : Slot(w) = Letters(m) /\ (w.type = "Null" <=> m = "null")
            BY <4>3, <4>6, <5>3
          <6> QED
            BY <3>3, <4>5, <4>6, <5>3, <6>1, <6>2
        <5> QED
          BY <5>1, <5>2, <5>3
      <4> QED
        BY <4>1, <4>7
    <3> QED
      BY <2>3, <3>1, <3>2, <3>3, SlotFacts DEF IsNumeric
  <2> QED
    BY <2>1, <2>2, <2>3
<1>2. ASSUME NEW v \in Scalars, NEW w \in Scalars,
             {v.type, w.type} \cap {"Double", "Boolean"} = {}
      PROVE  (SwitchEquals(v, w) <=> Equals(v, <<>>, w, <<>>)) \/ {v.type, w.type} = {"Long"}
  <2>1. \A x \in {v, w} : x.type \in {"Null", "Integer", "Long", "String"}
    BY <1>2, SlotFacts
  <2>2. CASE "Null" \in {v.type, w.type}
    BY <2>1, <2>2 DEF SwitchEquals, Equals, IsNumeric
  <2>3. CASE IsNumeric(v) /\ IsNumeric(w)
    <3>1. SUFFICES ASSUME {v.type, w.type} # {"Long"}
                   PROVE  v.n = w.n <=> FloatEqual(ToFloat(v), ToFloat(w))
      BY <2>1, <2>3 DEF SwitchEquals, Equals, IsNumeric
    <3>2. Slot(v) = Digits(2 * v.n) /\ Slot(w) = Digits(2 * w.n) /\ v.n \in Int /\ w.n \in Int
      BY <2>1, <2>3, SlotFacts, NumberFacts DEF IsNumeric
    <3>3. Slot(v) = Slot(w) <=> v.n = w.n
      BY <3>2, TextsDiffer
    <3>4. v.type \in {"Integer", "Long"} /\ w.type \in {"Integer", "Long"}
      BY <2>1, <2>3 DEF IsNumeric
    <3>5. {v.type, w.type} # {"Long", "Double"}
      BY <3>4
    <3> QED
      BY <3>1, <3>3, <3>4, <3>5, WholeSlots
  <2>4. CASE v.type = "String" /\ w.type = "String"
    BY <2>4 DEF SwitchEquals, Equals, IsNumeric
  <2>5. CASE /\ "Null" \notin {v.type, w.type} /\ "String" \in {v.type, w.type}
             /\ v.type # w.type
    BY <2>1, <2>5 DEF SwitchEquals, Equals, IsNumeric
  <2> QED
    BY <2>1, <2>2, <2>3, <2>4, <2>5 DEF IsNumeric
<1>3. GivenOK => SlotsAndSwitchesFollowEquality
  <2>1. SUFFICES ASSUME GivenOK, Given, given.a \notin Maps, given.b \notin Maps
                 PROVE  LET v == given.a
                            w == given.b
                        IN /\ Slot(v) = Slot(w) =>
                                Equals(v, <<>>, w, <<>>)
                                \/ ("String" \in {v.type, w.type} /\ {v.type, w.type} # {"String"})
                                \/ {v, w} = {Double(NaN)}
                           /\ Equals(v, <<>>, w, <<>>) /\ Slot(v) # Slot(w) =>
                                \/ {v.type, w.type} = {"String"}
                                \/ {v.type, w.type} \in {{"Long"}, {"Long", "Double"}}
                                \/ /\ {v.type, w.type} = {"Integer", "Double"}
                                   /\ ToFloat(v).n \notin -(2 * Exponent) + 1 .. 2 * Exponent - 1
                                \/ Double(MinusZero) \in {v, w}
                           /\ {v.type, w.type} \cap {"Double", "Boolean"} = {} =>
                                (SwitchEquals(v, w) <=> Equals(v, <<>>, w, <<>>)) \/ {v.type, w.type} = {"Long"}
    BY DEF SlotsAndSwitchesFollowEquality
  <2>2. given.a \in Scalars /\ given.b \in Scalars
    BY <2>1 DEF GivenOK
  <2> QED
    BY <1>1, <1>2, <2>2
<1> QED
  BY <1>3, GivenAlwaysOK, PTL

(* Exactly one of three facts holds when the names of those that do are one name. *)
LEMMA OneOfThree ==
  ASSUME NEW L, NEW E, NEW G
  PROVE  LET holds == {r \in {"<", "=", ">"} : \/ r = "<" /\ L
                                               \/ r = "=" /\ E
                                               \/ r = ">" /\ G}
         IN Cardinality(holds) = 1 <=> \/ L /\ ~E /\ ~G
                                       \/ ~L /\ E /\ ~G
                                       \/ ~L /\ ~E /\ G
<1> DEFINE holds == {r \in {"<", "=", ">"} : \/ r = "<" /\ L
                                             \/ r = "=" /\ E
                                             \/ r = ">" /\ G}
<1>1. /\ "<" \in holds <=> L
      /\ "=" \in holds <=> E
      /\ ">" \in holds <=> G
  OBVIOUS
<1>2. \A r \in holds : r \in {"<", "=", ">"}
  OBVIOUS
<1>3. IsFiniteSet(holds)
  <2>1. IsFiniteSet({"<"}) /\ {"<", "="} = {"<"} \cup {"="}
        /\ {"<", "=", ">"} = {"<", "="} \cup {">"}
    BY FS_Singleton
  <2>2. IsFiniteSet({"<", "="})
    BY <2>1, FS_AddElement
  <2>3. IsFiniteSet({"<", "=", ">"})
    BY <2>1, <2>2, FS_AddElement
  <2>4. holds \subseteq {"<", "=", ">"}
    BY <1>2
  <2> QED
    BY <2>3, <2>4, FS_Subset
<1> HIDE DEF holds
<1>4. Cardinality(holds) = 1 <=> \E r : holds = {r}
  BY <1>3, FS_Singleton
<1>5. (\E r : holds = {r}) <=> ((L /\ ~E /\ ~G) \/ (~L /\ E /\ ~G) \/ (~L /\ ~E /\ G))
  <2>1. ASSUME NEW r, holds = {r}
        PROVE  \/ L /\ ~E /\ ~G
               \/ ~L /\ E /\ ~G
               \/ ~L /\ ~E /\ G
    <3>1. r \in holds /\ \A s : s \in holds <=> s = r
      BY <2>1
    <3> QED
      BY <1>1, <1>2, <3>1
  <2>2. CASE L /\ ~E /\ ~G
    <3>1. holds = {"<"}
      BY <1>1, <1>2, <2>2
    <3> QED
      BY <2>2, <3>1
  <2>3. CASE ~L /\ E /\ ~G
    <3>1. holds = {"="}
      BY <1>1, <1>2, <2>3
    <3> QED
      BY <2>3, <3>1
  <2>4. CASE ~L /\ ~E /\ G
    <3>1. holds = {">"}
      BY <1>1, <1>2, <2>4
    <3> QED
      BY <2>4, <3>1
  <2> QED
    BY <2>1, <2>2, <2>3, <2>4
<1> QED
  BY <1>4, <1>5 DEF holds

(* Two floats that are no NaN are in exactly one of the three relations, a NaN is in none. *)
LEMMA FloatOrder ==
  ASSUME NEW f \in Floats \cup {Finite(h) : h \in Int}, NEW g \in Floats \cup {Finite(h) : h \in Int}
  PROVE  LET L == FloatLess(f, g)
             E == FloatEqual(f, g)
             G == FloatLess(g, f)
         IN /\ (L /\ ~E /\ ~G) \/ (~L /\ E /\ ~G) \/ (~L /\ ~E /\ G) <=> NaN \notin {f, g}
            /\ NaN \in {f, g} => ~L /\ ~E /\ ~G
            /\ ~(L /\ G)
<1>1. ASSUME NEW x \in Floats \cup {Finite(h) : h \in Int}
      PROVE  x.n \in Int /\ (x.sort = "nan" <=> x = NaN) /\ Scale(x) \in Int
  <2>1. x.n \in Int
    BY FloatFacts DEF Finite
  <2>2. x.sort = "nan" <=> x = NaN
    BY FloatFacts DEF Finite, NaN
  <2> QED
    BY <2>1, <2>2 DEF Scale
<1>2. PICK m \in Int, n \in Int, j \in Int, k \in Int :
        m = f.n /\ n = g.n /\ j = Scale(f) /\ k = Scale(g)
  BY <1>1
<1>3. /\ FloatLess(f, g) <=> NaN \notin {f, g} /\ (j < k \/ (j = k /\ m < n))
      /\ FloatLess(g, f) <=> NaN \notin {f, g} /\ (k < j \/ (k = j /\ n < m))
      /\ FloatEqual(f, g) <=> NaN \notin {f, g} /\ j = k /\ m = n
  BY <1>1, <1>2 DEF FloatLess, FloatEqual
<1> QED
  BY <1>3

(* For numbers of any width, and for every pair of strings: of <, == and > exactly one holds, *)
(* but none of a NaN and none or two where ToLower and EqualFold do not agree on the strings,  *)
(* and <= with >= is ==.                                                                        *)
THEOREM OneOrderHolds == ValuesSpec => []OrderIsTotal
<1> DEFINE One(L, E, G) == (L /\ ~E /\ ~G) \/ (~L /\ E /\ ~G) \/ (~L /\ ~E /\ G)
<1>1. ASSUME NEW v \in Scalars \cup Maps, NEW w \in Scalars \cup Maps, NEW p, NEW q
      PROVE  LET L == LessThan(v, w)
                 E == Equals(v, p, w, q)
                 G == GreaterThan(v, w)
             IN /\ IsNumeric(v) /\ IsNumeric(w) =>
                     /\ One(L, E, G) <=> Double(NaN) \notin {v, w}
                     /\ Double(NaN) \in {v, w} => ~L /\ ~E /\ ~G
                     /\ ~(L /\ G)
                /\ {v.type, w.type} = {"String"} =>
                     /\ One(L, E, G) <=> (Lower[v.s] = Lower[w.s] <=> Folded[v.s] = Folded[w.s])
                     /\ ~(L /\ G)
  <2>1. CASE IsNumeric(v) /\ IsNumeric(w)
    <3>1. ASSUME NEW x \in Scalars \cup Maps, IsNumeric(x)
          PROVE  /\ ToFloat(x) \in Floats \cup {Finite(h) : h \in Int}
                 /\ ToFloat(x) = NaN <=> x = Double(NaN)
      <4>1. CASE x.type = "Double"
        <5>1. ToFloat(x) = x.f /\ x.f \in Floats /\ x = Double(x.f)
          BY <3>1, <4>1, NumberFacts, Kinds
        <5>2. Double(NaN).f = NaN
          BY DEF Double
        <5> QED
          BY <5>1, <5>2
      <4>2. CASE x.type # "Double"
        <5>1. ToFloat(x) = Finite(ToFloat(x).n) /\ ToFloat(x).n \in Int
          BY <3>1, <4>2, NumberFacts
        <5>2. x # Double(NaN) /\ \A h : Finite(h) # NaN
          BY <4>2 DEF Double, Finite, NaN
        <5> QED
          BY <5>1, <5>2
      <4> QED
        BY <4>1, <4>2
    <3>2. /\ LessThan(v, w) <=> FloatLess(ToFloat(v), ToFloat(w))
          /\ GreaterThan(v, w) <=> FloatLess(ToFloat(w), ToFloat(v))
          /\ Equals(v, p, w, q) <=> FloatEqual(ToFloat(v), ToFloat(w))
      BY <2>1 DEF LessThan, GreaterThan, Equals
    <3>3. NaN \in {ToFloat(v), ToFloat(w)} <=> Double(NaN) \in {v, w}
      BY <2>1, <3>1
    <3>4. {v.type, w.type} # {"String"}
      BY <2>1 DEF IsNumeric
    <3>5. ToFloat(v) \in Floats \cup {Finite(h) : h \in Int} /\ ToFloat(w) \in Floats \cup {Finite(h) : h \in Int}
      BY <2>1, <3>1
    <3> QED
      BY <3>2, <3>3, <3>4, <3>5, FloatOrder
  <2>2. CASE v.type = "String" /\ w.type = "String"
    <3>1. v.s \in Strings /\ w.s \in Strings
      BY <2>2 DEF Scalars, Maps, Nil, Boolean, Integer, Long, Double, Str, Keyed
    <3>2. PICK a \in Int, b \in Int :
            /\ a = Rank[Lower[v.s]] /\ b = Rank[Lower[w.s]]
            /\ a = b <=> Lower[v.s] = Lower[w.s]
      BY <3>1, TextsAssumption
    <3>3. /\ LessThan(v, w) <=> a < b
          /\ GreaterThan(v, w) <=> b < a
      BY <2>2, <3>2 DEF LessThan, GreaterThan, IsNumeric
    <3>4. Equals(v, p, w, q) <=> Folded[v.s] = Folded[w.s]
      BY <2>2 DEF Equals, IsNumeric
    <3>5. ~IsNumeric(v)
      BY <2>2 DEF IsNumeric
    <3> QED
      BY <3>2, <3>3, <3>4, <3>5
  <2> QED
    BY <2>1, <2>2
<1>2. GivenOK => OrderIsTotal
  <2>1. SUFFICES ASSUME GivenOK, Given PROVE OrderIsTotal
    BY DEF OrderIsTotal
  <2> DEFINE v == given.a
             w == given.b
             L == LessThan(v, w)
             E == Equals(v, given.p, w, given.q)
             G == GreaterThan(v, w)
             holds == {r \in {"<", "=", ">"} : \/ r = "<" /\ L
                                               \/ r = "=" /\ E
                                               \/ r = ">" /\ G}
             numbers == IsNumeric(v) /\ IsNumeric(w)
             strings == {v.type, w.type} = {"String"}
  <2>2. SUFFICES /\ numbers => (Cardinality(holds) = 1 <=> Double(NaN) \notin {v, w})
                 /\ numbers /\ Double(NaN) \in {v, w} => holds = {}
                 /\ strings => (Cardinality(holds) = 1 <=>
                                  (Lower[v.s] = Lower[w.s] <=> Folded[v.s] = Folded[w.s]))
                 /\ (numbers \/ strings) /\ (L \/ E) /\ (G \/ E) => E
    BY DEF OrderIsTotal, AtMost, AtLeast
  <2>3. v \in Scalars \cup Maps /\ w \in Scalars \cup Maps
    BY <2>1 DEF GivenOK
  <2>4. /\ numbers => /\ One(L, E, G) <=> Double(NaN) \notin {v, w}
                      /\ Double(NaN) \in {v, w} => ~L /\ ~E /\ ~G
                      /\ ~(L /\ G)
        /\ strings => /\ One(L, E, G) <=> (Lower[v.s] = Lower[w.s] <=> Folded[v.s] = Folded[w.s])
                      /\ ~(L /\ G)
    BY <1>1, <2>3
  <2>5. Cardinality(holds) = 1 <=> One(L, E, G)
    BY OneOfThree
  <2>6. ~L /\ ~E /\ ~G => holds = {}
    OBVIOUS
  <2> HIDE DEF L, E, G, holds, One, numbers, strings
  <2> QED
    BY <2>4, <2>5, <2>6
<1> QED
  BY <1>2, GivenAlwaysOK, PTL
============================================================================
