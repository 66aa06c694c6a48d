------------------------------ MODULE Values ------------------------------
(***************************************************************************)
(* The values of the interpreter and the operators on them (value.go and   *)
(* the operator visit methods of interpreter.go).  Widths are parameters.  *)
(* A Double is held as its number of halves, but for the infinities, the   *)
(* zero below zero and NaN, and a text by what it is the text of.          *)
(***************************************************************************)
EXTENDS Integers, Sequences, FiniteSets

CONSTANTS
  IntHalf, LongHalf, \* half as many as there are Integers and Longs: 2^31, 2^63
  Precise,           \* up to there a double holds every integer: 2^53
  Exponent,          \* from there the text of a double has an exponent: 10^6
  Units,             \* distances of neighbouring doubles that are integers: 1, 2, 4, ...
  Doubles, Strings,  \* some halves, some texts
  Lower, Folded,     \* what ToLower makes of a text, what EqualFold compares of it
  Rank               \* the place of a text in lower case among them

ASSUME Widths ==
  /\ {IntHalf, LongHalf, Precise, Exponent} \subseteq Nat \ {0} /\ Precise % 2 = 0
  /\ Exponent < IntHalf /\ IntHalf < Precise /\ Precise < LongHalf
  /\ Units \subseteq Nat \ {0} /\ 1 \in Units
  /\ \A u \in Units \ {1} : \E half \in Units : u = 2 * half
  /\ \E u \in Units : LongHalf <= u * Precise
  /\ Doubles \subseteq Int

\* Texts in lower case are in one order.  Folding is another function: it joins texts that
\* ToLower keeps apart, and keeps apart some that ToLower joins.
ASSUME TextsAssumption ==
  \A t, u \in Strings : /\ Rank[Lower[t]] \in Int
                        /\ Rank[Lower[t]] = Rank[Lower[u]] => Lower[t] = Lower[u]

VARIABLE given  \* two values, the operator between them and the orders their entries come in

Ungiven == [a |-> "none"]
-----------------------------------------------------------------------------
Span(half) == -half .. half - 1
M_Wrap(n, half) == n
Wrap(n, half) == ((n + half) % (2 * half)) - half

Nil == [type |-> "Null"]
Boolean(b) == [type |-> "Boolean", n |-> IF b THEN 1 ELSE 0]
Integer(n) == [type |-> "Integer", n |-> n]
Long(n) == [type |-> "Long", n |-> n]
Double(f) == [type |-> "Double", f |-> f]
Str(t) == [type |-> "String", s |-> t]
Keyed(keys) == [type |-> "Keyed", keys |-> keys]  \* a map, a set or an SObject

\* The floats: so many halves, the zero below zero, the infinities and NaN.
Finite(h) == [sort |-> "finite", n |-> h]
MinusZero == [sort |-> "zero", n |-> 0]
Infinity(sign) == [sort |-> "infinite", n |-> sign]
NaN == [sort |-> "nan", n |-> 0]

Scale(f) == IF f.sort = "infinite" THEN f.n ELSE 0
IsZero(f) == f.sort # "nan" /\ f.n = 0
FloatEqual(f, g) == "nan" \notin {f.sort, g.sort} /\ Scale(f) = Scale(g) /\ f.n = g.n
FloatLess(f, g) ==
  /\ "nan" \notin {f.sort, g.sort}
  /\ Scale(f) < Scale(g) \/ (Scale(f) = Scale(g) /\ f.n < g.n)

Exception(name) == [type |-> "Exception", name |-> name]
M_IsNumeric(v) == v.type \in {"Integer", "Double"}
IsNumeric(v) == v.type \in {"Integer", "Long", "Double"}

\* toFloat64: the nearest double; a tie goes to the even one.
Unit(m) == CHOOSE u \in Units : m <= u * Precise /\ (u = 1 \/ u * Precise < 2 * m)
Nearest(m, u) ==
  LET below == m \div u
  IN u * (IF 2 * (m % u) < u \/ (2 * (m % u) = u /\ below % 2 = 0) THEN below ELSE below + 1)
Rounded(m) == Nearest(m, Unit(m))

M_ToFloat(v) ==
  IF v.type = "Double" THEN v.f ELSE Finite(IF v.type = "Long" THEN 0 ELSE 2 * v.n)
ToFloat(v) ==
  IF v.type = "Double" THEN v.f
  ELSE Finite(IF v.n < 0 THEN -(2 * Rounded(-v.n)) ELSE 2 * Rounded(v.n))

\* Texts: a number of halves in digits or with an exponent, letters, the keys of a map in
\* their order, two texts put together.
Digits(h) == [digits |-> h]
Power(h) == [power |-> h]
Letters(w) == [letters |-> w]
Entries(order) == [entries |-> order]
Concatenated(t, u) == [concatenated |-> <<t, u>>]

\* The format %g of a double: with an exponent from Exponent on.
FloatText(f) ==
  CASE f.sort = "finite" ->
         IF -(2 * Exponent) < f.n /\ f.n < 2 * Exponent THEN Digits(f.n) ELSE Power(f.n)
    [] f.sort = "zero" -> Letters("-0")
    [] f.sort = "infinite" -> Letters(IF f.n < 0 THEN "-Inf" ELSE "+Inf")
    [] OTHER -> Letters("NaN")

\* ToString, with the order in which a Go map gives its keys.
ToText(v, order) ==
  CASE v.type = "Null" -> Letters("null")
    [] v.type = "Boolean" -> Letters(IF v.n = 1 THEN "true" ELSE "false")
    [] v.type \in {"Integer", "Long"} -> Digits(2 * v.n)
    [] v.type = "Double" -> FloatText(v.f)
    [] v.type = "String" -> v.s
    [] OTHER -> Entries(order)

Traversals(v) ==
  IF v.type # "Keyed" THEN {<<>>}
  ELSE {p \in [1 .. Cardinality(v.keys) -> v.keys] : \A i, j \in DOMAIN p : p[i] = p[j] => i = j}
-----------------------------------------------------------------------------
\* Add, Subtract, Multiply, Divide and Modulo.  Truncating division, as Go's.
Quotient(m, n) ==
  LET q == (IF m < 0 THEN -m ELSE m) \div (IF n < 0 THEN -n ELSE n)
  IN IF (m < 0) = (n < 0) THEN q ELSE -q

Exact(op, m, n) ==
  CASE op = "+" -> m + n
    [] op = "-" -> m - n
    [] op = "*" -> m * n
    [] op = "/" -> Quotient(m, n)
    [] OTHER -> m - (n * Quotient(m, n))

\* The bits of a Double's result do not matter to any property: its type does.
SomeDouble == Double(Finite(0))

Arithmetic(op, v, w) ==
  IF op = "+" /\ "String" \in {v.type, w.type} THEN Str(Concatenated(ToText(v, <<>>), ToText(w, <<>>)))
  ELSE IF "Null" \in {v.type, w.type} THEN Exception("NullPointer")
  ELSE IF op = "%" /\ {v.type, w.type} # {"Integer"}
  THEN IF ~IsNumeric(v) \/ ~IsNumeric(w) THEN Nil
       ELSE IF IsZero(ToFloat(w)) THEN Exception("Math") ELSE SomeDouble
  ELSE IF "Double" \in {v.type, w.type}
  THEN IF op = "/" /\ (IsNumeric(w) => IsZero(ToFloat(w))) THEN Exception("Math")
       ELSE SomeDouble
  ELSE IF "Long" \in {v.type, w.type}
  THEN LET m == IF IsNumeric(v) THEN v.n ELSE 0
           n == IF IsNumeric(w) THEN w.n ELSE 0
       IN IF op = "/" /\ n = 0 THEN Exception("Math") ELSE Long(Wrap(Exact(op, m, n), LongHalf))
  ELSE IF {v.type, w.type} = {"Integer"}
  THEN IF op \in {"/", "%"} /\ w.n = 0 THEN Exception("Math")
       ELSE Integer(Wrap(Exact(op, v.n, w.n), IntHalf))
  ELSE IF op # "/" THEN Nil
  ELSE IF w.type = "Integer" /\ w.n # 0 THEN SomeDouble ELSE Exception("Math")

\* VisitPreOpExpression, of a minus sign: an Integer is held in 64 bits and does not wrap;
\* a double's sign changes, that of zero too.
NegatedFloat(f) ==
  CASE f = Finite(0) -> MinusZero [] f = MinusZero -> Finite(0) [] OTHER -> [f EXCEPT !.n = -@]
Negate(v) ==
  CASE v.type = "Long" -> Long(Wrap(-v.n, LongHalf))
    [] v.type = "Integer" -> Integer(-v.n)
    [] v.type = "Double" -> Double(NegatedFloat(v.f))
    [] OTHER -> v
-----------------------------------------------------------------------------
\* Equals, with the orders of the two traversals.
M_Equals(v, p, w, q) ==
  IF IsNumeric(v) /\ IsNumeric(w) THEN FloatEqual(ToFloat(v), ToFloat(w))
  ELSE v.type = w.type /\ v.type # "Null" /\ ToText(v, p) = ToText(w, q)
Equals(v, p, w, q) ==
  IF IsNumeric(v) /\ IsNumeric(w) THEN FloatEqual(ToFloat(v), ToFloat(w))
  ELSE /\ v.type = w.type
       /\ CASE v.type = "Null" -> TRUE
            [] v.type = "Boolean" -> v.n = w.n
            [] v.type = "String" -> Folded[v.s] = Folded[w.s]
            [] OTHER -> ToText(v, p) = ToText(w, q)

M_LessThan(v, w) ==
  IF IsNumeric(v) /\ IsNumeric(w) THEN ~FloatLess(ToFloat(w), ToFloat(v))
  ELSE IF {v.type, w.type} = {"String"} THEN Rank[Lower[v.s]] <= Rank[Lower[w.s]] ELSE FALSE
LessThan(v, w) ==
  IF IsNumeric(v) /\ IsNumeric(w) THEN FloatLess(ToFloat(v), ToFloat(w))
  ELSE IF {v.type, w.type} = {"String"} THEN Rank[Lower[v.s]] < Rank[Lower[w.s]] ELSE FALSE
GreaterThan(v, w) == LessThan(w, v)

\* VisitCmpExpression: <= and >=.
AtMost(v, p, w, q) == LessThan(v, w) \/ Equals(v, p, w, q)
AtLeast(v, p, w, q) == GreaterThan(v, w) \/ Equals(v, p, w, q)

\* switchValuesEqual, of the value of a switch and a literal of a when.
SwitchEquals(v, w) ==
  CASE "Null" \in {v.type, w.type} -> v.type = w.type
    [] v.type \in {"Integer", "Long"} /\ w.type \in {"Integer", "Long"} -> v.n = w.n
    [] {v.type, w.type} = {"String"} -> Folded[v.s] = Folded[w.s]
    [] OTHER -> FALSE

\* The slot of a set or a map a value goes to.
M_Slot(v) == IF v.type = "Double" THEN Digits(v.f.n - (v.f.n % 2)) ELSE ToText(v, <<>>)
Slot(v) == ToText(v, <<>>)
-----------------------------------------------------------------------------
Floats == {Finite(h) : h \in Doubles} \cup {MinusZero, Infinity(1), Infinity(-1), NaN}
Scalars ==
  {Nil, Boolean(TRUE), Boolean(FALSE)} \cup {Integer(n) : n \in Span(IntHalf)}
  \cup {Long(n) : n \in Span(LongHalf)} \cup {Double(f) : f \in Floats}
  \cup {Str(s) : s \in Strings}
Maps == {Keyed(k) : k \in {{}, {"f"}, {"f", "g"}}}

ValuesInit == given = Ungiven

\* An operator is applied to two values.
Apply ==
  /\ given = Ungiven
  /\ \E v, w \in Scalars \cup Maps, op \in {"+", "-", "*", "/", "%"} :
       \E p \in Traversals(v), q \in Traversals(w) :
         /\ (v \in Maps \/ w \in Maps) => op = "+"
         /\ given' = [a |-> v, b |-> w, op |-> op, p |-> p, q |-> q]

ValuesNext == Apply
ValuesSpec == ValuesInit /\ [][ValuesNext]_given
-----------------------------------------------------------------------------
Given == given # Ungiven
Numeric == {"Integer", "Long", "Double"}
Width(v) == CASE v.type = "Integer" -> 1 [] v.type = "Long" -> 2 [] OTHER -> 3

\* Whatever is computed from Integers and Longs that fit their widths fits its own;
\* only the negation of the least Integer does not, and is an Integer out of range.
NumbersStayInRange ==
  Given =>
    LET fits(v) == /\ v.type = "Integer" => v.n \in Span(IntHalf)
                   /\ v.type = "Long" => v.n \in Span(LongHalf)
        r == Arithmetic(given.op, given.a, given.b)
    IN /\ fits(r)
       /\ fits(Negate(given.a)) <=> given.a # Integer(-IntHalf)

\* The type of a result is the wider of its operands' types, except that the remainder of
\* two Longs, or of a Long and an Integer, is a Double.
ResultIsTheWider ==
  Given /\ {given.a.type, given.b.type} \subseteq Numeric =>
    LET r == Arithmetic(given.op, given.a, given.b)
        wider == IF Width(given.a) > Width(given.b) THEN given.a.type ELSE given.b.type
    IN r.type # "Exception" =>
         r.type = IF given.op = "%" /\ wider = "Long" THEN "Double" ELSE wider

\* Of two comparable values exactly one of <, == and > holds, and <= with >= is ==; but
\* none holds of a NaN, and of two strings none or two do when ToLower makes one text of
\* them and EqualFold does not, or the other way round.
OrderIsTotal ==
  Given =>
    LET v == given.a
        w == given.b
        eq == Equals(v, given.p, w, given.q)
        holds == {r \in {"<", "=", ">"} : \/ r = "<" /\ LessThan(v, w)
                                          \/ r = "=" /\ eq
                                          \/ r = ">" /\ GreaterThan(v, w)}
        numbers == IsNumeric(v) /\ IsNumeric(w)
        strings == {v.type, w.type} = {"String"}
        agree == Lower[v.s] = Lower[w.s] <=> Folded[v.s] = Folded[w.s]
    IN /\ numbers => (Cardinality(holds) = 1 <=> Double(NaN) \notin {v, w})
       /\ numbers /\ Double(NaN) \in {v, w} => holds = {}
       /\ strings => (Cardinality(holds) = 1 <=> agree)
       /\ (numbers \/ strings) /\ AtMost(v, given.p, w, given.q) /\ AtLeast(v, given.p, w, given.q) => eq

\* A number that is nearer to zero than Precise equals itself and nothing else; only two
\* numbers beyond that may be equal and differ, and then both are Longs.
EqualNumbersAreTheSame ==
  Given /\ given.a.type \in {"Integer", "Long"} /\ given.b.type \in {"Integer", "Long"} =>
    LET m == given.a.n
        n == given.b.n
        precise(v) == v.type = "Integer" \/ (-Precise < v.n /\ v.n < Precise)
        eq == Equals(given.a, <<>>, given.b, <<>>)
    IN /\ m = n => eq
       /\ precise(given.a) \/ precise(given.b) => (eq => m = n)

\* A value equals itself, and one just like it, unless it is a NaN, or a map, a set or an
\* SObject of two entries or more: their texts are compared, in the orders Go's maps happen
\* to take.  A NaN never does.
EqualsItself ==
  Given /\ given.a = given.b =>
    IF given.a = Double(NaN) THEN ~Equals(given.a, given.p, given.b, given.q)
    ELSE Equals(given.a, given.p, given.b, given.q)
           \/ (given.a.type = "Keyed" /\ Cardinality(given.a.keys) > 1)

\* Values that share a slot of a set or a map are equal, unless one is the text of the other
\* or both are NaN; equal values share one, unless they are texts, a Long and a Double, two
\* Longs that one double is nearest to, an Integer and a Double that is written with an
\* exponent, or one is the zero below zero (value.go:163-167); a switch takes the branch ==
\* would, unless the numbers need a double to meet.
SlotsAndSwitchesFollowEquality ==
  Given /\ given.a \notin Maps /\ given.b \notin Maps =>
    LET eq == Equals(given.a, <<>>, given.b, <<>>)
        types == {given.a.type, given.b.type}
    IN /\ Slot(given.a) = Slot(given.b) =>
            eq \/ ("String" \in types /\ types # {"String"}) \/ {given.a, given.b} = {Double(NaN)}
       /\ eq /\ Slot(given.a) # Slot(given.b) =>
            \/ types = {"String"} \/ types \in {{"Long"}, {"Long", "Double"}}
            \/ types = {"Integer", "Double"} /\ ToFloat(given.a).n \notin -(2 * Exponent) + 1 .. 2 * Exponent - 1
            \/ Double(MinusZero) \in {given.a, given.b}
       /\ types \cap {"Double", "Boolean"} = {} =>
            (SwitchEquals(given.a, given.b) <=> eq) \/ types = {"Long"}
============================================================================
