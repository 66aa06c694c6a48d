---------------------------- MODULE Expressions ----------------------------
(***************************************************************************)
(* The rule method expression(_p) of the parser: precedence climbing over  *)
(* the alternatives of Grammar's expression rule (apex_parser.go), against *)
(* the declarative meaning of precedence and associativity.  A token       *)
(* string is typed one token at a time; "x" is a variable and "T" a type,  *)
(* which the parser, seeing names, cannot tell apart.  A parse is the set  *)
(* of the spans <<first, last>> of the operands in it.                     *)
(***************************************************************************)
EXTENDS Naturals, Sequences, FiniteSets

CONSTANTS Operators,  \* the infix operators typed, a subset of DOMAIN Level
          MaxTokens   \* bound on the length of a string

ASSUME TokenBound == MaxTokens \in Nat

VARIABLES toks, opened, questions

exprVars == <<toks, opened, questions>>

Identifiers == {"x", "T"}
-----------------------------------------------------------------------------
\* The number each alternative tests with Precpred, and the number it parses its right
\* operand with.
Level ==
  [MUL |-> 14, DIV |-> 14, MOD |-> 14, ADD |-> 13, SUB |-> 13, LT |-> 11, GT |-> 11,
   EQUAL |-> 9, NOTEQUAL |-> 9, BITAND |-> 8, CARET |-> 7, BITOR |-> 6, AND |-> 5,
   OR |-> 4, COAL |-> 3, ASSIGN |-> 1, ADD_ASSIGN |-> 1, MUL_ASSIGN |-> 1]

M_RightOperand(op) == Level[op] + 1
RightOperand(op) == IF Level[op] = 1 THEN 1 ELSE Level[op] + 1

DotLevel == 23
PostOpLevel == 17
CondLevel == 2
PrefixOperand == [ADD |-> 16, SUB |-> 16, INC |-> 16, BANG |-> 15, TILDE |-> 15]
CastOperand == 19

\* An operand can begin at position j.
RECURSIVE Begins(_, _)
Begins(w, j) ==
  /\ j <= Len(w)
  /\ \/ w[j] \in Identifiers \cup {"LPAREN"}
     \/ w[j] \in DOMAIN PrefixOperand /\ Begins(w, j + 1)

\* Prediction keeps the first alternative of those that can go on: the cast comes before
\* the parenthesis.
ReadsAsCast(w, i) ==
  /\ i + 3 <= Len(w) /\ w[i + 1] \in Identifiers /\ w[i + 2] = "RPAREN"
  /\ Begins(w, i + 3)

\* expression(p) at position i: where it ends, and the spans it makes.  MoreOperators is the
\* loop after the first operand, which takes every operator Precpred lets through.
RECURSIVE Climb(_, _, _), MoreOperators(_, _, _, _)
Climb(w, i, p) ==
  CASE w[i] \in Identifiers -> MoreOperators(w, i, p, [end |-> i, spans |-> {<<i, i>>}])
    [] w[i] = "LPAREN" ->
         IF ReadsAsCast(w, i)
         THEN LET e == Climb(w, i + 3, CastOperand)
              IN MoreOperators(w, i, p, [e EXCEPT !.spans = @ \cup {<<i, e.end>>}])
         ELSE LET e == Climb(w, i + 1, 0)
              IN MoreOperators(w, i, p, [end |-> e.end + 1, spans |-> e.spans \cup {<<i, e.end + 1>>}])
    [] OTHER -> LET e == Climb(w, i + 1, PrefixOperand[w[i]])
                IN MoreOperators(w, i, p, [e EXCEPT !.spans = @ \cup {<<i, e.end>>}])

MoreOperators(w, i, p, e) ==
  LET j == e.end + 1
      Extend(r) == MoreOperators(w, i, p, [end |-> r.end, spans |-> e.spans \cup r.spans \cup {<<i, r.end>>}])
  IN IF j > Len(w) THEN e
     ELSE CASE w[j] \in DOMAIN Level /\ Level[w[j]] >= p ->
                 Extend(Climb(w, j + 1, RightOperand(w[j])))
            [] w[j] = "DOT" /\ DotLevel >= p -> Extend([end |-> j + 1, spans |-> {}])
            [] w[j] = "INC" /\ PostOpLevel >= p -> Extend([end |-> j, spans |-> {}])
            [] w[j] = "QUESTION" /\ CondLevel >= p ->
                 LET m == Climb(w, j + 1, 0)
                     r == Climb(w, m.end + 2, CondLevel)
                 IN Extend([r EXCEPT !.spans = @ \cup m.spans])
            [] OTHER -> e
-----------------------------------------------------------------------------
\* What precedence means, without the climbing: of all the trees over a string, those in
\* which no operand would have gone to another operator.  Of a tree, "left" is the level of
\* the loosest operator on its left edge that has something on its left, "right" that of the
\* loosest on its right edge that has something on its right; Bound where there is none.
Bound == 99
Least(m, n) == IF m < n THEN m ELSE n
Closed(spans) == [spans |-> spans, left |-> Bound, right |-> Bound]
IsCast(w, i) == w[i] = "LPAREN" /\ w[i + 1] = "T"
RightAssociative == {1, CondLevel}

\* What can stand to the left, and to the right, of an operator of a level.
Before(n, ts) == {t \in ts : t.right > n \/ (t.right = n /\ n \notin RightAssociative)}
After(n, ts) == {t \in ts : t.left > n \/ (t.left = n /\ n \in RightAssociative)}

Prefixed(here, n, ts) ==
  {[t EXCEPT !.spans = @ \cup here, !.left = Bound, !.right = Least(n, @)] :
     t \in {u \in ts : u.left >= n}}
Postfixed(here, n, ts) ==
  {[t EXCEPT !.spans = @ \cup here, !.left = Least(n, @), !.right = Bound] : t \in Before(n, ts)}
Joined(here, n, ls, rs) ==
  {[spans |-> p[1].spans \cup p[2].spans \cup here, left |-> Least(n, p[1].left),
    right |-> Least(n, p[2].right)] : p \in Before(n, ls) \X After(n, rs)}

RECURSIVE Trees(_, _, _)
Trees(w, lo, hi) ==
  LET here == {<<lo, hi>>}
      Over(i, j) == Trees(w, i, j)
  IN IF lo > hi THEN {}
     ELSE UNION {
       IF lo = hi /\ w[lo] \in Identifiers THEN {Closed(here)} ELSE {},
       IF w[lo] = "LPAREN" /\ w[hi] = "RPAREN" /\ ~IsCast(w, lo)
         THEN {Closed(t.spans \cup here) : t \in Over(lo + 1, hi - 1)} ELSE {},
       IF IsCast(w, lo) THEN Prefixed(here, CastOperand, Over(lo + 3, hi)) ELSE {},
       IF w[lo] \in DOMAIN PrefixOperand
         THEN Prefixed(here, PrefixOperand[w[lo]], Over(lo + 1, hi)) ELSE {},
       IF w[hi] = "INC" THEN Postfixed(here, PostOpLevel, Over(lo, hi - 1)) ELSE {},
       IF hi - lo > 1 /\ w[hi - 1] = "DOT" THEN Postfixed(here, DotLevel, Over(lo, hi - 2)) ELSE {},
       UNION {Joined(here, Level[w[k]], Over(lo, k - 1), Over(k + 1, hi)) :
                k \in {j \in lo + 1 .. hi - 1 : w[j] \in DOMAIN Level}},
       UNION {Joined(here \cup UNION {m.spans : m \in Over(q + 1, c - 1)}, CondLevel,
                     Over(lo, q - 1), Over(c + 1, hi)) :
                <<q, c>> \in {p \in (lo .. hi) \X (lo .. hi) :
                                w[p[1]] = "QUESTION" /\ w[p[2]] = "COLON" /\ Over(p[1] + 1, p[2] - 1) # {}}} }
-----------------------------------------------------------------------------
\* The strings typed are expressions: an operand is expected first and after an operator,
\* an operator or the end after an operand.  opened and questions count the parentheses and the
\* question marks that wait for their match.
ExprInit == toks = <<>> /\ opened = 0 /\ questions = 0

WantsOperand ==
  LET n == Len(toks)
  IN n > 0 /\ toks[n] \in {"x", "RPAREN", "INC"} => n > 2 /\ toks[n] = "RPAREN" /\ toks[n - 1] = "T"

Type(w) == Len(toks) + Len(w) <= MaxTokens /\ toks' = toks \o w

TypeOperand ==
  /\ WantsOperand
  /\ \/ Type(<<"x">>) /\ UNCHANGED <<opened, questions>>
     \/ Type(<<"LPAREN">>) /\ opened' = opened + 1 /\ UNCHANGED questions
     \/ Type(<<"LPAREN", "T", "RPAREN">>) /\ UNCHANGED <<opened, questions>>
     \/ \E op \in {"SUB", "BANG"} : Type(<<op>>) /\ UNCHANGED <<opened, questions>>

TypeOperator ==
  /\ ~WantsOperand
  /\ \/ \E op \in Operators : Type(<<op>>) /\ UNCHANGED <<opened, questions>>
     \/ Type(<<"DOT", "x">>) /\ UNCHANGED <<opened, questions>>
     \/ Type(<<"INC">>) /\ UNCHANGED <<opened, questions>>
     \/ Type(<<"RPAREN">>) /\ opened > 0 /\ opened' = opened - 1 /\ UNCHANGED questions
     \/ opened = 0 /\ Type(<<"QUESTION">>) /\ questions' = questions + 1 /\ UNCHANGED opened
     \/ questions > 0 /\ opened = 0 /\ Type(<<"COLON">>) /\ questions' = questions - 1 /\ UNCHANGED opened

ExprNext == TypeOperand \/ TypeOperator
ExprSpec == ExprInit /\ [][ExprNext]_exprVars

\* The string is an expression as it stands.
Complete == toks # <<>> /\ ~WantsOperand /\ opened = 0 /\ questions = 0

\* A variable in parentheses with a sign after it, which the parser reads as a cast.
ReadsAsWritten ==
  \A i \in DOMAIN toks : toks[i] = "LPAREN" /\ i + 1 <= Len(toks) /\ toks[i + 1] = "x"
                           => ~ReadsAsCast(toks, i)

\* The parser gives every operator the operands its precedence and associativity give it,
\* and uses up the string, exactly when no parenthesised variable is followed by something
\* that could be the operand of a cast: "(x) - y" is read as the cast of "-y" to x, and its
\* value is that of "-y".
OperandsBindAsWritten ==
  Complete =>
    LET parsed == Climb(toks, 1, 0)
        meant == {t.spans : t \in Trees(toks, 1, Len(toks))}
    IN (parsed.end = Len(toks) /\ meant = {parsed.spans}) <=> ReadsAsWritten
============================================================================
