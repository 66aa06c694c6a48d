-------------------------------- MODULE Soql --------------------------------
(***************************************************************************)
(* A SOQL query from its parse tree to its answer: the WHERE clause turned  *)
(* into SQL text, the sharing filter and the rewriting of names put on that *)
(* text, the SELECT, the child subqueries and the check of the fields       *)
(* (interpreter.go, soql.go).                                               *)
(*                                                                          *)
(* One object stands for all: its columns are "id", "ownerid", a text f,    *)
(* and ref, a lookup to the object itself, by which a query can reach the   *)
(* parent of a row ("up"), its children ("kids") and, in a condition, the   *)
(* rows of a semi-join.  "gone" is a field the table does not have.  The    *)
(* SQL of a condition is a sequence of tokens, which SQLite reads with its  *)
(* own precedence; what SQLite makes of a statement is external.            *)
(***************************************************************************)
EXTENDS Integers, SequencesExt

CONSTANTS
  Ids,      \* the ids a row can get, in the order they are given out
  Texts,    \* the values of f, in their order
  StandsFor, \* of each literal text in a condition, the values it stands for
  Users,    \* users that runAs is given
  Null,     \* null, as a value of a column or of an expression
  Conditions, Height, \* the trees of conditions, with those within them; how high each is
  Queries,  \* the queries asked
  Denials   \* sets of fields a profile may be denied

ASSUME SoqlAssumption ==
  /\ Null \notin Range(Ids) \cup Range(Texts) \cup Users
  /\ Ids \in Seq(Range(Ids)) /\ \A i, j \in DOMAIN Ids : Ids[i] = Ids[j] => i = j

VARIABLES rows,    \* the table, by position
          user,    \* execCtx.userID, Null outside runAs
          mode,    \* effectiveSharingMode of the code that asks
          denied,  \* what FieldPermissions denies the profile of each user
          asked, answer

soqlVars == <<rows, user, mode, denied, asked, answer>>

Row == [f : Range(Texts) \cup {Null}, ref : Range(Ids) \cup {Null}, owner : Users \cup {Null}]
-----------------------------------------------------------------------------
\* What a condition is made of.  A literal is its text, a string without its quotes: the
\* values it stands for are the text itself, or for a string with a backslash the one that
\* VisitLiteral makes of it, for a date formula the days it names today, for a bound variable
\* within a list what the variable holds.
Text(v) == [as |-> "text", v |-> v]
Bind(v) == [as |-> "bind", v |-> v]           \* :expr, one value
BindList(vs) == [as |-> "bindlist", vs |-> vs]  \* :expr, a list
ListOf(vs) == [as |-> "list", vs |-> vs]
RowsOf(w) == [as |-> "rows", where |-> w]     \* (SELECT ref FROM ... WHERE w)
NullValue == [as |-> "null"]

Compare(field, op, val) == [is |-> "compare", field |-> field, op |-> op, val |-> val]
Logical(joiner, parts) == [is |-> joiner, parts |-> parts]
Anything == Logical("and", <<>>)              \* no WHERE clause

\* What the grammar and Apex admit: lists and semi-joins stand behind IN and NOT IN, NOT has
\* one operand, and a condition is a tree.
ASSUME ConditionsAssumption ==
  /\ Anything \in Conditions /\ Height \in [Conditions -> Nat] /\ Null \notin DOMAIN StandsFor
  /\ \A c \in Conditions :
       IF c.is = "compare"
       THEN /\ c.val.as \in {"text", "null", "bind", "bindlist", "list", "rows"}
            /\ c.val.as \in {"list", "rows"} => c.op \in {"IN", "NOT IN"}
            /\ c.val.as \in {"text", "null"} => c.op \in {"=", "!=", "<"}
            /\ c.val.as = "text" => c.val.v \in DOMAIN StandsFor
            /\ c.val.as = "list" => Range(c.val.vs) \subseteq DOMAIN StandsFor \cup {Null}
            /\ c.op \in {"=", "!=", "<", "IN", "NOT IN"}
            /\ c.val.as = "rows" =>
                 c.val.where \in Conditions /\ Height[c.val.where] < Height[c]
       ELSE /\ c.is \in {"not", "and", "or"} /\ c.parts \in Seq(Conditions \ {Anything})
            /\ \A k \in DOMAIN c.parts : Height[c.parts[k]] < Height[c]
            /\ c.parts = <<>> => c = Anything
            /\ c.is = "not" => Len(c.parts) = 1

ASSUME QueriesAssumption ==
  \A q \in Queries :
    /\ q # [kind |-> "nothing"]
    /\ {q.where, q.kids.where} \subseteq Conditions
    /\ {q.offset, q.limit.n, q.kids.limit} \subseteq Nat /\ {q.up, q.kids.read} \subseteq BOOLEAN
    /\ q.limit.is \in {"none", "literal", "bound"}
    /\ q.access \in {"", "USER_MODE", "SYSTEM_MODE", "SECURITY_ENFORCED"}
-----------------------------------------------------------------------------
\* The SQL of a condition.
Token(t) == [t |-> t]
Atom(col, op, arg) == [t |-> "atom", col |-> col, op |-> op, arg |-> arg, quoted |-> FALSE]
IsOwner(u) == [t |-> "atom", col |-> "ownerid", op |-> "=", arg |-> Text(u), quoted |-> TRUE]
M_Enclosed(ts) == ts
Enclosed(ts) == <<Token("(")>> \o ts \o <<Token(")")>>

\* buildValueExpression, soqlValueToGo: the argument is a literal's text as it is written,
\* neither unescaped nor evaluated, and what a bound variable holds.
Condition(col, op, val) ==
  IF val.as = "null" THEN Atom(col, IF op = "!=" THEN "IS NOT NULL" ELSE "IS NULL", val)
  ELSE Atom(col, op, val)

\* buildConditionalExpression, given the texts of the conditions below.
BuildConditional(c, text) == IF c.is = "compare" THEN text[c] ELSE Enclosed(text[c])

JoinedText(c, text) ==
  LET upTo[k \in 0 .. Len(c.parts)] ==
        IF k = 0 THEN <<>>
        ELSE upTo[k - 1] \o (IF k = 1 THEN <<>> ELSE <<Token(c.is)>>)
                        \o BuildConditional(c.parts[k], text)
  IN upTo[Len(c.parts)]

\* buildLogicalExpression, and buildFieldExpression of a comparison.
BuildLogical[c \in Conditions] ==
  IF c.is = "compare" THEN <<Condition(c.field, c.op, c.val)>>
  ELSE IF c.is = "not" THEN <<Token("not")>> \o Enclosed(BuildConditional(c.parts[1], BuildLogical))
  ELSE JoinedText(c, BuildLogical)

Joiners == {"and", "or"}
Atoms ==
  {Condition(c.field, c.op, c.val) : c \in {c \in Conditions : c.is = "compare"}}
  \cup {IsOwner(u) : u \in Users} \cup {Atom("ref", "=", Text(id)) : id \in Range(Ids)}
Tokens == {Token(t) : t \in Joiners \cup {"not", "(", ")"}} \cup Atoms

\* applySharingFilter.
M_Enforced(access) == access # "SYSTEM_MODE" /\ mode = "with"
Enforced(access) ==
  CASE access = "USER_MODE" -> TRUE
    [] access \in {"SYSTEM_MODE", "SECURITY_ENFORCED"} -> FALSE
    [] OTHER -> mode = "with"

Shared(ts, access) ==
  IF user = Null \/ ~Enforced(access) THEN ts
  ELSE IF ts = <<>> THEN <<IsOwner(user)>> ELSE ts \o <<Token("and"), IsOwner(user)>>
-----------------------------------------------------------------------------
\* SQLite, of a WHERE clause: three truth values, AND before OR.
Not(x) == CASE x = "T" -> "F" [] x = "F" -> "T" [] OTHER -> "U"
And(x, y) == IF "F" \in {x, y} THEN "F" ELSE IF x = "T" /\ y = "T" THEN "T" ELSE "U"
Or(x, y) == Not(And(Not(x), Not(y)))
Truth(b) == IF b THEN "T" ELSE "F"

Column(i, col) ==
  CASE col = "id" -> Ids[i] [] col = "ownerid" -> rows[i].owner [] OTHER -> rows[i][col]
Below(v, w) == \E i, j \in DOMAIN Texts : i < j /\ Texts[i] = v /\ Texts[j] = w

Among(v, vs) ==
  IF v \in vs \ {Null} THEN "T" ELSE IF Null \in vs \/ (v = Null /\ vs # {}) THEN "U" ELSE "F"

\* An atom of row i, given the rows that the texts of semi-joins find.
OfAtom(a, i, found) ==
  LET v == Column(i, a.col)
      among == CASE a.arg.as = "list" -> Among(v, Range(a.arg.vs))
                 [] a.arg.as = "rows" -> Among(v, {rows[j].ref : j \in found[a.arg.where]})
                 [] OTHER -> "U"
  IN CASE a.op = "IS NULL" -> Truth(v = Null)
       [] a.op = "IS NOT NULL" -> Truth(v # Null)
       [] a.op = "IN" -> among
       [] a.op = "NOT IN" -> Not(among)
       [] OTHER ->
            IF Null \in {v, a.arg.v} THEN "U"
            ELSE Truth(CASE a.op = "=" -> v = a.arg.v [] a.op = "!=" -> v # a.arg.v
                         [] OTHER -> Below(v, a.arg.v))

\* The parentheses open behind the first k tokens, and the operators outside parentheses.
Open(ts, k) ==
  Cardinality({j \in 1 .. k : ts[j].t = "("}) - Cardinality({j \in 1 .. k : ts[j].t = ")"})
Outer(ts, op) == {k \in DOMAIN ts : ts[k].t = op /\ Open(ts, k) = 0}

\* The truth of a text, of that of its atoms: its last OR joins what is on either side of it,
\* or else its last AND; NOT is of all that is left.
Verdict(text, atoms) ==
  LET truth[ts \in Seq(Tokens)] ==
        LET op == IF Outer(ts, "or") # {} THEN "or" ELSE "and"
            k  == Max(Outer(ts, op))
        IN IF Outer(ts, op) # {}
           THEN IF op = "or" THEN Or(truth[SubSeq(ts, 1, k - 1)], truth[SubSeq(ts, k + 1, Len(ts))])
                ELSE And(truth[SubSeq(ts, 1, k - 1)], truth[SubSeq(ts, k + 1, Len(ts))])
           ELSE IF ts = <<>> THEN "U"
           ELSE IF ts[1].t = "not" THEN Not(truth[SubSeq(ts, 2, Len(ts))])
           ELSE IF ts[1].t = "(" THEN truth[SubSeq(ts, 2, Len(ts) - 1)]
           ELSE IF ts[1].t = "atom" THEN atoms[ts[1]] ELSE "U"
  IN truth[text]

OfAtoms(i, found) == [a \in Atoms |-> OfAtom(a, i, found)]

\* The rows that each condition's text finds.
Finds[c \in Conditions] ==
  {i \in DOMAIN rows : c = Anything \/ Verdict(BuildLogical[c], OfAtoms(i, Finds)) = "T"}

Selected(c) == {rows[j].ref : j \in Finds[c]}
Found(ts) == {i \in DOMAIN rows : ts = <<>> \/ Verdict(ts, OfAtoms(i, Finds)) = "T"}

\* What SQLite refuses: an IN without a list, a list as an argument, a name that is no
\* column.  In a query that joins parents, qualifyWhereColumns puts the alias in front of
\* every name, those within quotes and those of a subquery too.
RefusedAtom(a, joins, fails) ==
  \/ a.op \in {"IN", "NOT IN"} /\ a.arg.as \notin {"list", "rows"}
  \/ a.arg.as = "bindlist"
  \/ a.col \in {"gone", "up"}
  \/ joins /\ (a.quoted \/ a.arg.as = "rows")
  \/ a.arg.as = "rows" /\ fails[a.arg.where]
RefusedIf(ts, joins, fails) ==
  \E k \in DOMAIN ts : ts[k].t = "atom" /\ RefusedAtom(ts[k], joins, fails)
Fails[c \in Conditions] == RefusedIf(BuildLogical[c], FALSE, Fails)
Refused(ts, joins) == RefusedIf(ts, joins, Fails)
-----------------------------------------------------------------------------
\* QueryWithParams: the orders the rows can come in, and the part LIMIT and OFFSET leave.
Orders(found, orderBy) ==
  LET before(i, j) ==
        CASE orderBy = "ASC" -> rows[i].f = Null \/ Below(rows[i].f, rows[j].f)
          [] orderBy = "DESC NULLS FIRST" ->
               rows[i].f = Null \/ (rows[j].f # Null /\ Below(rows[j].f, rows[i].f))
          [] OTHER -> TRUE
      ranked(p) == \A x, y \in DOMAIN p : x < y => before(p[x], p[y]) \/ rows[p[x]].f = rows[p[y]].f
  IN {p \in SetToSeqs(found) : ranked(p)}

M_Sliced(p, limit, offset) ==
  IF limit > 0 /\ limit < Len(p) THEN SubSeq(SubSeq(p, 1, limit), offset + 1, limit)
  ELSE SubSeq(p, offset + 1, Len(p))
Sliced(p, limit, offset) ==
  LET from == SubSeq(p, offset + 1, Len(p))
  IN IF limit > 0 /\ limit < Len(from) THEN SubSeq(from, 1, limit) ELSE from

\* A limit that is bound is not read, and no limit is 0.
Limit(q) == IF q.limit.is = "literal" THEN q.limit.n ELSE 0

\* queryChildRows; in what order the rows come does not matter to any property.
KidsOf(i, w, limit) ==
  LET ts == <<Atom("ref", "=", Text(Ids[i]))>>
              \o (IF w = Anything THEN <<>> ELSE <<Token("and")>> \o Enclosed(BuildLogical[w]))
      kids == IF Refused(ts, FALSE) THEN <<>> ELSE SetToSeq(Found(ts))
      part == Sliced(kids, limit, 0)
  IN [k \in DOMAIN part |-> Ids[part[k]]]

\* A name in double quotes that no column has is a text to SQLite.
Shown(i, q) ==
  [id |-> Ids[i],
   f |-> IF "f" \in q.fields THEN rows[i].f ELSE Null,
   gone |-> IF "gone" \in q.fields THEN "gone" ELSE Null,
   up |-> {rows[j].f : j \in {j \in DOMAIN rows : q.up /\ Ids[j] = rows[i].ref}},
   kids |-> IF q.kids.read THEN KidsOf(i, q.kids.where, q.kids.limit) ELSE <<>>]

\* A column named twice among the joined tables cannot be ordered by, and one of none
\* cannot be selected from one of them.
Unjoinable(q) == q.up /\ (q.orderBy # "" \/ "gone" \in q.fields)

\* applyFieldSecurity, after the query and of its own fields only.
Exposed(q) == {x \in q.fields : x \in denied}
M_Checks(q) == q.access = "USER_MODE" /\ user # Null
Checks(q) == q.access \in {"USER_MODE", "SECURITY_ENFORCED"} /\ user # Null

Thrown == [kind |-> "exception"]
Answer(shown) == [kind |-> "list", rows |-> shown]
Nothing == [kind |-> "nothing"]

\* VisitSoqlLiteral: an error is an empty list.
Ask(q) ==
  LET ts == Shared(BuildLogical[q.where], q.access)
  IN /\ asked = Nothing
     /\ asked' = q
     /\ \/ /\ Refused(ts, q.up) \/ Unjoinable(q)
           /\ answer' = Answer(<<>>)
        \/ /\ ~Refused(ts, q.up) /\ ~Unjoinable(q)
           /\ Checks(q) /\ Exposed(q) # {}
           /\ answer' = Thrown
        \/ /\ ~Refused(ts, q.up) /\ ~Unjoinable(q)
           /\ ~(Checks(q) /\ Exposed(q) # {})
           /\ \E p \in Orders(Found(ts), q.orderBy) :
                LET part == Sliced(p, Limit(q), q.offset)
                IN answer' = Answer([k \in DOMAIN part |-> Shown(part[k], q)])
     /\ UNCHANGED <<rows, user, mode, denied>>
-----------------------------------------------------------------------------
SoqlInit ==
  /\ rows = <<>> /\ user = Null /\ mode \in {"with", "without"} /\ denied \in Denials
  /\ asked = Nothing /\ answer = Nothing

\* The code around the query: records stored, a runAs block entered.
StoreRow(r) ==
  /\ asked = Nothing /\ user = Null /\ Len(rows) < Len(Ids)
  /\ rows' = Append(rows, r)
  /\ UNCHANGED <<user, mode, denied, asked, answer>>

RunAs(u) ==
  /\ asked = Nothing /\ user = Null
  /\ user' = u
  /\ UNCHANGED <<rows, mode, denied, asked, answer>>

SoqlNext == (\E r \in Row : StoreRow(r)) \/ (\E u \in Users : RunAs(u)) \/ (\E q \in Queries : Ask(q))
SoqlSpec == SoqlInit /\ [][SoqlNext]_soqlVars
-----------------------------------------------------------------------------
\* What a condition means of a row, without the text: a comparison as SQL takes it, a literal
\* and a bound value as what they stand for, a semi-join over the rows that have a lookup.
ValuesOf(val) ==
  CASE val.as = "text" -> StandsFor[val.v]
    [] val.as = "bind" -> {val.v}
    [] val.as = "bindlist" -> Range(val.vs)
    [] val.as = "list" -> UNION {IF v = Null THEN {Null} ELSE StandsFor[v] : v \in Range(val.vs)}
    [] OTHER -> {}
IsNull(val) == val.as = "null" \/ (val.as = "bind" /\ val.v = Null)

AllOf(truths) == IF "F" \in truths THEN "F" ELSE IF "U" \in truths THEN "U" ELSE "T"
AnyOf(truths) == IF "T" \in truths THEN "T" ELSE IF "U" \in truths THEN "U" ELSE "F"

MeaningOf(c, i, meaning) ==
  LET v == Column(i, c.field)
      values == ValuesOf(c.val)
      linked == {rows[j].ref : j \in {j \in DOMAIN rows : meaning[c.val.where][j] = "T"}} \ {Null}
      among == Among(v, IF c.val.as = "rows" THEN linked ELSE values)
      truths == {meaning[c.parts[k]][i] : k \in DOMAIN c.parts}
  IN IF c.is = "not" THEN Not(meaning[c.parts[1]][i])
     ELSE IF c.is = "and" THEN AllOf(truths)
     ELSE IF c.is = "or" THEN AnyOf(truths)
     ELSE IF IsNull(c.val) THEN Truth((v = Null) = (c.op = "="))
     ELSE IF c.op = "IN" THEN among
     ELSE IF c.op = "NOT IN" THEN Not(among)
     ELSE IF v = Null THEN "U"
     ELSE Truth(CASE c.op = "=" -> v \in values [] c.op = "!=" -> v \notin values
                  [] OTHER -> \A w \in values : Below(v, w))
Meaning[c \in Conditions] == [i \in DOMAIN rows |-> MeaningOf(c, i, Meaning)]

\* A semi-join over rows of which one has no lookup: to SQL, whether a value that is not among
\* the lookups is among them is unknown.
Loose[c \in Conditions] ==
  IF c.is = "compare" THEN c.val.as = "rows" /\ Null \in Selected(c.val.where)
  ELSE \E k \in DOMAIN c.parts : Loose[c.parts[k]]

\* A literal whose text is not what it stands for, by itself or in a list.
StandsForOther(t) == t # Null /\ StandsFor[t] # {t}
WrittenOther(val) ==
  \/ val.as = "text" /\ StandsForOther(val.v)
  \/ val.as = "list" /\ \E t \in Range(val.vs) : StandsForOther(t)

\* The conditions whose text does not say what they mean: a literal whose text is not its
\* value (a string with a backslash, a date formula, a bound variable in a list), a list or
\* null in a bound variable, an order of null, a column the table lacks, a negation of a
\* loose semi-join.
Misread[c \in Conditions] ==
  IF c.is = "compare"
  THEN \/ WrittenOther(c.val)
       \/ c.val.as = "bindlist"
       \/ c.val.as = "bind" /\ (c.val.v = Null \/ c.op \in {"IN", "NOT IN"})
       \/ c.val.as = "null" /\ c.op \notin {"=", "!="}
       \/ c.field \in {"up", "gone"}
       \/ c.val.as = "rows" /\ (Misread[c.val.where] \/ (c.op = "NOT IN" /\ Loose[c]))
  ELSE \/ \E k \in DOMAIN c.parts : Misread[c.parts[k]]
       \/ c.is = "not" /\ Loose[c]

HasSemiJoin[c \in Conditions] ==
  IF c.is = "compare" THEN c.val.as = "rows" ELSE \E k \in DOMAIN c.parts : HasSemiJoin[c.parts[k]]

Sharing(access) == user # Null /\ (access = "USER_MODE" \/ (access = "" /\ mode = "with"))

\* A query that selects from a parent works with no semi-join, no sharing filter and no
\* ORDER BY of a column the parent has too; a limit of 0, or one that is bound, is no limit.
Works(q) ==
  /\ ~Misread[q.where]
  /\ q.up => ~HasSemiJoin[q.where] /\ ~Sharing(q.access) /\ q.orderBy = "" /\ "gone" \notin q.fields
  /\ q.limit.is = "literal" => q.limit.n > 0
  /\ q.limit.is # "bound"

\* The rows shown are those the condition means, in the order asked for, from the offset on
\* and as many as the limit.
AsMeant(q, shown) ==
  \E p \in Orders({i \in DOMAIN rows : Meaning[q.where][i] = "T"}, q.orderBy) :
    LET most == IF q.limit.is = "none" THEN Len(p) ELSE q.limit.n
        part == SubSeq(p, q.offset + 1, Min({q.offset + most, Len(p)}))
    IN [k \in DOMAIN shown |-> shown[k].id] = [k \in DOMAIN part |-> Ids[part[k]]]

\* A query no sharing filter is put on answers with the rows its condition means, in the
\* order asked for, from the offset on and as many as the limit: the text nests as the
\* condition does, and each literal whose text is its value is compared as that value.  The
\* queries that do not work answer otherwise without an error, mostly with no rows, those
\* with an escaped string or a date formula among them (interpreter.go:2210-2395, 2578-2895;
\* soql.go:226-358).
AnswersAsMeant ==
  answer.kind = "list" /\ Works(asked) /\ ~Sharing(asked.access) => AsMeant(asked, answer.rows)

Owner(id) == rows[CHOOSE i \in DOMAIN rows : Ids[i] = id].owner

\* STUBS.md:147: with sharing, a query returns only records owned by the running user.
OnlyOwnedRows ==
  answer.kind = "list" /\ Sharing(asked.access) =>
    \A k \in DOMAIN answer.rows : Owner(answer.rows[k].id) = user

\* Where sharing is enforced, by the class or WITH USER_MODE, the rows of the answer are
\* those of the running user, but under a condition that is an OR: the filter is put at its
\* end with AND and binds to its last part (interpreter.go:2148-2177).
OwnedUnlessOr ==
  answer.kind = "list" /\ Sharing(asked.access) =>
    \A k \in DOMAIN answer.rows :
      \/ Owner(answer.rows[k].id) = user
      \/ asked.where.is = "or"

\* Where the fields are checked no answer shows a value of a denied field of its own object:
\* the check comes after the query, and a query that fails shows nothing.  The fields of a
\* parent are not checked (interpreter.go:2182-2203).
DeniedIsNotShown ==
  /\ answer.kind = "list" /\ user # Null
  /\ asked.access \in {"USER_MODE", "SECURITY_ENFORCED"} /\ "f" \in denied
  => \A k \in DOMAIN answer.rows : answer.rows[k].f = Null

\* The child rows that an answer shows of a row are those the subquery means, each once.
KidsMeant(q, row) ==
  LET meant == {i \in DOMAIN rows : rows[i].ref = row.id /\ Meaning[q.kids.where][i] = "T"}
      kids == Range(row.kids)
  IN /\ kids \subseteq {Ids[i] : i \in meant}
     /\ q.kids.limit = 0 => Cardinality(kids) = Cardinality(meant)

\* The child rows of a row are its own, those the condition of the subquery means, whoever
\* owns them: the condition is put in parentheses, and no sharing filter is.  A subquery
\* whose condition is misread, by an escaped string for one, shows other rows
\* (soql.go:163-195, interpreter.go:2716-2792).
KidsAreItsOwn ==
  answer.kind = "list" /\ asked.kids.read /\ ~Misread[asked.kids.where] =>
    \A k \in DOMAIN answer.rows : KidsMeant(asked, answer.rows[k])
=============================================================================
