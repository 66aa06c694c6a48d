----------------------------- MODULE MCLanguage -----------------------------
(***************************************************************************)
(* The parts of the interpreter that meet only through the values they      *)
(* hand each other, checked side by side: a behaviour is one of a single    *)
(* part, the others staying where they began.                               *)
(***************************************************************************)
EXTENDS Visitors, Expressions, Values, Soql, Names, Packages, Relations

VARIABLE part

languageVars == <<part, visitVars, exprVars, given, soqlVars, nameVars, packageVars, relationVars>>

ObjectFields == [o1 |-> {"f"}, o2 |-> {"f", "k"}]

Lowered == [n \in {"", "A", "a", "B", "X", "x"} |->
              CASE n = "A" -> "a" [] n = "B" -> "b" [] n = "X" -> "x" [] OTHER -> n]
PackageContents ==
  LET classless == [c \in ClassKeys |-> Absent]
  IN {[classes |-> [c \in ClassKeys |-> m], objects |-> [o \in {} |-> {}]] : m \in Modifiers \cup {Absent}}
     \cup {[classes |-> classless, objects |-> os] :
             os \in {[o \in {"X"} |-> {"f"}], [o \in {"x"} |-> {"g"}], [o \in {"X"} |-> {"f", "g"}]}}

PetProjects ==
  {{}, {Lookup("Contact", "Account", "__c", "Account", "Contacts"),
        Lookup("Contact", "ReportsTo", "Id", Blank, Blank),
        Lookup("Pet", "Owner", "__c", "Contact", "Kids")}}

\* Of the texts some are those of numbers, of null and of true.  EqualFold joins the long s
\* with "s", which ToLower keeps apart; ToLower joins the dotted I with "i", EqualFold does not.
TextsInOrder ==
  <<Letters("-0"), Digits(2), Letters("i"), Letters("nan"), Letters("null"), Letters("s"),
    Letters("true"), Letters("long s")>>
TextRank == [t \in {TextsInOrder[k] : k \in DOMAIN TextsInOrder} |->
               CHOOSE k \in DOMAIN TextsInOrder : TextsInOrder[k] = t]
Capitals == [S |-> "s", NULL |-> "null", NaN |-> "nan"]
SomeTexts ==
  (DOMAIN TextRank \ {Letters("nan")}) \cup {Letters(w) : w \in DOMAIN Capitals \cup {"dotted I"}}
WithoutCapital(t) ==
  IF \E w \in DOMAIN Capitals : t = Letters(w)
  THEN Letters(Capitals[CHOOSE w \in DOMAIN Capitals : t = Letters(w)]) ELSE t
LowerText == [t \in SomeTexts |-> IF t = Letters("dotted I") THEN Letters("i") ELSE WithoutCapital(t)]
FoldedText == [t \in SomeTexts |-> IF t = Letters("long s") THEN Letters("s") ELSE WithoutCapital(t)]

IdOrder == <<"r1", "r2">>
TextOrder == <<"a", "b">>
\* As a literal "b" is the text of one that stands for "a"; a column or a bound variable can
\* hold "b" itself.
LiteralValues == [t \in {"a", "b"} |-> {"a"}]
DenialSets == {{}, {"f"}}

\* Queries: the conditions, each on its own, then the other clauses with few conditions.
One(c) == Logical("and", <<c>>)
A == Compare("f", "=", Text("a"))
B == Compare("f", "!=", Bind("b"))
Escaped == One(Compare("f", "=", Text("b")))
N == Compare("f", "=", NullValue)
AOrN == Logical("or", <<A, N>>)
AskedConditions ==
  {Anything, AOrN, One(Compare("f", "!=", NullValue)), One(Compare("f", "<", Bind("b"))),
   One(Compare("f", "NOT IN", ListOf(<<"a", Null>>))), One(Compare("f", "IN", ListOf(<<"a", "b">>))),
   Escaped,
   One(Compare("f", "IN", BindList(<<"a">>))),
   One(Compare("id", "IN", RowsOf(One(A)))), One(Compare("id", "NOT IN", RowsOf(AOrN))),
   Logical("not", <<AOrN>>), Logical("not", <<Logical("not", <<B>>)>>),
   Logical("or", <<A, Logical("and", <<N, B>>)>>), Logical("and", <<AOrN, B>>)}
\* A condition and those within it; how high it is.
RECURSIVE Within(_)
Within(c) ==
  {c} \cup (IF c.is # "compare" THEN UNION {Within(c.parts[k]) : k \in DOMAIN c.parts}
            ELSE IF c.val.as = "rows" THEN Within(c.val.where) ELSE {})
AllConditions == UNION {Within(c) : c \in AskedConditions}
HeightOf == [c \in AllConditions |-> Cardinality(Within(c))]
NoKids == [read |-> FALSE, where |-> Anything, limit |-> 0]
NoLimit == [is |-> "none", n |-> 0]
Literal(n) == [is |-> "literal", n |-> n]
Plain(w) == [fields |-> {"f"}, up |-> FALSE, kids |-> NoKids, where |-> w, orderBy |-> "",
             limit |-> NoLimit, offset |-> 0, access |-> ""]
AskedQueries ==
  LET all == Plain(Anything)
  IN {Plain(w) : w \in AskedConditions}
     \cup {[q EXCEPT !.access = a] :
             q \in {all, Plain(AOrN)}, a \in {"USER_MODE", "SECURITY_ENFORCED", "SYSTEM_MODE"}}
     \cup {[all EXCEPT !.orderBy = "ASC", !.limit = l, !.offset = f] :
             l \in {NoLimit, Literal(1), [is |-> "bound", n |-> 1]}, f \in {0, 1}}
     \cup {[all EXCEPT !.orderBy = "DESC NULLS FIRST", !.limit = l] : l \in {NoLimit, Literal(0), Literal(1)}}
     \cup {[Plain(w) EXCEPT !.up = TRUE] : w \in {Anything, One(A), One(Compare("id", "IN", RowsOf(One(A))))}}
     \cup {[all EXCEPT !.up = TRUE, !.orderBy = "ASC"], [all EXCEPT !.fields = {"gone"}]}
     \cup {[all EXCEPT !.kids = [read |-> TRUE, where |-> w, limit |-> n]] : w \in {Anything, AOrN}, n \in {0, 1}}
     \cup {[all EXCEPT !.kids = [read |-> TRUE, where |-> Escaped, limit |-> 0]]}
-----------------------------------------------------------------------------
Parts == {"visitors", "expressions", "values", "soql", "names", "packages", "relations"}

\* A part that does not run has one initial state.
LanguageInit ==
  /\ part \in Parts
  /\ VisitInit /\ ExprInit /\ ValuesInit /\ SoqlInit /\ NameInit /\ PackageInit /\ RelationInit
  /\ part # "soql" => mode = "with" /\ denied = {}
  /\ part # "names" => frames[1] = [this |-> "o1", owner |-> "o1", first |-> 2]
  /\ part # "packages" => defaultNamespace = ""
  /\ part # "relations" => project = {}

LanguageNext ==
  \/ /\ part = "visitors" /\ VisitNext
     /\ UNCHANGED <<part, exprVars, given, soqlVars, nameVars, packageVars, relationVars>>
  \/ /\ part = "expressions" /\ ExprNext
     /\ UNCHANGED <<part, visitVars, given, soqlVars, nameVars, packageVars, relationVars>>
  \/ /\ part = "values" /\ ValuesNext
     /\ UNCHANGED <<part, visitVars, exprVars, soqlVars, nameVars, packageVars, relationVars>>
  \/ /\ part = "soql" /\ SoqlNext
     /\ UNCHANGED <<part, visitVars, exprVars, given, nameVars, packageVars, relationVars>>
  \/ /\ part = "names" /\ NameNext
     /\ UNCHANGED <<part, visitVars, exprVars, given, soqlVars, packageVars, relationVars>>
  \/ /\ part = "packages" /\ PackageNext
     /\ UNCHANGED <<part, visitVars, exprVars, given, soqlVars, nameVars, relationVars>>
  \/ /\ part = "relations" /\ RelationNext
     /\ UNCHANGED <<part, visitVars, exprVars, given, soqlVars, nameVars, packageVars>>

LanguageSpec == LanguageInit /\ [][LanguageNext]_languageVars
=============================================================================
