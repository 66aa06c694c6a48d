----------------------------- MODULE Visitors -----------------------------
(***************************************************************************)
(* What becomes of the code the parser accepts.  A walk goes down a parse   *)
(* tree from the compilation unit, one child at a time; reader says which   *)
(* part of the interpreter looks at the node: the registry ("declared"),    *)
(* the tree-walking visitor ("run"), the code of VisitRunAsStatement that   *)
(* evaluates a list's first expression ("first"), that of VisitCreator that *)
(* evaluates the right sides of an object's assignments ("fields"), the     *)
(* extraction of query parameters ("sql", "semijoin"), code that takes the  *)
(* node's text without looking into it ("text"), or nothing at all          *)
(* ("unread": a node whose visit method does not pass it on, or has none of *)
(* its own, where the generated base visitor returns nil).                  *)
(***************************************************************************)
EXTENDS Naturals, Sequences, FiniteSets

G == INSTANCE Grammar

VARIABLES node, reader, lost

visitVars == <<node, reader, lost>>

NotLost == [by |-> "compilationUnit", child |-> "compilationUnit", as |-> "child"]
-----------------------------------------------------------------------------
\* The operators whose visit method returns without a look at their operands.
M_Unevaluated ==
  {"bitExpression", "bitAndExpression", "bitOrExpression", "bitNotExpression",
   "instanceOfExpression", "coalExpression"}
Unevaluated ==
  {"bitExpression", "bitAndExpression", "bitOrExpression", "bitNotExpression",
   "instanceOfExpression"}
\* Those that bind looser than every one of them.
LooserThanThem ==
  {"logAndExpression", "logOrExpression", "coalExpression", "condExpression",
   "assignExpression"}

\* What a child is to its parent, where the same rule can be there in several ways: the
\* part of an expression may be its value, or be within the left operand of one of the
\* operators above or the outermost operation of what a plain = assigns to; the rest of
\* a creator follows the name of a collection, of a class of the registry or of another
\* object; a body may be that of a method or a constructor that another hides, Methods
\* keeping the last of a name and createInstance running the first with as many
\* parameters as there are arguments.
Ways(m, r, c) ==
  CASE r = "expression" ->
         IF m = "fields" THEN {"argument"}
         ELSE {"value"} \cup (IF c \in LooserThanThem THEN {} ELSE {"operand"})
                        \cup (IF c = "assignExpression" THEN {} ELSE {"target"})
    [] r = "expressionList" -> {"first", "later"}
    [] r = "creator" -> {"list", "map", "set", "class", "object"}
    [] r = "fieldDeclaration" -> {"instance", "static"}
    [] r \in {"methodDeclaration", "constructorDeclaration"} -> {"found", "hidden"}
    [] OTHER -> {"child"}
-----------------------------------------------------------------------------
\* RegisterTrigger, RegisterClass, buildClassInfo and their helpers.  An inner class is
\* kept in InnerClasses, where no lookup of a class goes.
Declared(r) ==
  CASE r = "compilationUnit" -> {"typeDeclaration", "triggerUnit"}
    [] r = "triggerUnit" -> {"triggerCase"}
    [] r = "typeDeclaration" -> {"modifier", "classDeclaration"}
    [] r = "classDeclaration" -> {"classBody"}
    [] r = "classBody" -> {"classBodyDeclaration"}
    [] r = "classBodyDeclaration" -> {"modifier", "memberDeclaration"}
    [] r = "memberDeclaration" ->
         {"methodDeclaration", "fieldDeclaration", "constructorDeclaration"}
    [] r \in {"methodDeclaration", "constructorDeclaration"} -> {"formalParameters"}
    [] r = "formalParameters" -> {"formalParameterList"}
    [] r = "formalParameterList" -> {"formalParameter"}
    [] r = "modifier" -> {"annotation"}
    [] OTHER -> {}

\* The children of a declaration the interpreter runs later: executeMethodNode,
\* executeConstructor, executeTrigger, and createInstance for the value of a field that is
\* not static.
Bodies == [methodDeclaration |-> "block", constructorDeclaration |-> "block",
           triggerUnit |-> "triggerBlock", fieldDeclaration |-> "variableDeclarators"]
NeverRun == {"static", "hidden"}

\* The children whose text is all that is taken of them.
TextOnly ==
  {"id", "anyId", "methodId", "typeRef", "typeList", "qualifiedName", "createdName",
   "literal", "whenLiteral"}
-----------------------------------------------------------------------------
\* VisitBlock, VisitStatement and the visit methods of the statements.
StatementVisits(r) ==
  CASE r = "triggerBlock" -> {"triggerStatement"}
    [] r \in {"triggerStatement", "block"} -> {"statement"}
    [] r = "statement" -> G!Children["statement"] \ {"mergeStatement"}
    [] r = "localVariableDeclarationStatement" -> {"localVariableDeclaration"}
    [] r = "localVariableDeclaration" -> {"variableDeclarators"}
    [] r = "variableDeclarators" -> {"variableDeclarator"}
    [] r = "ifStatement" -> {"parExpression", "statement"}
    [] r = "switchStatement" -> {"expression", "whenControl"}
    [] r = "whenControl" -> {"whenValue", "block"}
    [] r = "forStatement" -> {"forControl", "statement"}
    [] r = "forControl" -> {"enhancedForControl", "forInit", "expression", "forUpdate"}
    [] r = "forInit" -> {"localVariableDeclaration", "expressionList"}
    [] r = "forUpdate" -> {"expressionList"}
    [] r \in {"whileStatement", "doWhileStatement"} -> {"parExpression", "statement"}
    [] r = "tryStatement" -> {"block", "catchClause", "finallyBlock"}
    [] r \in {"catchClause", "finallyBlock"} -> {"block"}
    [] r = "runAsStatement" -> {"block"}
    [] r \in {"variableDeclarator", "expressionStatement", "enhancedForControl",
              "returnStatement", "throwStatement", "insertStatement", "updateStatement",
              "deleteStatement", "upsertStatement"} -> {"expression"}
    [] OTHER -> {}

\* VisitPrimaryExpression to VisitCreator.  The size of an array is not evaluated, nor are
\* the arguments of a collection.
ExpressionVisits(r) ==
  CASE r = "expression" -> G!Children["expression"] \ Unevaluated
    [] r = "primary" -> G!Children["primary"] \ {"soslPrimary", "superPrimary"}
    [] r = "primaryExpression" -> {"primary"}
    [] r = "literalPrimary" -> {"literal"}
    [] r = "soqlPrimary" -> {"soqlLiteral"}
    [] r = "dotExpression" -> {"dotMethodCall"}
    [] r = "methodCallExpression" -> {"methodCall"}
    [] r = "newInstanceExpression" -> {"creator"}
    [] r = "arrayCreatorRest" -> {"arrayInitializer"}
    [] r = "mapCreatorRest" -> {"mapCreatorRestPair"}
    [] r = "classCreatorRest" -> {"arguments"}
    [] r \in {"methodCall", "dotMethodCall", "arguments"} -> {"expressionList"}
    [] r \in {"parExpression", "expressionList", "arrayInitializer", "setCreatorRest",
              "mapCreatorRestPair"} -> {"expression"}
    [] r \in G!Children["expression"] \ Unevaluated -> {"expression"}
    [] OTHER -> {}
CreatorVisits(way) ==
  {"arrayCreatorRest"} \cup
  CASE way = "map" -> {"mapCreatorRest"}
    [] way \in {"list", "set"} -> {"setCreatorRest"}
    [] OTHER -> {"classCreatorRest"}
\* assignToExpression: of what is assigned to, the object and the index are evaluated; the
\* rest is a name, or nothing is assigned.
TargetVisits == {"arrayExpression"}
-----------------------------------------------------------------------------
\* extractQueryParams and the functions it calls: what of a query reaches the engine.
QueryReads(r) ==
  CASE r = "soqlLiteral" -> {"query"}
    [] r = "query" ->
         {"selectList", "fromNameList", "whereClause", "withClause", "groupByClause",
          "orderByClause", "limitClause", "offsetClause"}
    [] r = "subQuery" ->
         {"subFieldList", "fromNameList", "whereClause", "orderByClause", "limitClause"}
    [] r = "selectList" -> {"selectEntry"}
    [] r = "selectEntry" -> {"fieldName", "soqlFunction", "subQuery", "typeOf"}
    [] r = "typeOf" -> {"fieldName", "whenClause", "elseClause"}
    [] r = "whereClause" -> {"logicalExpression"}
    [] r = "logicalExpression" -> {"conditionalExpression"}
    [] r = "conditionalExpression" -> {"logicalExpression", "fieldExpression"}
    [] r = "fieldExpression" -> {"fieldName", "soqlFunction", "comparisonOperator", "value"}
    [] r = "value" -> G!Children["value"]
    [] r = "boundExpressionValue" -> {"boundExpression"}
    [] r = "valueListValue" -> {"valueList"}
    [] r = "subQueryValue" -> {"subQuery"}
    [] r = "groupByClause" -> {"selectList", "logicalExpression"}
    [] r = "orderByClause" -> {"fieldOrderList"}
    [] r = "fieldOrderList" -> {"fieldOrder"}
    [] r = "fieldOrder" -> {"fieldName", "soqlFunction"}
    [] OTHER -> {}

\* The parts of a query whose text is taken: a bound expression in one of them is not
\* evaluated.
QueryTexts ==
  {"fieldName", "fromNameList", "subFieldList", "soqlFunction", "comparisonOperator",
   "valueList", "typeOf", "signedNumberValue", "dateFormulaValue", "currencyValueValue"}

\* buildSemiJoinSQL: the subquery on the right of IN keeps only its fields, table and
\* condition.
SemiJoinReads == {"subFieldList", "fromNameList", "whereClause"}
-----------------------------------------------------------------------------
\* The reader of child c of a node r that the visitor runs.
Run(r, c, way) ==
  CASE r = "soqlLiteral" -> "sql"
    [] r = "runAsStatement" /\ c = "expressionList" -> "first"
    [] r = "creator" /\ c \in CreatorVisits(way) ->
         IF way = "object" /\ c = "classCreatorRest" THEN "fields" ELSE "run"
    [] r = "expression" /\ way = "operand" -> "unread"
    [] r = "expression" /\ way = "target" -> IF c \in TargetVisits THEN "run" ELSE "text"
    [] OTHER -> IF c \in StatementVisits(r) \cup ExpressionVisits(r) THEN "run"
                ELSE IF c \in TextOnly THEN "text" ELSE "unread"

\* Who looks at child c, in one of its ways, of a node r that reader m looks at.
ReaderOf(m, r, c, way) ==
  CASE m \in {"text", "unread"} -> m
    [] m = "declared" ->
         IF r \in DOMAIN Bodies /\ Bodies[r] = c
         THEN (IF way \in NeverRun THEN "unread" ELSE "run")
         ELSE IF c \in Declared(r) THEN "declared"
         ELSE IF c \in TextOnly THEN "text" ELSE "unread"
    [] m = "run" -> Run(r, c, way)
    [] m = "first" -> IF way = "first" THEN "run" ELSE "unread"
    [] m = "fields" ->
         IF r # "expression" THEN "fields"
         ELSE IF c = "assignExpression" THEN "run" ELSE "text"
    [] m = "sql" ->
         IF r = "boundExpression" THEN "run"
         ELSE IF c \notin QueryReads(r) THEN "unread"
         ELSE IF c \in QueryTexts THEN "text"
         ELSE IF r = "subQueryValue" THEN "semijoin" ELSE "sql"
    [] OTHER -> IF c \notin SemiJoinReads THEN "unread"
                ELSE IF c \in QueryTexts THEN "text" ELSE "sql"

VisitInit == node = "compilationUnit" /\ reader = "declared" /\ lost = NotLost

\* Accept and the visit method it dispatches to hand the child to its reader.
Descend(c, way) ==
  /\ c \in G!Children[node] /\ way \in Ways(reader, node, c)
  /\ node' = c
  /\ reader' = ReaderOf(reader, node, c, way)
  /\ lost' = IF reader \notin {"text", "unread"} /\ reader' \in {"text", "unread"}
             THEN [by |-> node, child |-> c, as |-> way] ELSE lost

VisitNext == \E c \in G!Children[node] : \E way \in Ways(reader, node, c) : Descend(c, way)
VisitSpec == VisitInit /\ [][VisitNext]_visitVars
-----------------------------------------------------------------------------
\* What a node drops: children, in whatever way they are met; children met in one of some ways.
Pairs(by, children) ==
  [by : {by}, child : children,
   as : UNION {Ways(m, by, c) : m \in {"run", "declared", "sql"}, c \in children}]
Met(by, ways, children) == [by : {by}, child : children, as : ways]

\* The constructs of the language this interpreter gives no meaning to.
Unsupported ==
  Pairs("typeDeclaration", {"interfaceDeclaration"})
  \cup Pairs("memberDeclaration",
             {"classDeclaration", "interfaceDeclaration", "propertyDeclaration"})
  \cup Pairs("classBodyDeclaration", {"block"})
  \cup Pairs("triggerStatement", {"blockMemberDeclaration"})
  \cup Pairs("statement", {"mergeStatement"})
  \cup Pairs("undeleteStatement", {"expression"})
  \cup Pairs("primary", {"soslPrimary"})
  \cup Pairs("arrayCreatorRest", {"expression"})
  \cup Pairs("expression", {"bitExpression", "bitAndExpression", "bitOrExpression",
                            "bitNotExpression", "instanceOfExpression"})

\* The code of constructs that have a meaning which no visit method evaluates: an operand of
\* an operator without one; what follows the name of the wrong kind of type, such as the
\* arguments of new List<T>(...); an argument of new Account(...) that is no assignment, and
\* what is left of = in one; any user but the first of a runAs; what a plain = assigns to,
\* beyond a name, a field or an element; the value of a static field; and the body of a
\* method or constructor that another hides.
NotEvaluated ==
  Met("expression", {"operand"}, G!Children["expression"])
  \cup Met("creator", {"list", "map", "set"}, {"classCreatorRest"})
  \cup Met("creator", {"list", "set", "class", "object"}, {"mapCreatorRest"})
  \cup Met("creator", {"map", "class", "object"}, {"setCreatorRest"})
  \cup Met("expression", {"argument"}, G!Children["expression"] \ {"assignExpression"})
  \cup Met("expressionList", {"later"}, {"expression"})
  \cup Met("expression", {"target"}, G!Children["expression"] \ {"arrayExpression"})
  \cup Met("fieldDeclaration", {"static"}, {"variableDeclarators"})
  \cup UNION {Met(r, {"hidden"}, {"block"}) : r \in {"methodDeclaration", "constructorDeclaration"}}

\* The arguments of annotations: no code.
Annotations ==
  Pairs("annotation", {"elementValue", "elementValuePairs"})
  \cup UNION {Pairs(r, {"modifier"}) :
               r \in {"localVariableDeclaration", "formalParameter", "catchClause"}}

\* The parts of a query that change nothing, or go to the engine as the text they are.
DroppedFromQueries ==
  UNION {Pairs(r, {"boundExpression"}) : r \in {"limitClause", "offsetClause"}}
  \cup UNION {Pairs(r, {"soqlFunction"}) : r \in {"fieldExpression", "fieldOrder", "selectEntry"}}
  \cup Pairs("withClause", {"logicalExpression"})
  \cup Pairs("groupByClause", {"groupByField"})
  \cup Pairs("subQuery", {"orderByClause", "limitClause", "subFieldList"})
  \cup Pairs("valueListValue", {"valueList"})

\* Every statement, block, expression, condition and ordering that a class or a trigger may
\* hold is handed to the visitor or reaches the engine, unless it lies in a construct without
\* a meaning here, in a place that is not evaluated (NotEvaluated), in an annotation, or in
\* one of the parts of a query above (a bound LIMIT, the limit of a semi-join, a bound value
\* in a list).  A visit method that forgets a child drops code without a word: the base
\* visitor answers nil, and nil is null.
NothingElseIsDropped ==
  /\ node \in {"statement", "block", "expression", "logicalExpression", "fieldOrderList"}
  /\ reader \in {"text", "unread"}
  => lost \in Unsupported \cup NotEvaluated \cup Annotations \cup DroppedFromQueries

\* The brackets of every rule match, so that what a rule matches can be nested in another;
\* the list of data categories is closed by a second left parenthesis and matches no query
\* anyone writes.
BracketsMatch ==
  \A b \in DOMAIN G!Opens :
    G!LeftOpen(G!Rules[node], b) = IF node = "dataCategoryName" /\ b = "paren" THEN {0, 2} ELSE {0}

============================================================================
