------------------------------ MODULE Grammar ------------------------------
(***************************************************************************)
(* The language the generated parser accepts (src/parser/apex_parser.go):  *)
(* every rule method of ApexParser as a value, its right-hand side, over   *)
(* the tokens of the lexer (upper case) and the rules (lower case).  The   *)
(* labelled alternatives of expression, primary and value, which the       *)
(* parser turns into contexts of their own, are rules here.  Error         *)
(* recovery and the prediction tables are left out: a rule stands for the  *)
(* token strings it matches and for the children its context can have.     *)
(***************************************************************************)
EXTENDS Integers, FiniteSets, QueryGrammar

\* Declarations.
triggerUnit ==
  Seqn(<<Word(<<"TRIGGER", "id", "ON", "id", "LPAREN">>), ListOf(Sym("triggerCase")),
  Word(<<"RPAREN", "triggerBlock", "EOF">>)>>)
triggerCase ==
  Seqn(<<OneOf({"BEFORE", "AFTER"}), OneOf({"INSERT", "UPDATE", "DELETE", "UNDELETE"})>>)
compilationUnit == Alts(<<Word(<<"typeDeclaration", "EOF">>), Sym("triggerUnit")>>)
typeDeclaration ==
  Alts(<<Seqn(<<Many(Sym("modifier")), Sym("classDeclaration")>>),
  Seqn(<<Many(Sym("modifier")), Sym("enumDeclaration")>>), Seqn(<<Many(Sym("modifier")),
  Sym("interfaceDeclaration")>>)>>)
classDeclaration ==
  Seqn(<<Word(<<"CLASS", "id">>), Opt(Word(<<"EXTENDS", "typeRef">>)),
  Opt(Word(<<"IMPLEMENTS", "typeList">>)), Sym("classBody")>>)
enumDeclaration ==
  Seqn(<<Word(<<"ENUM", "id", "LBRACE">>), Opt(Sym("enumConstants")), Sym("RBRACE")>>)
enumConstants == ListOf(Sym("id"))
interfaceDeclaration ==
  Seqn(<<Word(<<"INTERFACE", "id">>), Opt(Word(<<"EXTENDS", "typeList">>)),
  Sym("interfaceBody")>>)
typeList == ListOf(Sym("typeRef"))
classBody == Seqn(<<Sym("LBRACE"), Many(Sym("classBodyDeclaration")), Sym("RBRACE")>>)
interfaceBody ==
  Seqn(<<Sym("LBRACE"), Many(Sym("interfaceMethodDeclaration")), Sym("RBRACE")>>)
classBodyDeclaration ==
  Alts(<<Sym("SEMI"), Seqn(<<Opt(Sym("STATIC")), Sym("block")>>),
  Seqn(<<Many(Sym("modifier")), Sym("memberDeclaration")>>)>>)
modifier ==
  Alts(<<Sym("annotation"), OneOf({"GLOBAL", "PUBLIC", "PROTECTED", "PRIVATE", "TRANSIENT",
  "STATIC", "ABSTRACT", "FINAL", "WEBSERVICE", "OVERRIDE", "VIRTUAL", "TESTMETHOD"}),
  Word(<<"WITH", "SHARING">>), Word(<<"WITHOUT", "SHARING">>), Word(<<"INHERITED",
  "SHARING">>)>>)
memberDeclaration ==
  Choice(<<"methodDeclaration", "fieldDeclaration", "constructorDeclaration",
  "interfaceDeclaration", "classDeclaration", "enumDeclaration", "propertyDeclaration">>)
methodDeclaration ==
  Seqn(<<Choice(<<"typeRef", "VOID">>), Word(<<"methodId", "formalParameters">>),
  Choice(<<"block", "SEMI">>)>>)
constructorDeclaration == Word(<<"qualifiedName", "formalParameters", "block">>)
fieldDeclaration == Word(<<"typeRef", "variableDeclarators", "SEMI">>)
propertyDeclaration ==
  Seqn(<<Word(<<"typeRef", "id", "LBRACE">>), Many(Sym("propertyBlock")), Sym("RBRACE")>>)
interfaceMethodDeclaration ==
  Seqn(<<Many(Sym("modifier")), Choice(<<"typeRef", "VOID">>), Word(<<"methodId",
  "formalParameters", "SEMI">>)>>)
variableDeclarators == ListOf(Sym("variableDeclarator"))
variableDeclarator == Seqn(<<Sym("id"), Opt(Word(<<"ASSIGN", "expression">>))>>)
arrayInitializer ==
  Seqn(<<Sym("LBRACE"), Opt(Seqn(<<ListOf(Sym("expression")), Opt(Sym("trailingComma"))>>)),
  Sym("RBRACE")>>)
typeRef ==
  Seqn(<<Sym("typeName"), Many(Word(<<"DOT", "typeName">>)), Sym("arraySubscripts")>>)
arraySubscripts == Many(Word(<<"LBRACK", "RBRACK">>))
typeName ==
  Alts(<<Seqn(<<Sym("LIST"), Opt(Sym("typeArguments"))>>), Seqn(<<Sym("SET"),
  Opt(Sym("typeArguments"))>>), Seqn(<<Sym("MAP"), Opt(Sym("typeArguments"))>>),
  Seqn(<<Sym("id"), Opt(Sym("typeArguments"))>>)>>)
typeArguments == Word(<<"LT", "typeList", "GT">>)
formalParameters == Seqn(<<Sym("LPAREN"), Opt(Sym("formalParameterList")), Sym("RPAREN")>>)
formalParameterList == ListOf(Sym("formalParameter"))
formalParameter == Seqn(<<Many(Sym("modifier")), Word(<<"typeRef", "id">>)>>)
qualifiedName == Seqn(<<Sym("id"), Many(Word(<<"DOT", "id">>))>>)
literal ==
  OneOf({"IntegerLiteral", "LongLiteral", "NumberLiteral", "StringLiteral",
  "BooleanLiteral", "NULL"})

\* Annotations.
annotation ==
  Seqn(<<Word(<<"ATSIGN", "qualifiedName">>), Opt(Seqn(<<Sym("LPAREN"),
  Opt(Choice(<<"elementValuePairs", "elementValue">>)), Sym("RPAREN")>>))>>)
elementValuePairs ==
  Seqn(<<Sym("elementValuePair"), Many(Sym("delimitedElementValuePair"))>>)
delimitedElementValuePair == Seqn(<<Opt(Sym("COMMA")), Sym("elementValuePair")>>)
elementValuePair == Word(<<"id", "ASSIGN", "elementValue">>)
elementValue == Choice(<<"expression", "annotation", "elementValueArrayInitializer">>)
elementValueArrayInitializer ==
  Seqn(<<Sym("LBRACE"), Opt(ListOf(Sym("elementValue"))), Opt(Sym("trailingComma")),
  Sym("RBRACE")>>)
trailingComma == Sym("COMMA")

\* Statements.
triggerBlock == Seqn(<<Sym("LBRACE"), Many(Sym("triggerStatement")), Sym("RBRACE")>>)
triggerStatement == Choice(<<"statement", "blockMemberDeclaration">>)
M_block == Seqn(<<Sym("LBRACE"), Many(Sym("statement"))>>)
block == Seqn(<<Sym("LBRACE"), Many(Sym("statement")), Sym("RBRACE")>>)
localVariableDeclarationStatement == Word(<<"localVariableDeclaration", "SEMI">>)
localVariableDeclaration ==
  Seqn(<<Many(Sym("modifier")), Word(<<"typeRef", "variableDeclarators">>)>>)
statement ==
  Choice(<<"block", "ifStatement", "switchStatement", "forStatement", "whileStatement",
  "doWhileStatement", "tryStatement", "returnStatement", "throwStatement", "breakStatement",
  "continueStatement", "insertStatement", "updateStatement", "deleteStatement",
  "undeleteStatement", "upsertStatement", "mergeStatement", "runAsStatement",
  "localVariableDeclarationStatement", "expressionStatement">>)
blockMemberDeclaration == Seqn(<<Many(Sym("modifier")), Sym("memberDeclaration")>>)
ifStatement ==
  Seqn(<<Word(<<"IF", "parExpression", "statement">>), Opt(Word(<<"ELSE", "statement">>))>>)
switchStatement ==
  Seqn(<<Word(<<"SWITCH", "ON", "expression", "LBRACE">>), Some(Sym("whenControl")),
  Sym("RBRACE")>>)
whenControl == Word(<<"WHEN", "whenValue", "block">>)
whenValue ==
  Alts(<<Sym("ELSE"), ListOf(Sym("whenLiteral")), Word(<<"id", "id">>), Word(<<"typeRef",
  "id">>)>>)
whenLiteral ==
  Alts(<<Seqn(<<Opt(Sym("SUB")), Sym("IntegerLiteral")>>), OneOf({"LongLiteral",
  "StringLiteral", "NULL"}), Sym("id"), Word(<<"LPAREN", "whenLiteral", "RPAREN">>)>>)
forStatement ==
  Seqn(<<Word(<<"FOR", "LPAREN", "forControl", "RPAREN">>), Choice(<<"statement",
  "SEMI">>)>>)
whileStatement ==
  Seqn(<<Word(<<"WHILE", "parExpression">>), Choice(<<"statement", "SEMI">>)>>)
doWhileStatement == Word(<<"DO", "statement", "WHILE", "parExpression", "SEMI">>)
tryStatement ==
  Seqn(<<Word(<<"TRY", "block">>), Alts(<<Seqn(<<Some(Sym("catchClause")),
  Opt(Sym("finallyBlock"))>>), Sym("finallyBlock")>>)>>)
returnStatement == Seqn(<<Sym("RETURN"), Opt(Sym("expression")), Sym("SEMI")>>)
throwStatement == Word(<<"THROW", "expression", "SEMI">>)
breakStatement == Word(<<"BREAK", "SEMI">>)
continueStatement == Word(<<"CONTINUE", "SEMI">>)
insertStatement ==
  Seqn(<<Sym("INSERT"), Opt(Seqn(<<Sym("AS"), OneOf({"SYSTEM", "USER"})>>)),
  Word(<<"expression", "SEMI">>)>>)
updateStatement ==
  Seqn(<<Sym("UPDATE"), Opt(Seqn(<<Sym("AS"), OneOf({"SYSTEM", "USER"})>>)),
  Word(<<"expression", "SEMI">>)>>)
deleteStatement ==
  Seqn(<<Sym("DELETE"), Opt(Seqn(<<Sym("AS"), OneOf({"SYSTEM", "USER"})>>)),
  Word(<<"expression", "SEMI">>)>>)
undeleteStatement ==
  Seqn(<<Sym("UNDELETE"), Opt(Seqn(<<Sym("AS"), OneOf({"SYSTEM", "USER"})>>)),
  Word(<<"expression", "SEMI">>)>>)
upsertStatement ==
  Seqn(<<Sym("UPSERT"), Opt(Seqn(<<Sym("AS"), OneOf({"SYSTEM", "USER"})>>)),
  Sym("expression"), Opt(Sym("qualifiedName")), Sym("SEMI")>>)
mergeStatement == Word(<<"MERGE", "expression", "expression", "SEMI">>)
runAsStatement ==
  Seqn(<<Word(<<"SYSTEMRUNAS", "LPAREN">>), Opt(Sym("expressionList")), Word(<<"RPAREN",
  "block">>)>>)
expressionStatement == Word(<<"expression", "SEMI">>)
propertyBlock == Seqn(<<Many(Sym("modifier")), Choice(<<"getter", "setter">>)>>)
getter == Seqn(<<Sym("GET"), Choice(<<"SEMI", "block">>)>>)
setter == Seqn(<<Sym("SET"), Choice(<<"SEMI", "block">>)>>)
catchClause ==
  Seqn(<<Word(<<"CATCH", "LPAREN">>), Many(Sym("modifier")), Word(<<"qualifiedName", "id",
  "RPAREN", "block">>)>>)
finallyBlock == Word(<<"FINALLY", "block">>)
forControl ==
  Alts(<<Sym("enhancedForControl"), Seqn(<<Opt(Sym("forInit")), Sym("SEMI"),
  Opt(Sym("expression")), Sym("SEMI"), Opt(Sym("forUpdate"))>>)>>)
forInit == Choice(<<"localVariableDeclaration", "expressionList">>)
enhancedForControl == Word(<<"typeRef", "id", "COLON", "expression">>)
forUpdate == Sym("expressionList")

\* Expressions. An alternative that begins with its left operand is written without it.
parExpression == Word(<<"LPAREN", "expression", "RPAREN">>)
expressionList == ListOf(Sym("expression"))
primaryExpression == Sym("primary")
methodCallExpression == Sym("methodCall")
newInstanceExpression == Word(<<"NEW", "creator">>)
castExpression == Word(<<"LPAREN", "typeRef", "RPAREN", "expression">>)
subExpression == Word(<<"LPAREN", "expression", "RPAREN">>)
preOpExpression == Seqn(<<OneOf({"ADD", "SUB", "INC", "DEC"}), Sym("expression")>>)
negExpression == Seqn(<<OneOf({"TILDE", "BANG"}), Sym("expression")>>)
dotExpression ==
  Seqn(<<OneOf({"DOT", "QUESTIONDOT"}), Choice(<<"dotMethodCall", "anyId">>)>>)
arrayExpression == Word(<<"LBRACK", "expression", "RBRACK">>)
postOpExpression == OneOf({"INC", "DEC"})
arth1Expression == Seqn(<<OneOf({"MUL", "DIV", "MOD"}), Sym("expression")>>)
arth2Expression == Seqn(<<OneOf({"ADD", "SUB"}), Sym("expression")>>)
bitExpression ==
  Seqn(<<Alts(<<Word(<<"LT", "LT">>), Word(<<"GT", "GT", "GT">>), Word(<<"GT", "GT">>)>>),
  Sym("expression")>>)
cmpExpression == Seqn(<<OneOf({"GT", "LT"}), Opt(Sym("ASSIGN")), Sym("expression")>>)
instanceOfExpression == Word(<<"INSTANCEOF", "typeRef">>)
equalityExpression ==
  Seqn(<<OneOf({"TRIPLEEQUAL", "TRIPLENOTEQUAL", "EQUAL", "NOTEQUAL", "LESSANDGREATER"}),
  Sym("expression")>>)
bitAndExpression == Word(<<"BITAND", "expression">>)
bitNotExpression == Word(<<"CARET", "expression">>)
bitOrExpression == Word(<<"BITOR", "expression">>)
logAndExpression == Word(<<"AND", "expression">>)
logOrExpression == Word(<<"OR", "expression">>)
coalExpression == Word(<<"COAL", "expression">>)
condExpression == Word(<<"QUESTION", "expression", "COLON", "expression">>)
assignExpression ==
  Seqn(<<OneOf({"ASSIGN", "ADD_ASSIGN", "SUB_ASSIGN", "MUL_ASSIGN", "DIV_ASSIGN",
  "AND_ASSIGN", "OR_ASSIGN", "XOR_ASSIGN", "RSHIFT_ASSIGN", "URSHIFT_ASSIGN",
  "LSHIFT_ASSIGN", "MOD_ASSIGN"}), Sym("expression")>>)
prefixes ==
  <<"primaryExpression", "methodCallExpression", "newInstanceExpression", "castExpression",
  "subExpression", "preOpExpression", "negExpression">>
suffixes ==
  <<"arth1Expression", "arth2Expression", "bitExpression", "cmpExpression",
  "equalityExpression", "bitAndExpression", "bitNotExpression", "bitOrExpression",
  "logAndExpression", "logOrExpression", "coalExpression", "condExpression",
  "assignExpression", "dotExpression", "arrayExpression", "postOpExpression",
  "instanceOfExpression">>
expression == Seqn(<<Choice(prefixes), Many(Choice(suffixes))>>)
thisPrimary == Sym("THIS")
superPrimary == Sym("SUPER")
literalPrimary == Sym("literal")
typeRefPrimary == Word(<<"typeRef", "DOT", "CLASS">>)
idPrimary == Sym("id")
soqlPrimary == Sym("soqlLiteral")
soslPrimary == Sym("soslLiteral")
primary ==
  Choice(<<"thisPrimary", "superPrimary", "literalPrimary", "typeRefPrimary", "idPrimary",
  "soqlPrimary", "soslPrimary">>)
methodCall ==
  Alts(<<Seqn(<<Word(<<"id", "LPAREN">>), Opt(Sym("expressionList")), Sym("RPAREN")>>),
  Seqn(<<Word(<<"THIS", "LPAREN">>), Opt(Sym("expressionList")), Sym("RPAREN")>>),
  Seqn(<<Word(<<"SUPER", "LPAREN">>), Opt(Sym("expressionList")), Sym("RPAREN")>>)>>)
dotMethodCall ==
  Seqn(<<Word(<<"anyId", "LPAREN">>), Opt(Sym("expressionList")), Sym("RPAREN")>>)
creator ==
  Seqn(<<Sym("createdName"), Choice(<<"noRest", "classCreatorRest", "arrayCreatorRest",
  "mapCreatorRest", "setCreatorRest">>)>>)
createdName ==
  Seqn(<<Sym("idCreatedNamePair"), Many(Word(<<"DOT", "idCreatedNamePair">>))>>)
idCreatedNamePair == Seqn(<<Sym("anyId"), Opt(Word(<<"LT", "typeList", "GT">>))>>)
noRest == Word(<<"LBRACE", "RBRACE">>)
classCreatorRest == Sym("arguments")
arrayCreatorRest ==
  Alts(<<Word(<<"LBRACK", "expression", "RBRACK">>), Seqn(<<Some(Word(<<"LBRACK",
  "RBRACK">>)), Opt(Sym("arrayInitializer"))>>)>>)
mapCreatorRest == Seqn(<<Sym("LBRACE"), ListOf(Sym("mapCreatorRestPair")), Sym("RBRACE")>>)
mapCreatorRestPair == Word(<<"expression", "MAPTO", "expression">>)
setCreatorRest == Seqn(<<Sym("LBRACE"), ListOf(Sym("expression")), Sym("RBRACE")>>)
arguments == Seqn(<<Sym("LPAREN"), Opt(Sym("expressionList")), Sym("RPAREN")>>)

\* Names: the keywords an identifier may be.
id ==
  OneOf({"Identifier", "AFTER", "BEFORE", "GET", "INHERITED", "INSTANCEOF", "SET",
  "SHARING", "SWITCH", "SYSTEM", "TRANSIENT", "TRIGGER", "USER", "VOID", "WHEN", "WITH",
  "WITHOUT", "IntegralCurrencyLiteral", "SELECT", "COUNT", "FROM", "AS", "USING", "SCOPE",
  "WHERE", "ORDER", "BY", "LIMIT", "SOQLAND", "SOQLOR", "NOT", "AVG", "COUNT_DISTINCT",
  "MIN", "MAX", "SUM", "TYPEOF", "END", "THEN", "LIKE", "IN", "INCLUDES", "EXCLUDES", "ASC",
  "DESC", "NULLS", "FIRST", "LAST", "GROUP", "ALL", "ROWS", "VIEW", "HAVING", "ROLLUP",
  "TOLABEL", "OFFSET", "DATA", "CATEGORY", "AT", "ABOVE", "BELOW", "ABOVE_OR_BELOW",
  "SECURITY_ENFORCED", "RECORDVISIBILITYCONTEXT", "MAXDESCRIPTORPERRECORD",
  "SUPPORTSDOMAINS", "SUPPORTSDELEGATES", "USER_MODE", "SYSTEM_MODE", "REFERENCE", "CUBE",
  "FORMAT", "TRACKING", "VIEWSTAT", "STANDARD", "CUSTOM", "DISTANCE", "GEOLOCATION",
  "GROUPING", "CONVERT_CURRENCY", "CALENDAR_MONTH", "CALENDAR_QUARTER", "CALENDAR_YEAR",
  "DAY_IN_MONTH", "DAY_IN_WEEK", "DAY_IN_YEAR", "DAY_ONLY", "FISCAL_MONTH",
  "FISCAL_QUARTER", "FISCAL_YEAR", "HOUR_IN_DAY", "WEEK_IN_MONTH", "WEEK_IN_YEAR",
  "CONVERT_TIMEZONE", "YESTERDAY", "TODAY", "TOMORROW", "LAST_WEEK", "THIS_WEEK",
  "NEXT_WEEK", "LAST_MONTH", "THIS_MONTH", "NEXT_MONTH", "LAST_90_DAYS", "NEXT_90_DAYS",
  "LAST_N_DAYS", "NEXT_N_DAYS", "NEXT_N_WEEKS", "LAST_N_WEEKS", "NEXT_N_MONTHS",
  "LAST_N_MONTHS", "N_DAYS_AGO", "N_WEEKS_AGO", "N_MONTHS_AGO", "N_QUARTERS_AGO",
  "N_FISCAL_QUARTERS_AGO", "N_YEARS_AGO", "N_FISCAL_YEARS_AGO", "THIS_QUARTER",
  "LAST_QUARTER", "NEXT_QUARTER", "NEXT_N_QUARTERS", "LAST_N_QUARTERS", "THIS_YEAR",
  "LAST_YEAR", "NEXT_YEAR", "NEXT_N_YEARS", "LAST_N_YEARS", "THIS_FISCAL_QUARTER",
  "LAST_FISCAL_QUARTER", "NEXT_FISCAL_QUARTER", "NEXT_N_FISCAL_QUARTERS",
  "LAST_N_FISCAL_QUARTERS", "THIS_FISCAL_YEAR", "LAST_FISCAL_YEAR", "NEXT_FISCAL_YEAR",
  "NEXT_N_FISCAL_YEARS", "LAST_N_FISCAL_YEARS", "FIND", "EMAIL", "NAME", "PHONE", "SIDEBAR",
  "FIELDS", "METADATA", "PRICEBOOKID", "NETWORK", "SNIPPET", "HIGHLIGHT",
  "SPELL_CORRECTION", "TARGET_LENGTH", "DIVISION", "RETURNING", "LISTVIEW"})
methodId == Choice(<<"id", "DELETE", "INSERT", "MERGE", "UNDELETE", "UPDATE", "UPSERT">>)
anyId ==
  OneOf({"Identifier", "ABSTRACT", "AFTER", "BEFORE", "BREAK", "CATCH", "CLASS", "CONTINUE",
  "DELETE", "DO", "ELSE", "ENUM", "EXTENDS", "FINAL", "FINALLY", "FOR", "GET", "GLOBAL",
  "IF", "IMPLEMENTS", "INHERITED", "INSERT", "INSTANCEOF", "INTERFACE", "LIST", "MAP",
  "MERGE", "NEW", "NULL", "ON", "OVERRIDE", "PRIVATE", "PROTECTED", "PUBLIC", "RETURN",
  "SET", "SHARING", "STATIC", "SUPER", "SWITCH", "SYSTEM", "TESTMETHOD", "THIS", "THROW",
  "TRANSIENT", "TRIGGER", "TRY", "UNDELETE", "UPDATE", "USER", "UPSERT", "VIRTUAL",
  "WEBSERVICE", "WHEN", "WHILE", "WITH", "WITHOUT", "IntegralCurrencyLiteral", "SELECT",
  "COUNT", "FROM", "AS", "USING", "SCOPE", "WHERE", "ORDER", "BY", "LIMIT", "SOQLAND",
  "SOQLOR", "NOT", "AVG", "COUNT_DISTINCT", "MIN", "MAX", "SUM", "TYPEOF", "END", "THEN",
  "LIKE", "IN", "INCLUDES", "EXCLUDES", "ASC", "DESC", "NULLS", "FIRST", "LAST", "GROUP",
  "ALL", "ROWS", "VIEW", "HAVING", "ROLLUP", "TOLABEL", "OFFSET", "DATA", "CATEGORY", "AT",
  "ABOVE", "BELOW", "ABOVE_OR_BELOW", "SECURITY_ENFORCED", "RECORDVISIBILITYCONTEXT",
  "MAXDESCRIPTORPERRECORD", "SUPPORTSDOMAINS", "SUPPORTSDELEGATES", "USER_MODE",
  "SYSTEM_MODE", "REFERENCE", "CUBE", "FORMAT", "TRACKING", "VIEWSTAT", "STANDARD",
  "CUSTOM", "DISTANCE", "GEOLOCATION", "GROUPING", "CONVERT_CURRENCY", "CALENDAR_MONTH",
  "CALENDAR_QUARTER", "CALENDAR_YEAR", "DAY_IN_MONTH", "DAY_IN_WEEK", "DAY_IN_YEAR",
  "DAY_ONLY", "FISCAL_MONTH", "FISCAL_QUARTER", "FISCAL_YEAR", "HOUR_IN_DAY",
  "WEEK_IN_MONTH", "WEEK_IN_YEAR", "CONVERT_TIMEZONE", "YESTERDAY", "TODAY", "TOMORROW",
  "LAST_WEEK", "THIS_WEEK", "NEXT_WEEK", "LAST_MONTH", "THIS_MONTH", "NEXT_MONTH",
  "LAST_90_DAYS", "NEXT_90_DAYS", "LAST_N_DAYS", "NEXT_N_DAYS", "NEXT_N_WEEKS",
  "LAST_N_WEEKS", "NEXT_N_MONTHS", "LAST_N_MONTHS", "N_DAYS_AGO", "N_WEEKS_AGO",
  "N_MONTHS_AGO", "N_QUARTERS_AGO", "N_FISCAL_QUARTERS_AGO", "N_YEARS_AGO",
  "N_FISCAL_YEARS_AGO", "THIS_QUARTER", "LAST_QUARTER", "NEXT_QUARTER", "NEXT_N_QUARTERS",
  "LAST_N_QUARTERS", "THIS_YEAR", "LAST_YEAR", "NEXT_YEAR", "NEXT_N_YEARS", "LAST_N_YEARS",
  "THIS_FISCAL_QUARTER", "LAST_FISCAL_QUARTER", "NEXT_FISCAL_QUARTER",
  "NEXT_N_FISCAL_QUARTERS", "LAST_N_FISCAL_QUARTERS", "THIS_FISCAL_YEAR",
  "LAST_FISCAL_YEAR", "NEXT_FISCAL_YEAR", "NEXT_N_FISCAL_YEARS", "LAST_N_FISCAL_YEARS",
  "FIND", "EMAIL", "NAME", "PHONE", "SIDEBAR", "FIELDS", "METADATA", "PRICEBOOKID",
  "NETWORK", "SNIPPET", "HIGHLIGHT", "SPELL_CORRECTION", "TARGET_LENGTH", "DIVISION",
  "RETURNING", "LISTVIEW"})

Rules ==
  [ triggerUnit |-> triggerUnit, triggerCase |-> triggerCase,
    compilationUnit |-> compilationUnit, typeDeclaration |-> typeDeclaration,
    classDeclaration |-> classDeclaration, enumDeclaration |-> enumDeclaration,
    enumConstants |-> enumConstants, interfaceDeclaration |-> interfaceDeclaration,
    typeList |-> typeList, classBody |-> classBody, interfaceBody |-> interfaceBody,
    classBodyDeclaration |-> classBodyDeclaration, modifier |-> modifier,
    memberDeclaration |-> memberDeclaration, methodDeclaration |-> methodDeclaration,
    constructorDeclaration |-> constructorDeclaration,
    fieldDeclaration |-> fieldDeclaration, propertyDeclaration |-> propertyDeclaration,
    interfaceMethodDeclaration |-> interfaceMethodDeclaration,
    variableDeclarators |-> variableDeclarators, variableDeclarator |-> variableDeclarator,
    arrayInitializer |-> arrayInitializer, typeRef |-> typeRef,
    arraySubscripts |-> arraySubscripts, typeName |-> typeName,
    typeArguments |-> typeArguments, formalParameters |-> formalParameters,
    formalParameterList |-> formalParameterList, formalParameter |-> formalParameter,
    qualifiedName |-> qualifiedName, literal |-> literal, annotation |-> annotation,
    elementValuePairs |-> elementValuePairs,
    delimitedElementValuePair |-> delimitedElementValuePair,
    elementValuePair |-> elementValuePair, elementValue |-> elementValue,
    elementValueArrayInitializer |-> elementValueArrayInitializer,
    trailingComma |-> trailingComma, triggerBlock |-> triggerBlock,
    triggerStatement |-> triggerStatement, block |-> block,
    localVariableDeclarationStatement |-> localVariableDeclarationStatement,
    localVariableDeclaration |-> localVariableDeclaration, statement |-> statement,
    blockMemberDeclaration |-> blockMemberDeclaration, ifStatement |-> ifStatement,
    switchStatement |-> switchStatement, whenControl |-> whenControl,
    whenValue |-> whenValue, whenLiteral |-> whenLiteral, forStatement |-> forStatement,
    whileStatement |-> whileStatement, doWhileStatement |-> doWhileStatement,
    tryStatement |-> tryStatement, returnStatement |-> returnStatement,
    throwStatement |-> throwStatement, breakStatement |-> breakStatement,
    continueStatement |-> continueStatement, insertStatement |-> insertStatement,
    updateStatement |-> updateStatement, deleteStatement |-> deleteStatement,
    undeleteStatement |-> undeleteStatement, upsertStatement |-> upsertStatement,
    mergeStatement |-> mergeStatement, runAsStatement |-> runAsStatement,
    expressionStatement |-> expressionStatement, propertyBlock |-> propertyBlock,
    getter |-> getter, setter |-> setter, catchClause |-> catchClause,
    finallyBlock |-> finallyBlock, forControl |-> forControl, forInit |-> forInit,
    enhancedForControl |-> enhancedForControl, forUpdate |-> forUpdate,
    parExpression |-> parExpression, expressionList |-> expressionList,
    primaryExpression |-> primaryExpression, methodCallExpression |-> methodCallExpression,
    newInstanceExpression |-> newInstanceExpression, castExpression |-> castExpression,
    subExpression |-> subExpression, preOpExpression |-> preOpExpression,
    negExpression |-> negExpression, dotExpression |-> dotExpression,
    arrayExpression |-> arrayExpression, postOpExpression |-> postOpExpression,
    arth1Expression |-> arth1Expression, arth2Expression |-> arth2Expression,
    bitExpression |-> bitExpression, cmpExpression |-> cmpExpression,
    instanceOfExpression |-> instanceOfExpression,
    equalityExpression |-> equalityExpression, bitAndExpression |-> bitAndExpression,
    bitNotExpression |-> bitNotExpression, bitOrExpression |-> bitOrExpression,
    logAndExpression |-> logAndExpression, logOrExpression |-> logOrExpression,
    coalExpression |-> coalExpression, condExpression |-> condExpression,
    assignExpression |-> assignExpression, expression |-> expression,
    thisPrimary |-> thisPrimary, superPrimary |-> superPrimary,
    literalPrimary |-> literalPrimary, typeRefPrimary |-> typeRefPrimary,
    idPrimary |-> idPrimary, soqlPrimary |-> soqlPrimary, soslPrimary |-> soslPrimary,
    primary |-> primary, methodCall |-> methodCall, dotMethodCall |-> dotMethodCall,
    creator |-> creator, createdName |-> createdName,
    idCreatedNamePair |-> idCreatedNamePair, noRest |-> noRest,
    classCreatorRest |-> classCreatorRest, arrayCreatorRest |-> arrayCreatorRest,
    mapCreatorRest |-> mapCreatorRest, mapCreatorRestPair |-> mapCreatorRestPair,
    setCreatorRest |-> setCreatorRest, arguments |-> arguments, soqlLiteral |-> soqlLiteral,
    query |-> query, subQuery |-> subQuery, selectList |-> selectList,
    selectEntry |-> selectEntry, fieldName |-> fieldName, fromNameList |-> fromNameList,
    fieldNameAlias |-> fieldNameAlias, subFieldList |-> subFieldList,
    subFieldEntry |-> subFieldEntry, soqlFieldsParameter |-> soqlFieldsParameter,
    soqlFunction |-> soqlFunction, dateFieldName |-> dateFieldName,
    locationValue |-> locationValue, coordinateValue |-> coordinateValue, typeOf |-> typeOf,
    whenClause |-> whenClause, elseClause |-> elseClause, fieldNameList |-> fieldNameList,
    usingScope |-> usingScope, whereClause |-> whereClause,
    logicalExpression |-> logicalExpression,
    conditionalExpression |-> conditionalExpression, fieldExpression |-> fieldExpression,
    comparisonOperator |-> comparisonOperator, nullValue |-> nullValue,
    booleanLiteralValue |-> booleanLiteralValue, signedNumberValue |-> signedNumberValue,
    stringLiteralValue |-> stringLiteralValue, dateLiteralValue |-> dateLiteralValue,
    timeLiteralValue |-> timeLiteralValue, dateTimeLiteralValue |-> dateTimeLiteralValue,
    dateFormulaValue |-> dateFormulaValue, currencyValueValue |-> currencyValueValue,
    subQueryValue |-> subQueryValue, valueListValue |-> valueListValue,
    boundExpressionValue |-> boundExpressionValue, value |-> value, valueList |-> valueList,
    currencyValue |-> currencyValue, signedNumber |-> signedNumber,
    withClause |-> withClause,
    recordVisibilityContextParam |-> recordVisibilityContextParam,
    filteringExpression |-> filteringExpression,
    dataCategorySelection |-> dataCategorySelection, dataCategoryName |-> dataCategoryName,
    filteringSelector |-> filteringSelector, groupByClause |-> groupByClause,
    groupByField |-> groupByField, orderByClause |-> orderByClause,
    fieldOrderList |-> fieldOrderList, fieldOrder |-> fieldOrder,
    limitClause |-> limitClause, offsetClause |-> offsetClause,
    allRowsClause |-> allRowsClause, forClauses |-> forClauses, forClause |-> forClause,
    boundExpression |-> boundExpression, dateFormula |-> dateFormula,
    signedInteger |-> signedInteger, soqlId |-> soqlId, soslLiteral |-> soslLiteral,
    soslLiteralAlt |-> soslLiteralAlt, soslClauses |-> soslClauses,
    inSearchGroup |-> inSearchGroup, returningFieldSpecList |-> returningFieldSpecList,
    withDivisionAssign |-> withDivisionAssign, withDataCategory |-> withDataCategory,
    withSnippet |-> withSnippet, withHighlight |-> withHighlight,
    withSpellCorrection |-> withSpellCorrection, withNetworkIn |-> withNetworkIn,
    withNetworkAssign |-> withNetworkAssign,
    withPricebookIdAssign |-> withPricebookIdAssign,
    withMetadataAssign |-> withMetadataAssign, withModeClause |-> withModeClause,
    updateListClause |-> updateListClause, searchGroup |-> searchGroup,
    fieldSpecList |-> fieldSpecList, fieldSpec |-> fieldSpec,
    fieldSpecClauses |-> fieldSpecClauses, fieldList |-> fieldList,
    updateList |-> updateList, updateType |-> updateType, networkList |-> networkList,
    soslId |-> soslId, id |-> id, methodId |-> methodId, anyId |-> anyId ]

RuleNames == DOMAIN Rules
-----------------------------------------------------------------------------
\* The rules a right-hand side names: the children a node of it can have.
RECURSIVE ChildrenOf(_)
ChildrenOf(t) ==
  CASE t.kind = "sym" -> {t.name} \cap RuleNames
    [] t.kind = "any" -> {}
    [] t.kind = "many" -> ChildrenOf(t.body)
    [] OTHER -> UNION {ChildrenOf(t.parts[i]) : i \in DOMAIN t.parts}

Children == [r \in RuleNames |-> ChildrenOf(Rules[r])]

\* How many brackets a match of t may leave open: a rule it names counts as closed, and
\* the token FindLiteral is the text of a search literal from its bracket on.
Opens == [paren |-> {"LPAREN"}, brack |-> {"LBRACK", "FindLiteral", "FindLiteralAlt"}, brace |-> {"LBRACE"}]
Closes == [paren |-> {"RPAREN"}, brack |-> {"RBRACK"}, brace |-> {"RBRACE"}]
Tokens(t) == IF t.kind = "any" THEN t.tokens ELSE {t.name}

RECURSIVE LeftOpen(_, _)
LeftOpen(t, b) ==
  CASE t.kind \in {"sym", "any"} ->
         {CASE k \in Opens[b] -> 1 [] k \in Closes[b] -> -1 [] OTHER -> 0 : k \in Tokens(t)}
    [] t.kind = "many" -> {0} \cup LeftOpen(t.body, b)
    [] t.kind = "alt" -> UNION {LeftOpen(t.parts[k], b) : k \in DOMAIN t.parts}
    [] OTHER -> IF t.parts = <<>> THEN {0}
                ELSE {x + y : x \in LeftOpen(Head(t.parts), b), y \in LeftOpen(Seqn(Tail(t.parts)), b)}
============================================================================
