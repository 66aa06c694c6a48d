----------------------------- MODULE QueryGrammar ----------------------------
\* The rules of SOQL and SOSL (src/parser/apex_parser.go): see Grammar.
EXTENDS Shapes

\* SOQL.
soqlLiteral == Word(<<"LBRACK", "query", "RBRACK">>)
query ==
  Seqn(<<Word(<<"SELECT", "selectList", "FROM", "fromNameList">>), Opt(Sym("usingScope")),
  Opt(Sym("whereClause")), Opt(Sym("withClause")), Opt(Sym("groupByClause")),
  Opt(Sym("orderByClause")), Opt(Sym("limitClause")), Opt(Sym("offsetClause")),
  Opt(Sym("allRowsClause")), Sym("forClauses"), Opt(Word(<<"UPDATE", "updateList">>))>>)
subQuery ==
  Seqn(<<Word(<<"SELECT", "subFieldList", "FROM", "fromNameList">>),
  Opt(Sym("whereClause")), Opt(Sym("orderByClause")), Opt(Sym("limitClause")),
  Sym("forClauses"), Opt(Word(<<"UPDATE", "updateList">>))>>)
selectList == ListOf(Sym("selectEntry"))
selectEntry ==
  Alts(<<Seqn(<<Sym("fieldName"), Opt(Sym("soqlId"))>>), Seqn(<<Sym("soqlFunction"),
  Opt(Sym("soqlId"))>>), Seqn(<<Word(<<"LPAREN", "subQuery", "RPAREN">>),
  Opt(Sym("soqlId"))>>), Sym("typeOf")>>)
fieldName == Seqn(<<Sym("soqlId"), Many(Word(<<"DOT", "soqlId">>))>>)
fromNameList == ListOf(Sym("fieldNameAlias"))
fieldNameAlias == Seqn(<<Sym("fieldName"), Opt(Sym("soqlId"))>>)
subFieldList == ListOf(Sym("subFieldEntry"))
subFieldEntry ==
  Alts(<<Seqn(<<Sym("fieldName"), Opt(Sym("soqlId"))>>), Seqn(<<Sym("soqlFunction"),
  Opt(Sym("soqlId"))>>), Seqn(<<Word(<<"LPAREN", "subQuery", "RPAREN">>),
  Opt(Sym("soqlId"))>>), Sym("typeOf")>>)
soqlFieldsParameter == OneOf({"ALL", "CUSTOM", "STANDARD"})
soqlFunction ==
  Alts(<<Word(<<"AVG", "LPAREN", "fieldName", "RPAREN">>), Word(<<"COUNT", "LPAREN",
  "RPAREN">>), Word(<<"COUNT", "LPAREN", "fieldName", "RPAREN">>), Word(<<"COUNT_DISTINCT",
  "LPAREN", "fieldName", "RPAREN">>), Word(<<"MIN", "LPAREN", "fieldName", "RPAREN">>),
  Word(<<"MAX", "LPAREN", "fieldName", "RPAREN">>), Word(<<"SUM", "LPAREN", "fieldName",
  "RPAREN">>), Word(<<"TOLABEL", "LPAREN", "fieldName", "RPAREN">>), Seqn(<<Word(<<"FORMAT",
  "LPAREN">>), Choice(<<"fieldName", "soqlFunction">>), Sym("RPAREN")>>),
  Word(<<"CALENDAR_MONTH", "LPAREN", "dateFieldName", "RPAREN">>),
  Word(<<"CALENDAR_QUARTER", "LPAREN", "dateFieldName", "RPAREN">>), Word(<<"CALENDAR_YEAR",
  "LPAREN", "dateFieldName", "RPAREN">>), Word(<<"DAY_IN_MONTH", "LPAREN", "dateFieldName",
  "RPAREN">>), Word(<<"DAY_IN_WEEK", "LPAREN", "dateFieldName", "RPAREN">>),
  Word(<<"DAY_IN_YEAR", "LPAREN", "dateFieldName", "RPAREN">>), Word(<<"DAY_ONLY", "LPAREN",
  "dateFieldName", "RPAREN">>), Word(<<"FISCAL_MONTH", "LPAREN", "dateFieldName",
  "RPAREN">>), Word(<<"FISCAL_QUARTER", "LPAREN", "dateFieldName", "RPAREN">>),
  Word(<<"FISCAL_YEAR", "LPAREN", "dateFieldName", "RPAREN">>), Word(<<"HOUR_IN_DAY",
  "LPAREN", "dateFieldName", "RPAREN">>), Word(<<"WEEK_IN_MONTH", "LPAREN", "dateFieldName",
  "RPAREN">>), Word(<<"WEEK_IN_YEAR", "LPAREN", "dateFieldName", "RPAREN">>),
  Word(<<"FIELDS", "LPAREN", "soqlFieldsParameter", "RPAREN">>), Word(<<"DISTANCE",
  "LPAREN", "locationValue", "COMMA", "locationValue", "COMMA", "StringLiteral",
  "RPAREN">>), Word(<<"GROUPING", "LPAREN", "fieldName", "RPAREN">>),
  Word(<<"CONVERT_CURRENCY", "LPAREN", "fieldName", "RPAREN">>)>>)
dateFieldName ==
  Alts(<<Word(<<"CONVERT_TIMEZONE", "LPAREN", "fieldName", "RPAREN">>), Sym("fieldName")>>)
locationValue ==
  Alts(<<Sym("fieldName"), Sym("boundExpression"), Word(<<"GEOLOCATION", "LPAREN",
  "coordinateValue", "COMMA", "coordinateValue", "RPAREN">>)>>)
coordinateValue == Choice(<<"signedNumber", "boundExpression">>)
typeOf ==
  Seqn(<<Word(<<"TYPEOF", "fieldName">>), Some(Sym("whenClause")), Opt(Sym("elseClause")),
  Sym("END")>>)
whenClause == Word(<<"WHEN", "fieldName", "THEN", "fieldNameList">>)
elseClause == Word(<<"ELSE", "fieldNameList">>)
fieldNameList == ListOf(Sym("fieldName"))
usingScope == Word(<<"USING", "SCOPE", "soqlId">>)
whereClause == Word(<<"WHERE", "logicalExpression">>)
logicalExpression ==
  Alts(<<Seqn(<<Sym("conditionalExpression"), Many(Word(<<"SOQLAND",
  "conditionalExpression">>))>>), Seqn(<<Sym("conditionalExpression"), Many(Word(<<"SOQLOR",
  "conditionalExpression">>))>>), Word(<<"NOT", "conditionalExpression">>)>>)
conditionalExpression ==
  Alts(<<Word(<<"LPAREN", "logicalExpression", "RPAREN">>), Sym("fieldExpression")>>)
fieldExpression ==
  Alts(<<Word(<<"fieldName", "comparisonOperator", "value">>), Word(<<"soqlFunction",
  "comparisonOperator", "value">>)>>)
comparisonOperator ==
  Alts(<<OneOf({"ASSIGN", "NOTEQUAL", "LT", "GT"}), Word(<<"LT", "ASSIGN">>), Word(<<"GT",
  "ASSIGN">>), OneOf({"LESSANDGREATER", "LIKE", "IN"}), Word(<<"NOT", "IN">>),
  Sym("INCLUDES"), Sym("EXCLUDES")>>)
nullValue == Sym("NULL")
booleanLiteralValue == Sym("BooleanLiteral")
signedNumberValue == Sym("signedNumber")
stringLiteralValue == Sym("StringLiteral")
dateLiteralValue == Sym("DateLiteral")
timeLiteralValue == Sym("TimeLiteral")
dateTimeLiteralValue == Sym("DateTimeLiteral")
dateFormulaValue == Sym("dateFormula")
currencyValueValue == Sym("currencyValue")
subQueryValue == Word(<<"LPAREN", "subQuery", "RPAREN">>)
valueListValue == Sym("valueList")
boundExpressionValue == Sym("boundExpression")
value ==
  Choice(<<"nullValue", "booleanLiteralValue", "signedNumberValue", "stringLiteralValue",
  "dateLiteralValue", "timeLiteralValue", "dateTimeLiteralValue", "dateFormulaValue",
  "currencyValueValue", "subQueryValue", "valueListValue", "boundExpressionValue">>)
valueList == Seqn(<<Sym("LPAREN"), ListOf(Sym("value")), Sym("RPAREN")>>)
currencyValue ==
  Seqn(<<Sym("IntegralCurrencyLiteral"), Opt(Seqn(<<Sym("DOT"),
  Opt(Sym("IntegerLiteral"))>>))>>)
signedNumber ==
  Seqn(<<Opt(OneOf({"ADD", "SUB"})), OneOf({"IntegerLiteral", "NumberLiteral"})>>)
withClause ==
  Alts(<<Word(<<"WITH", "DATA", "CATEGORY", "filteringExpression">>), Word(<<"WITH",
  "SECURITY_ENFORCED">>), Word(<<"WITH", "USER_MODE">>), Word(<<"WITH", "SYSTEM_MODE">>),
  Seqn(<<Word(<<"WITH", "RECORDVISIBILITYCONTEXT", "LPAREN">>),
  ListOf(Sym("recordVisibilityContextParam")), Sym("RPAREN")>>), Word(<<"WITH",
  "logicalExpression">>)>>)
recordVisibilityContextParam ==
  Alts(<<Word(<<"MAXDESCRIPTORPERRECORD", "ASSIGN", "IntegerLiteral">>),
  Word(<<"SUPPORTSDOMAINS", "ASSIGN", "BooleanLiteral">>), Word(<<"SUPPORTSDELEGATES",
  "ASSIGN", "BooleanLiteral">>)>>)
filteringExpression ==
  Seqn(<<Sym("dataCategorySelection"), Many(Word(<<"AND", "dataCategorySelection">>))>>)
dataCategorySelection == Word(<<"soqlId", "filteringSelector", "dataCategoryName">>)
dataCategoryName ==
  Alts(<<Sym("soqlId"), Seqn(<<Sym("LPAREN"), ListOf(Sym("soqlId")), Sym("LPAREN")>>)>>)
filteringSelector == OneOf({"AT", "ABOVE", "BELOW", "ABOVE_OR_BELOW"})
groupByClause ==
  Alts(<<Seqn(<<Word(<<"GROUP", "BY", "selectList">>), Opt(Word(<<"HAVING",
  "logicalExpression">>))>>), Seqn(<<Word(<<"GROUP", "BY", "ROLLUP", "LPAREN">>),
  ListOf(Sym("groupByField")), Sym("RPAREN"), Opt(Word(<<"HAVING",
  "logicalExpression">>))>>), Seqn(<<Word(<<"GROUP", "BY", "CUBE", "LPAREN">>),
  ListOf(Sym("groupByField")), Sym("RPAREN"), Opt(Word(<<"HAVING",
  "logicalExpression">>))>>)>>)
groupByField == Choice(<<"soqlFunction", "fieldName">>)
orderByClause == Word(<<"ORDER", "BY", "fieldOrderList">>)
fieldOrderList == ListOf(Sym("fieldOrder"))
fieldOrder ==
  Alts(<<Seqn(<<Sym("fieldName"), Opt(OneOf({"ASC", "DESC"})), Opt(Seqn(<<Sym("NULLS"),
  OneOf({"FIRST", "LAST"})>>))>>), Seqn(<<Sym("soqlFunction"), Opt(OneOf({"ASC", "DESC"})),
  Opt(Seqn(<<Sym("NULLS"), OneOf({"FIRST", "LAST"})>>))>>)>>)
limitClause ==
  Alts(<<Word(<<"LIMIT", "IntegerLiteral">>), Word(<<"LIMIT", "boundExpression">>)>>)
offsetClause ==
  Alts(<<Word(<<"OFFSET", "IntegerLiteral">>), Word(<<"OFFSET", "boundExpression">>)>>)
allRowsClause == Word(<<"ALL", "ROWS">>)
forClauses == Many(Sym("forClause"))
forClause == Seqn(<<Sym("FOR"), OneOf({"VIEW", "UPDATE", "REFERENCE"})>>)
boundExpression == Word(<<"COLON", "expression">>)
dateFormula ==
  Alts(<<OneOf({"YESTERDAY", "TODAY", "TOMORROW", "LAST_WEEK", "THIS_WEEK", "NEXT_WEEK",
  "LAST_MONTH", "THIS_MONTH", "NEXT_MONTH", "LAST_90_DAYS", "NEXT_90_DAYS"}),
  Word(<<"LAST_N_DAYS", "COLON", "signedInteger">>), Word(<<"NEXT_N_DAYS", "COLON",
  "signedInteger">>), Word(<<"NEXT_N_WEEKS", "COLON", "signedInteger">>),
  Word(<<"LAST_N_WEEKS", "COLON", "signedInteger">>), Word(<<"NEXT_N_MONTHS", "COLON",
  "signedInteger">>), Word(<<"LAST_N_MONTHS", "COLON", "signedInteger">>),
  Word(<<"N_DAYS_AGO", "COLON", "signedInteger">>), Word(<<"N_WEEKS_AGO", "COLON",
  "signedInteger">>), Word(<<"N_MONTHS_AGO", "COLON", "signedInteger">>),
  Word(<<"N_QUARTERS_AGO", "COLON", "signedInteger">>), Word(<<"N_FISCAL_QUARTERS_AGO",
  "COLON", "signedInteger">>), Word(<<"N_YEARS_AGO", "COLON", "signedInteger">>),
  Word(<<"N_FISCAL_YEARS_AGO", "COLON", "signedInteger">>), OneOf({"THIS_QUARTER",
  "LAST_QUARTER", "NEXT_QUARTER"}), Word(<<"NEXT_N_QUARTERS", "COLON", "signedInteger">>),
  Word(<<"LAST_N_QUARTERS", "COLON", "signedInteger">>), OneOf({"THIS_YEAR", "LAST_YEAR",
  "NEXT_YEAR"}), Word(<<"NEXT_N_YEARS", "COLON", "signedInteger">>), Word(<<"LAST_N_YEARS",
  "COLON", "signedInteger">>), OneOf({"THIS_FISCAL_QUARTER", "LAST_FISCAL_QUARTER",
  "NEXT_FISCAL_QUARTER"}), Word(<<"NEXT_N_FISCAL_QUARTERS", "COLON", "signedInteger">>),
  Word(<<"LAST_N_FISCAL_QUARTERS", "COLON", "signedInteger">>), OneOf({"THIS_FISCAL_YEAR",
  "LAST_FISCAL_YEAR", "NEXT_FISCAL_YEAR"}), Word(<<"NEXT_N_FISCAL_YEARS", "COLON",
  "signedInteger">>), Word(<<"LAST_N_FISCAL_YEARS", "COLON", "signedInteger">>)>>)
signedInteger == Seqn(<<Opt(OneOf({"ADD", "SUB"})), Sym("IntegerLiteral")>>)
soqlId == Sym("id")

\* SOSL.
soslLiteral ==
  Alts(<<Word(<<"FindLiteral", "soslClauses", "RBRACK">>), Word(<<"LBRACK", "FIND",
  "boundExpression", "soslClauses", "RBRACK">>)>>)
soslLiteralAlt == Word(<<"FindLiteralAlt", "soslClauses", "RBRACK">>)
soslClauses ==
  Seqn(<<Opt(Sym("inSearchGroup")), Opt(Sym("returningFieldSpecList")),
  Opt(Sym("withDivisionAssign")), Opt(Sym("withDataCategory")), Opt(Sym("withSnippet")),
  Opt(Sym("withHighlight")), Opt(Sym("withSpellCorrection")), Opt(Sym("withNetworkIn")),
  Opt(Sym("withNetworkAssign")), Opt(Sym("withPricebookIdAssign")),
  Opt(Sym("withMetadataAssign")), Opt(Sym("withModeClause")), Opt(Sym("limitClause")),
  Opt(Sym("updateListClause"))>>)
inSearchGroup == Word(<<"IN", "searchGroup">>)
returningFieldSpecList == Word(<<"RETURNING", "fieldSpecList">>)
withDivisionAssign == Word(<<"WITH", "DIVISION", "ASSIGN", "StringLiteral">>)
withDataCategory == Word(<<"WITH", "DATA", "CATEGORY", "filteringExpression">>)
withSnippet ==
  Seqn(<<Word(<<"WITH", "SNIPPET">>), Opt(Word(<<"LPAREN", "TARGET_LENGTH", "ASSIGN",
  "IntegerLiteral", "RPAREN">>))>>)
withHighlight == Word(<<"WITH", "HIGHLIGHT">>)
withSpellCorrection ==
  Seqn(<<Word(<<"WITH", "SPELL_CORRECTION">>), Opt(Word(<<"ASSIGN", "BooleanLiteral">>))>>)
withNetworkIn == Word(<<"WITH", "NETWORK", "IN", "LPAREN", "networkList", "RPAREN">>)
withNetworkAssign == Word(<<"WITH", "NETWORK", "ASSIGN", "StringLiteral">>)
withPricebookIdAssign == Word(<<"WITH", "PRICEBOOKID", "ASSIGN", "StringLiteral">>)
withMetadataAssign == Word(<<"WITH", "METADATA", "ASSIGN", "StringLiteral">>)
withModeClause == Alts(<<Word(<<"WITH", "USER_MODE">>), Word(<<"WITH", "SYSTEM_MODE">>)>>)
updateListClause == Word(<<"UPDATE", "updateList">>)
searchGroup == Seqn(<<OneOf({"ALL", "EMAIL", "NAME", "PHONE", "SIDEBAR"}), Sym("FIELDS")>>)
fieldSpecList == Seqn(<<Sym("fieldSpec"), Many(Word(<<"COMMA", "fieldSpecList">>))>>)
fieldSpec == Seqn(<<Sym("soslId"), Opt(Sym("fieldSpecClauses"))>>)
fieldSpecClauses ==
  Seqn(<<Word(<<"LPAREN", "fieldList">>), Opt(Word(<<"WHERE", "logicalExpression">>)),
  Opt(Word(<<"USING", "LISTVIEW", "ASSIGN", "soslId">>)), Opt(Word(<<"ORDER", "BY",
  "fieldOrderList">>)), Opt(Sym("limitClause")), Opt(Sym("offsetClause")), Sym("RPAREN")>>)
fieldList ==
  Alts(<<Seqn(<<Sym("soslId"), Many(Word(<<"COMMA", "fieldList">>))>>), Word(<<"TOLABEL",
  "LPAREN", "soslId", "RPAREN">>), Word(<<"CONVERT_CURRENCY", "LPAREN", "soslId",
  "RPAREN">>), Seqn(<<Word(<<"FORMAT", "LPAREN">>), Choice(<<"soslId", "soqlFunction">>),
  Sym("RPAREN")>>)>>)
updateList == Seqn(<<Sym("updateType"), Opt(Word(<<"COMMA", "updateList">>))>>)
updateType == OneOf({"TRACKING", "VIEWSTAT"})
networkList == Seqn(<<Sym("StringLiteral"), Opt(Word(<<"COMMA", "networkList">>))>>)
soslId == Seqn(<<Sym("id"), Many(Word(<<"DOT", "soslId">>))>>)
=============================================================================
