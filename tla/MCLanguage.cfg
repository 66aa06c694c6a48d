SPECIFICATION LanguageSpec
CONSTANTS
  Operators = {"MUL", "SUB", "EQUAL", "COAL", "ASSIGN"}
  MaxTokens = 7
  IntHalf = 4
  LongHalf = 16
  Precise = 8
  Exponent = 2
  Units = {1, 2}
  Doubles = {0, 1, 2, 3, 4}
  Strings <- SomeTexts
  Lower <- LowerText
  Folded <- FoldedText
  Rank <- TextRank
  Ids <- IdOrder
  Texts <- TextOrder
  StandsFor <- LiteralValues
  Users = {"u1"}
  Null = "null"
  Conditions <- AllConditions
  Height <- HeightOf
  Queries <- AskedQueries
  Denials <- DenialSets
  Names = {"f", "k"}
  Spellings = {"lower", "upper"}
  Objects = {"o1", "o2"}
  None = "none"
  Fields <- ObjectFields
  Statics = {"k"}
  Values = {"1"}
  Unset = "null"
  ClassNames = {"k"}
  Known = "K"
  MaxCalls = 2
  MaxBlocks = 1
  MaxVariables = 2
  Namespaces = {"", "A", "a", "B"}
  ClassKeys = {"c"}
  ObjectNames = {"X", "x"}
  FieldNames = {"f", "g"}
  LowerCase <- Lowered
  Contents <- PackageContents
  MaxPackages = 3
  Queried = {"Contact", "EmailMessage", "Pet"}
  Projects <- PetProjects
  MaxQueries = 2
INVARIANTS
  NothingElseIsDropped BracketsMatch OperandsBindAsWritten
  NumbersStayInRange ResultIsTheWider OrderIsTotal EqualNumbersAreTheSame EqualsItself
  SlotsAndSwitchesFollowEquality
  AnswersAsMeant OwnedUnlessOr DeniedIsNotShown KidsAreItsOwn
  NamesMeanWhatTheySay
  OnlyAccessibleClasses OwnClassesFirst RegistryAgreesWithResolver FieldsSurvive
  RelationshipsAreUnambiguous PathsReachTheirObjects
PROPERTY LexicalUnlessConfused
CHECK_DEADLOCK FALSE
