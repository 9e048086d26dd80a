CONSTANTS
  Illegal <- MCIllegal
  htmlEscape <- MCEscape
  IdIllegal = {"E?", "id?"}
  Unescaped <- MCUnescaped
  SixDigits <- MCSixDigits
  DoubleOf <- MCDoubleOf
  Malformed = {"bad"}
  TooLong = {"long"}
  DateOf <- MCDateOf
  isodate2str <- MCIsodate2str
  Statements <- MCStatements
  DotEncoded <- MCDotEncoded
  NameParts <- MCNameParts
  Creations <- MCCreations
  Queries <- MCQueries
  AttrsFilters <- MCAttrsFilters
  Posts <- MCPosts
  Patches <- MCPatches
  ListPaths = {"", "/a"}
  Updates <- MCUpdates
  Later = {12, 20}
  PathParts <- MCPathParts
  PatternMatches <- MCPatternMatches
  Int64Of <- MCInt64Of
  MaxOperations = 3
SPECIFICATION Spec
INVARIANTS
  EntitiesReadBack
  SubscriptionTold
  TriggersAgree
  FiltersMeanWhatIsWritten
  CacheAndMongoAgree
CHECK_DEADLOCK FALSE
