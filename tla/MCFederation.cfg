CONSTANTS
  Illegal <- MCIllegal
  htmlEscape <- MCEscape
  IdIllegal = {}
  Unescaped <- MCUnescaped
  Malformed = {"bad"}
  SixDigits <- MCSixDigits
  isodate2str <- MCIsodate2str
  TooLong = {}
  Clients <- MCClients
  ContextProvider = {P1, P2, P3}
  StoredAttributes <- MCStoredAttributes
  Details = {"", "d", "<b>"}
  cprForwardLimit = 2
SPECIFICATION Spec
INVARIANTS
  TextsAreJson
  ForwardsAreUnderstood
  AnswersAreUnderstood
  OrderDoesNotMatter
CHECK_DEADLOCK FALSE
