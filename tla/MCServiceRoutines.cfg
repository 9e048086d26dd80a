SPECIFICATION RestSpec
CONSTANTS
  Threads = {t1, t2}
  Instances <- MCInstances
  cprForwardLimit = 10
  Coords <- MCCoords
  Compounds <- MCCompounds
  Longer <- MCLonger
  Regexps <- MCRegexps
  Rests <- MCRests
  Anchored <- MCAnchored
  Sorted <- MCSorted
INVARIANTS
  DocumentsConsistent
  ForwardedAndAnswered
  AnswersTellTheEffect
  GetsTellWhatIsStored
PROPERTIES
  UpdatesKeepTheirPromise
  OnlyRequestedWritten
  DerivedStaysCurrent
  QueryAnswersStored
CHECK_DEADLOCK FALSE
SYMMETRY MCThreadSymmetry
