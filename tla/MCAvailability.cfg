SPECIFICATION Spec
CONSTANTS
  Threads = {t1, t2}
  Configurations <- MCConfigurations
  Requests <- MCRequests
  Regexps <- MCRegexps
  BadPaths = {"/#"}
  DEFAULT_DURATION = 2
  MaxRequests = 3
  MaxTime = 2
INVARIANTS  CountsItsNotifications
PROPERTY NotifiedAreSubscribed
SYMMETRY ThreadSymmetry
CHECK_DEADLOCK FALSE
