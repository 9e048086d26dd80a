SPECIFICATION Spec
CONSTANTS
  Threads = {t1, t2, t3}
  Keys = {k1, k2}
  Handles = {h1, h2}
  NULL = NULL
  MaxSends = 4
INVARIANTS HandleExclusive HandlesAccounted
PROPERTY SendsEnd
CHECK_DEADLOCK FALSE
