\* More threads than connections; any of the connections may have failed at startup.
SPECIFICATION FairSpec
CONSTANTS
  Threads = {t1, t2, t3}
  PoolSize = 2
  NULL = NULL
  ConnectMayFail = TRUE
INVARIANTS
  ExclusiveConnection
  PermitsAccounted
PROPERTY
  WaitersServed
CHECK_DEADLOCK FALSE
