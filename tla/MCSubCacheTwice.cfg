SPECIFICATION FairSpec
CONSTANTS
  s1 = s1
  t1 = t1
  NULL = NULL
  Subs = {s1}
  Stored = {}
  Threads = {t1}
  ReqPolicy = "all"
  SubCacheIval = TRUE
  DbMayFail = FALSE
  Requests <- PlainRequests
  Patches <- None
  Outcomes = {TRUE}
  StartTime = 2
  MaxTime = 2
  MaxRequests = 1
  MaxRestarts = 0
PROPERTY SyncTerminates
