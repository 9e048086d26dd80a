SPECIFICATION FairSpec
CONSTANTS
  s1 = s1
  t1 = t1
  t2 = t2
  NULL = NULL
  Subs = {s1}
  Stored = {s1}
  Threads = {t1, t2}
  ReqPolicy = "none"
  SubCacheIval = TRUE
  DbMayFail = FALSE
  Requests <- PlainRequests
  Patches <- None
  Outcomes = {TRUE}
  StartTime = 2
  MaxTime = 4
  MaxRequests = 4
  MaxRestarts = 0
INVARIANT CountsConserved
PROPERTY CountReachesDb
