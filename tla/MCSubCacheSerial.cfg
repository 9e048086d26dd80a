SPECIFICATION Spec
CONSTANTS
  s1 = s1
  s2 = s2
  t1 = t1
  t2 = t2
  NULL = NULL
  Subs = {s1, s2}
  Stored = {s1}
  Threads = {t1, t2}
  ReqPolicy = "all"
  SubCacheIval = FALSE
  DbMayFail = TRUE
  Requests <- SomeRequests
  Patches <- SomePatches
  Outcomes = {TRUE}
  StartTime = 2
  MaxTime = 4
  MaxRequests = 4
  MaxRestarts = 1
SYMMETRY ThreadSymmetry
INVARIANT CacheMirrorsDb
PROPERTY SendsOnlyStoredActive
PROPERTY ThrottlingRespected
