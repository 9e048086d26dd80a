SPECIFICATION Spec
CONSTANTS
  s1 = s1
  t1 = t1
  t2 = t2
  NULL = NULL
  Subs = {s1}
  Stored = {s1}
  Threads = {t1, t2}
  ReqPolicy = "none"
  SubCacheIval = TRUE
  DbMayFail = TRUE
  Requests <- PlainRequests
  Patches <- SomePatches
  Outcomes = {TRUE}
  StartTime = 2
  MaxTime = 2
  MaxRequests = 3
  MaxRestarts = 0
SYMMETRY ThreadSymmetry
INVARIANT OneItemPerSub
INVARIANT RemovedNotCached
