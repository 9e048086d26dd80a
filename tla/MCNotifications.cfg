SPECIFICATION Spec
CONSTANTS
  Requesters = {r1, r2}
  Workers = {w1, w2}
  MayFail = {w1, w2}
  Urls = {u1}
  Ipv6 <- None
  Malformed = malformed
  Instances <- AllInstances
  UseRush = FALSE
  MaxQ = 2
  INT_MAX = 3
  MaxRequests = 3
INVARIANTS CountersAddUp AlarmsFollowDelivery
PROPERTIES ImplementsBoundedQueue NotificationsProgress
CHECK_DEADLOCK FALSE
