SPECIFICATION Spec
CONSTANTS
  c1 = c1
  c2 = c2
  t1 = t1
  t2 = t2
  Connections = {c1, c2}
  Threads = {t1, t2}
  Workloads <- MCWorkloads
  STATIC_BUFFER_SIZE = 2
  PAYLOAD_MAX_SIZE = 3
CHECK_DEADLOCK FALSE
INVARIANTS
  PayloadIntact
  ServedIfWellFormed
  RefusalsFit
