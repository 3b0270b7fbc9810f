SPECIFICATION Spec
CONSTANTS
  VQs = {v1, v2}
  Addrs = {a1, a2}
  Ports = {0, 1}
  DctQp = TRUE
  MetaKv = FALSE
  MetaCache = FALSE
  MigrateQp = FALSE
  MAX_SERVICE_NUM = 2
  CanFail = {}
  MaxThreads = 0
  MaxPosted = 1
  MaxBatches = 2
  None = None
INVARIANT PopReturnsOwn
CHECK_DEADLOCK FALSE
