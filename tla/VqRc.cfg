SPECIFICATION Spec
CONSTANTS
  VQs = {v1}
  Addrs = {a1, a2}
  Ports = {0, 3}
  DctQp = FALSE
  MetaKv = FALSE
  MetaCache = FALSE
  MigrateQp = FALSE
  MAX_SERVICE_NUM = 2
  CanFail = {"addr", "path", "create", "conn", "post"}
  MaxThreads = 0
  MaxPosted = 2
  MaxBatches = 2
  None = None
INVARIANT TypeOK
INVARIANT WaitCanEnd
CHECK_DEADLOCK FALSE
