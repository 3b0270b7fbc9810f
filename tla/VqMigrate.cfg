SPECIFICATION Spec
CONSTANTS
  VQs = {v1}
  Addrs = {a1, a2}
  Ports = {0, 1}
  DctQp = TRUE
  MetaKv = FALSE
  MetaCache = TRUE
  MigrateQp = TRUE
  MAX_SERVICE_NUM = 2
  CanFail = {"path", "create", "conn", "sidr"}
  MaxThreads = 2
  MaxPosted = 1
  MaxBatches = 1
  None = None
INVARIANT OkConnectCanPush
CHECK_DEADLOCK FALSE
