SPECIFICATION Spec
CONSTANTS
  VQs = {v1, v2}
  Addrs = {a1}
  Ports = {0, 1}
  DctQp = TRUE
  MetaKv = TRUE
  MetaCache = FALSE
  MigrateQp = FALSE
  MAX_SERVICE_NUM = 2
  CanFail = {"path", "sidr", "post"}
  MaxThreads = 0
  MaxPosted = 2
  MaxBatches = 1
  None = None
INVARIANT LookupsPayBack
INVARIANT CompletionsArePolled
CHECK_DEADLOCK FALSE
SYMMETRY Symmetry
VIEW DcView
