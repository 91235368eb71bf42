\* One job, two pools, one reclaimer; up to two crashes of a pool or of the scheduler.
CONSTANTS
  j1 = j1  j2 = j2  w1 = w1  w2 = w2  g1 = g1  g2 = g2  s1 = s1  s2 = s2  r1 = r1  r2 = r2
  Jobs = {j1}
  Priority <- MCSamePriority
  MaxRetries = 0
  Backoff <- MCNoBackoff
  Workers = {w1, w2}
  StaleAge = 1
  DataTTL = 1
  DLQTTL = 1
  Expiry = FALSE
  QueueCap = 3
  Faults = {}
  Goroutines = {g1, g2}
  PoolOf <- MCOnePoolEach
  Timeout <- MCShort
  Schedulers = {s1}
  LockTTL = 1
  Requests = {r1}
  HostOf <- MCOneHost
  Delays = {0}
  BatchSize = 2
  Movers = {}
  Reclaimers = {s1}
  Ops = {"submit"}
  MaxMishaps = 2
SPECIFICATION Spec
INVARIANTS TypeOK AtLeastOnce CompletedOnlyIfSucceeded
SYMMETRY MCSwapPools
