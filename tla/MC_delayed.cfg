\* Two delayed-job loops that share the lock, two jobs, one worker, one crash.
CONSTANTS
  j1 = j1  j2 = j2  w1 = w1  w2 = w2  g1 = g1  g2 = g2  s1 = s1  s2 = s2  r1 = r1  r2 = r2
  Jobs = {j1, j2}
  Priority <- MCTwoPriorities
  MaxRetries = 1
  Backoff <- MCNoBackoff
  Workers = {w1}
  StaleAge = 1
  DataTTL = 1
  DLQTTL = 1
  Expiry = FALSE
  QueueCap = 3
  Faults = {}
  Goroutines = {g1}
  PoolOf <- MCOnePool
  Timeout <- MCShort
  Schedulers = {s1, s2}
  LockTTL = 2
  Requests = {r1}
  HostOf <- MCOneHost
  Delays = {1}
  BatchSize = 1
  Movers = {s1, s2}
  Reclaimers = {}
  Ops = {"submit"}
  MaxMishaps = 1
SPECIFICATION Spec
INVARIANTS NotBeforeScheduled DuplicatesExplained AtLeastOnce
PROPERTIES LockKeptForItsHolder
