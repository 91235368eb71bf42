\* Both loops, one worker, one crash, under fairness.
CONSTANTS
  j1 = j1  j2 = j2  w1 = w1  w2 = w2  g1 = g1  g2 = g2  s1 = s1  s2 = s2  r1 = r1  r2 = r2
  Jobs = {j1}
  Priority <- MCSamePriority
  MaxRetries = 1
  Backoff <- MCNoBackoff
  Workers = {w1}
  StaleAge = 1
  DataTTL = 1
  DLQTTL = 1
  Expiry = FALSE
  QueueCap = 3
  Faults = {}
  Goroutines = {g1}
  PoolOf <- MCOnePool
  Timeout <- MCShort
  Schedulers = {s1}
  LockTTL = 1
  Requests = {r1}
  HostOf <- MCOneHost
  Delays = {0, 1}
  BatchSize = 2
  Movers = {s1}
  Reclaimers = {s1}
  Ops = {"submit"}
  MaxMishaps = 1
SPECIFICATION FairSpec
PROPERTIES EventuallySettled
