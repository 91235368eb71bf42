\* A client that retries and deletes its job while two goroutines of one pool run it.
CONSTANTS
  j1 = j1  j2 = j2  w1 = w1  w2 = w2  g1 = g1  g2 = g2  s1 = s1  s2 = s2  r1 = r1  r2 = r2
  Jobs = {j1}
  Priority <- MCSamePriority
  MaxRetries = 0
  Backoff <- MCNoBackoff
  Workers = {w1}
  StaleAge = 1
  DataTTL = 1
  DLQTTL = 1
  Expiry = FALSE
  QueueCap = 3
  Faults = {}
  Goroutines = {g1, g2}
  PoolOf <- MCOnePool
  Timeout <- MCShort
  Schedulers = {s1}
  LockTTL = 1
  Requests = {r1}
  HostOf <- MCOneHost
  Delays = {0}
  BatchSize = 2
  Movers = {}
  Reclaimers = {s1}
  Ops = {"submit", "retry", "delete"}
  MaxMishaps = 1
SPECIFICATION Spec
INVARIANTS AtLeastOnce DuplicatesExplained
PROPERTIES TerminalUnlessRedelivered
