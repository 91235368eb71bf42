\* A DistributedLock and a TryAcquire on one key; three faults.
CONSTANTS
  m1 = m1  p1 = p1
  Clients = {m1, p1}
  Managed = {m1}
  Orphan = Orphan
  TTL = 6
  MaxLag = 1
  MaxFaults = 3
SPECIFICATION ManagedFairSpec
INVARIANTS ManagedTypeOK HeldIsOwned LapsesOnlyAfterFailure ReleasedStaysReleased
PROPERTIES WaiterReturns
