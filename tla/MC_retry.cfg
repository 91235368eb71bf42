\* Two callers of one breaker; delays of 1, 2 and, capped, 2 ticks; the fourth wraps below zero.
CONSTANTS
  c1 = c1  c2 = c2
  Callers = {c1, c2}
  Threshold = 2
  Cooldown = 1
  RetryLimit = 4
  BaseDelay = 1
  MaxDelay = 2
  MaxJitter = 2
  Retryable = {"transient", "rejected"}
  WordBits = 4
SPECIFICATION FairSpec
INVARIANTS TypeOK TrialEndsAtFirstFailure WaitsOutBackoff ExhaustedAfterAllCalls
PROPERTIES ExecuteReturns RecoversUnlessContended OpensUnlessContended
