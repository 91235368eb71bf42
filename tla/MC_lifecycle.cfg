\* Two goroutines and two jobs, one of a type without a handler and one whose
\* timeout is longer than the limit for draining; one failing call.
CONSTANTS
  j1 = j1  j2 = j2  g1 = g1  g2 = g2
  Jobs = {j1, j2}
  Handled = {j1}
  Timeout <- MCTimeout
  Goroutines = {g1, g2}
  DrainLimit = 1
  Interval = 1
  ActiveAge = 2
  MaxFaults = 1
SPECIFICATION FairSpec
INVARIANTS LifecycleTypeOK AtMostOneAfterStop AbandonedOnlyAtLimit OutcomeIsTheHandlers LiveWorkerIsListed
PROPERTIES ExitsAfterSignal HandlersEnd
