\* Two requests, two jobs and a walk with pages of one row.
CONSTANTS
  j1 = j1  j2 = j2  r1 = r1  r2 = r2
  Jobs = {j1, j2}
  Priority <- MCPriority
  MaxRetries = 0
  Backoff <- MCBackoff
  Requests = {r1, r2}
  CreatedAt <- MCCreatedAt
  Limit = 1
  Filters = {"any", "completed"}
\* Jobs that were submitted and not enqueued, and a walk that is over, stay as they are.
CHECK_DEADLOCK FALSE
SPECIFICATION ApiSpec
INVARIANTS ApiTypeOK WalkListsAll OneDeleteSucceeds RowUntilDeleted
