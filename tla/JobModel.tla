------------------------------ MODULE JobModel ------------------------------
(***************************************************************************)
(* The job record of internal/models/job.go: its statuses, the retry rule  *)
(* and the backoff.  Only the fields that steer control are kept; type and *)
(* payload are the job's identity, the priority is fixed at creation.      *)
(***************************************************************************)
EXTENDS Integers

CONSTANTS Jobs,        \* job identities (uuid.New never repeats one)
          Priority,    \* Priority[j]: the priority of j, fixed for its life
          MaxRetries,  \* max_retries, the same for every job
          Backoff      \* Backoff[n]: baseDelay * (1 << n) of NextRetryTime, in ticks

ASSUME PriorityAssumption == Priority \in [Jobs -> 0 .. 9]
ASSUME RetryAssumption ==
    MaxRetries \in 0 .. 20 /\ Backoff \in [0 .. MaxRetries + 1 -> Nat]

NoJob == "no job"      \* where a thread holds no job
ASSUME JobAssumption == NoJob \notin Jobs

Statuses == {"pending", "running", "completed", "failed", "dead_letter", "cancelled"}

IsTerminal(status) == status \in {"completed", "dead_letter", "cancelled"}

\* The record as Redis stores it and workers hold it in memory.  RetryCount is
\* counted to one above the limit: no test of the code tells larger counts apart.
Records == [status : Statuses, retryCount : 0 .. MaxRetries + 1]

NewJob == [status |-> "pending", retryCount |-> 0]

IsRetryable(rec) == rec.retryCount < MaxRetries /\ rec.status = "failed"

\* RetryCount++, up to that bound.
Increment(n) == IF n > MaxRetries THEN n ELSE n + 1

\* Time from now to NextRetryTime(5 * time.Second), jitter left out.
NextRetryTime(rec) == Backoff[rec.retryCount]

\* Mutant of Retried: a status outside the enumeration.
RetriedUnknown(rec) == [status |-> "retrying", retryCount |-> rec.retryCount]

\* What Nack and ReclaimOrphaned do to the record they send back to a ready queue.
Retried(rec) == [status |-> "pending", retryCount |-> Increment(rec.retryCount)]
=============================================================================
