# A TLA+ verification of the distributed task scheduler

This directory models the scheduler's own logic, checks it with TLC on small
instances, and proves the properties that matter most with TLAPS for every
instance.  Paths below are relative to the repository root (`src/` here).

The repository does not compile as committed (unused variables and imports,
`context` not imported in `api.go`, `ReclaimOrphaned` called through an interface
that does not declare it).  None of that touches the logic; the models follow the
code as it is written.

## 1. The system

| Part | State | Operations | Source |
|---|---|---|---|
| Job model | record: status, retry count, ScheduledAt | `IsTerminal`, `IsRetryable`, `NextRetryTime` | `internal/models/job.go` |
| Redis queue | record per job (with TTL), ten ready lists, delayed set, one in-flight set per worker ID, DLQ | `Enqueue`, `Dequeue`, `Acknowledge`, `Nack`, `Requeue`, `MoveDelayed`, `ReclaimOrphaned` | `internal/queue/redis.go` |
| Job store | row per job: status, worker_id, ... | `CreateJob`, `GetJob`, `UpdateJobStatus`, `DeleteJob` | `internal/store/postgres.go` |
| Lock | key with a token and a TTL | `Acquire`, `Release`; `Extend`, `TryAcquire`, `DistributedLock` with auto-extend, no caller yet | `internal/lock/redis_lock.go` |
| Worker pool | goroutines, each with a job in memory; a goroutine per handler; a stop channel; a heartbeat row | poll, execute with timeout, acknowledge or nack, update the row; start, shutdown, heartbeat | `internal/worker/pool.go`, `cmd/worker/main.go` |
| Scheduler core | three loops, API requests, cron definitions in memory | submit, retry, delete; move delayed jobs; reclaim orphans; fire cron jobs | `internal/scheduler/` |
| Retry executor, circuit breaker | attempt and delay; breaker state, failures, a channel used as try-lock | `Execute`, `calculateBackoff`; `Allow`, `RecordSuccess`, `RecordFailure`; no caller yet | `internal/retry/retry.go` |
| HTTP API | none of its own | submit, get, delete, retry, list, each one or two SQL statements | `internal/scheduler/api.go` |
| Handlers, metrics, wiring | none that decides anything | | `handler.go`, `prometheus.go`, `cmd/` |

Schedulers and worker pools are separate processes, any number of each.  They
interact only through Redis and PostgreSQL.  A submission inserts a row, then runs
the enqueue script.  A worker pops a job into the in-flight set of its worker ID,
marks the row running, runs the handler on its copy of the record, and then
acknowledges (record and in-flight entry deleted, row completed) or nacks (record
rewritten, DLQ entry, in-flight entry deleted, row dead_letter).  Each scheduler
moves due delayed jobs every second under a lock with a TTL of 5 s, and every 30 s
requeues in-flight entries older than two minutes, without a lock.

What is hard here: Lua scripts are atomic but pipelines are not; nothing spans
Redis and PostgreSQL; in-flight entries are keyed by worker ID and job only, so two
deliveries of a job to one worker ID share an entry; a job may run twice at once;
locks expire under their holder; replies get lost after the effect; processes die
between any two calls; a call that its caller gave up may still run.  Inside a
process a handler may report just when its deadline passes, and a signal may come at
any step of its goroutines.  `PROJECT.json` lists these hazards with the lines where
they bite and the properties aimed at each.

What makes the parts correct:

* queue and workers: an enqueued job stays deliverable until it succeeded, was
  dead-lettered or was deleted by its client (at-least-once); it is delivered more than
  once only for a reason; it does not start before its time; it is eventually settled;
* store: `completed` and `dead_letter` mean what they say, the latter unless Nack itself
  failed;
* lock: a late release does not take it from its new holder; a client that relies on
  it owns the key unless the key expired, which auto-extension prevents;
* worker process: it finishes its jobs before it exits, within a limit, reports what
  handlers did, leaks no goroutine, and is listed while it lives;
* retry: the backoff is waited out, every attempt is made, the breaker opens and
  recovers unless callers keep meeting at its lock;
* API: a row lives from the submission to the one successful deletion, and a walk
  through the pages misses nothing that was there all along;
* cron: a run is enqueued once, and none is passed over without cause.

## 2. Modules

| Module | Models |
|---|---|
| `JobModel` | the record, its statuses, retry rule and backoff table |
| `RedisQueue` | Redis state; one operator per Lua script and per pipelined command; key expiry |
| `JobStore` | the `jobs` table, one operator per SQL statement |
| `RedisLock` | the key of the delayed-job lock: acquire, compare-and-delete, expiry |
| `WorkerPool` | a worker goroutine, one action per call it makes; crash of a pool |
| `SchedulerCore` | submit, retry and delete requests; the delayed-job loop; the reclaim loop; crash of a scheduler |
| `TaskScheduler` | all of these composed, with the clock; history variables; the properties |
| `MCTaskScheduler` | constant values for TLC |
| `TaskSchedulerProofs` | theorems about `TaskScheduler`: types, at-least-once delivery, completed rows, the lock |
| `SingleDeliveryProofs` | theorems about `TaskScheduler`: the DLQ, scheduled times, duplicates |
| `Delivery` | what the scheduler promises of its jobs, as an abstract specification |
| `DeliveryRefinement` | the mapping under which `TaskScheduler` implements `Delivery` |
| `DeliveryRefinementProofs` | theorems: terminal rows are final, and the refinement |
| `ManagedLock`, `MCManagedLock` | `TryAcquire`, `Release`, and `DistributedLock` with its `autoExtend` goroutine, on the key of `RedisLock` |
| `ManagedLockProofs` | the theorems about `ManagedLock` |
| `CircuitBreaker` | the breaker and its try-lock |
| `RetryExecutor`, `MCRetryExecutor` | `Execute` and `calculateBackoff`, for callers that share a breaker |
| `RetryExecutorProofs` | the theorems about `RetryExecutor` and the breaker |
| `PoolLifecycle`, `MCPoolLifecycle` | a worker process from start to exit: signal, drain, handler goroutines, heartbeats |
| `PoolLifecycleProofs` | the theorems about `PoolLifecycle` |
| `JobApi`, `MCJobApi` | concurrent API requests, workers and a page-by-page listing on the table of `JobStore` |
| `JobApiProofs` | the theorems about `JobApi` |
| `CronEngine`, `MCCronEngine` | cron parser, registration and cron loop of one scheduler; values for TLC |
| `CronEngineProofs` | the theorems about `CronEngine` |

Correspondence.  A thread is a record with a program counter; a step of it is one
call to Redis or PostgreSQL with the local code up to the next call.  `gor[g]` is a
goroutine of `Pool.worker` and carries the in-memory job; `api[r]` a request;
`mover[s]` and `reclaimer[s]` the passes of `processDelayedJobs` and
`reclaimOrphanedJobs`.  A Lua script is one step; the commands of a pipeline are one
step each.  `PROJECT.json` maps every definition to its lines.

Time is counted in ticks.  In `TaskScheduler` a score or expiry is stored as the
number of ticks left, so no behaviour ends at a time bound; `Tick` decreases all of
them at once.  There is one clock: skew between hosts is not modelled.

Failures are parameters.  `Faults` chooses among `reply` (a script ran, its reply was
lost; for a script this also covers go-redis' own resending), `abort` (a command, and
what its pipeline had left, did not run), `read` (a GET or ZCARD failed on an existing
key) and `db` (a statement did not run).  A pipeline that ran, lost its reply and is
sent again, with a second LPUSH, is not among them.  Crashes are always
possible.  `MaxMishaps` bounds crashes, failing calls and client retries together.

Abstractions.  Type, payload and texts of a job are its identity.  `RetryCount` is
counted to one above `MaxRetries`; no test in the code tells larger values apart.
`SCAN` is a snapshot of the non-empty in-flight keys; a SCAN that fails half-way is
several skipped keys.  Records never fail to parse except when they are gone.  A
handler is a choice between success, failure and running into its timeout.  The
tickers of the two loops are left out: a pass may start whenever its loop is idle.
A crashed process may go on at once under the same worker ID, as a restarted
container does under docker-compose or in its pod; one that never comes back is a
pool that stays idle.  (`cmd/worker/main.go:18` says an empty `WORKER_ID` is
auto-generated; it is not, all such pools share one in-flight key.  That is the
configuration with one element in `Workers`.)  `GetJob` fails on a NULL worker_id,
so RetryJob and DeleteJob work only once a worker has touched the row (`Readable`).
The constraint `chk_cron_valid` of `migrations/001_init.sql:76` rejects rows whose
cron columns are `''` and NULL, which is what `CreateJob` writes for a plain job;
the models assume the schema of `docs/ARCHITECTURE.md:430`, without it.

`CronEngine` numbers minutes and takes the calendar, minute number to five field
values, as a constant.  `ParseCron` is the first matching minute within
`MaxIterations`.  `matchCronField` keeps the code's branches: a step or a range
counts only as a whole field; in a list only plain numbers are compared.  The map
of definitions is in memory and each instance is a new job, so engines of different
schedulers share nothing and one process is modelled.  The clock is absolute and
stops at `LastMinute`.

`ManagedLock` gives each call three steps: it is sent, it runs in Redis, it is
answered.  A caller may give up in between (a timeout, a cancelled context, a crash),
and the call then stays in `stray` until Redis runs it, if ever.  A client is one use
of the lock, so its name stands for its random token; tokens nobody knows any more
are all called `Orphan`.  The ticker of `autoExtend` keeps one tick for a late
receiver, as Go's does.  Neither `DistributedLock` nor `TryAcquire` has a caller in the
repository: the scheduler uses plain `Acquire` and `Release`, which `SchedulerCore`
models; who uses a managed lock, and when its context ends (`Cancel`), is left open.
`paused` notes a goroutine that was late by more than
`MaxLag`, or a reply that took longer than a tick.

`CircuitBreaker` runs a method in two steps, taking `mu` and the body, so that another
caller can find `mu` taken.  `RetryExecutor` has no caller in the repository; its
function (ask the breaker, call the service, record the outcome) is modelled from the
comments of the file and marked external.  `calculateBackoff` is computed in
two's complement of `WordBits` bits: `1 << n` is 0 from that width on, and the product
wraps.

`PoolLifecycle` leaves the calls to Redis and PostgreSQL to `WorkerPool` and keeps
what happens inside the process: `stopChan` (`Stopped`), the root context
(`Cancelled`), the 30 s of `Start` (`drain`), the worker goroutines, the goroutine of
each handler with its buffered channel (`handler`, `done`), the heartbeat row
(`beat`).  A handler may return nil, fail or panic, after its deadline too, or never.

`JobApi` takes one step per SQL statement of a request.  A page is any set of rows
that `ORDER BY created_at LIMIT OFFSET` may return, for any order of equal times.
Requests that are refused at once change nothing and are left out.

`Delivery` knows neither lists nor passes: a job is new, owed, settled or excused, an
execution is open or ended in success or failure, a row has a status.  The mapping takes
a job for owed while it is in a ready list, in the delayed set or in an in-flight set
with its record.  A job whose row a client deleted is excused (`Withdraw`): the promise
of delivery ends there, although the code goes on to deliver a copy that is left in
Redis (see the disagreements below).  An unsettled job that is nowhere maps to a state that `Delivery`
does not have, so the refinement fails if one is ever lost.

## 3. Properties and runs

Passing runs (two workers each, well under five minutes):

| Run | Instance | Checks |
|---|---|---|
| `crash` | one job, two pools, one reclaimer, two crashes | `TypeOK`, `AtLeastOnce`, `CompletedOnlyIfSucceeded` |
| `delayed` | two jobs of different priority, two schedulers, lock of two ticks, batch of one, one crash | `NotBeforeScheduled`, `DuplicatesExplained`, `AtLeastOnce`, `LockKeptForItsHolder` |
| `client` | one job, two goroutines of one pool, one reclaimer, a client that retries and deletes | `AtLeastOnce`, `DuplicatesExplained`, `TerminalUnlessRedelivered` |
| `faults` | one job, both loops, all operations, every kind of failing call, expiring records | `CompletedOnlyIfSucceeded`, `DeadLetterIsInDLQ`, `ImplementsDelivery` |
| `live` | one job, both loops, one crash, fairness | `EventuallySettled` |
| `cron` | two definitions, passes longer than a minute, one failing call, restarts | `CronTypeOK`, `OncePerRun`, `SkipsOnlyBacklog` |
| `lock` | a `DistributedLock` and a `TryAcquire`, TTL of six ticks, three faults | `ManagedTypeOK`, `HeldIsOwned`, `LapsesOnlyAfterFailure`, `ReleasedStaysReleased`, `WaiterReturns` |
| `retry` | two callers, threshold two, four retries, delays of four bits with a cap of two ticks | `TypeOK`, `TrialEndsAtFirstFailure`, `WaitsOutBackoff`, `ExhaustedAfterAllCalls`, `ExecuteReturns`, `RecoversUnlessContended`, `OpensUnlessContended` |
| `lifecycle` | two goroutines, a job whose timeout exceeds the drain limit and one without a handler, one failing call | `LifecycleTypeOK`, `AtMostOneAfterStop`, `AbandonedOnlyAtLimit`, `OutcomeIsTheHandlers`, `LiveWorkerIsListed`, `ExitsAfterSignal`, `HandlersEnd` |
| `listing` | two requests, two jobs, pages of one row | `ApiTypeOK`, `WalkListsAll`, `OneDeleteSucceeds`, `RowUntilDeleted` |

* `AtLeastOnce`: from its Enqueue until an execution succeeded, it entered the DLQ or
  its client deleted it, a job is in a ready list, the delayed set or an in-flight set,
  and its record exists.  Four things are excepted, each a definition: `BeingRemoved` (a
  reclaimer is about to remove the entry a Dequeue writes), `Finishing` (a retry
  enqueues a job whose last run has yet to delete its record or entry), an expired
  record, a failed read.
* `DuplicatesExplained`: a job waits or is held once, unless it was reclaimed,
  retried, enqueued twice after a lost reply, left half moved, or moved by passes
  that overlapped after the lock had expired.
* `NotBeforeScheduled`: a job that was never requeued does not start early.
* `CompletedOnlyIfSucceeded`: a row says completed only if an execution succeeded.
* `DeadLetterIsInDLQ`: a row says dead_letter only if the job is in the DLQ, whatever
  else fails.  The exception, kept in `brokenOff`, is a job one of whose own Nacks broke
  off before its LPUSH: `handleJobError` marks its row all the same.
* `LockKeptForItsHolder`: a pass that outlived the TTL does not release the lock of
  the scheduler that acquired it since.
* `EventuallySettled`: an enqueued job is eventually settled.
* `ImplementsDelivery`: `TaskScheduler` is an implementation of `Delivery`: an
  enqueued job stays deliverable until it is settled or withdrawn, only enqueued jobs are
  executed, every status was written by a client or by an execution that ended so.
* `TerminalUnlessRedelivered`: a terminal row changes only through `RetryJob` or
  `DeleteJob`, or for a job with a reason to be delivered twice.
* `OncePerRun`: a matching minute yields one instance, unless Enqueue ran and
  returned an error, or ParseCron found no next run.
* `SkipsOnlyBacklog`: a matching minute that is passed over began while an earlier
  run of the definition was still open.

* `HeldIsOwned`: a client that relies on the lock owns the key unless the key expired
  under it, whatever late releases and extensions run.  `LapsesOnlyAfterFailure`: under
  a `DistributedLock` it expires only if an Extend failed or a goroutine was late.
  `ReleasedStaysReleased`: no late Extend brings a released key back.
  `WaiterReturns`: a `TryAcquire` returns although owners crash or a reply was lost.
* `TrialEndsAtFirstFailure`: a circuit on trial opens again at the first failure,
  unless a success recorded while it was open reset the count.  `WaitsOutBackoff`: the
  documented delay, doubled each time up to the cap, is waited out as long as it fits the
  word.
  `ExhaustedAfterAllCalls`: Execute gives up after exactly `MaxRetries + 1` calls.
  `ExecuteReturns`: it returns.  `RecoversUnlessContended`, `OpensUnlessContended`: the
  circuit follows the service unless records are dropped at `mu` again and again.
* `AtMostOneAfterStop`: after Shutdown a goroutine takes at most the job whose Dequeue
  was under way.  `AbandonedOnlyAtLimit`: the process leaves a job unfinished only when
  the limit has passed.  `OutcomeIsTheHandlers`: a job is acknowledged only if its
  handler returned nil, and nacked in spite of it only when out of time.
  `LiveWorkerIsListed`: also while it drains.  `ExitsAfterSignal`, `HandlersEnd`:
  the process exits, and a handler that returns can end its goroutine.
* `WalkListsAll`: a walk misses no row that matched from its first page to its last,
  unless one stopped matching or two have equal times, where OFFSET skips rows.
  `OneDeleteSucceeds`: one of several DELETEs is answered 204.  `RowUntilDeleted`: a
  row exists from the 201 to the 204, and no worker or retry that was under way shows the
  job live or finished after it.

Runs that show a disagreement between the code and what its comments or documents
say (details under `findings` in `PROJECT.json`):

| Run | Statement | What the code does |
|---|---|---|
| `lost` | "prevents job loss when workers crash" (`redis.go:584`) | Requeue, redelivery to the same worker ID, then the reclaimer's ZREM, then a crash: the job is nowhere |
| `dlq` | "exceeding max retries are routed to DLQ" (`README.md:109`) | the first failure dead-letters: `IsRetryable` asks for a status nothing sets |

Other disagreements met while modelling, which the properties name as exceptions
instead of having a run of their own:

* `README.md:109` "routed to DLQ for manual inspection": `handleJobError` logs an error
  of Nack (`pool.go:352`) and marks the row dead_letter although the pipeline broke off
  before its LPUSH; the DLQ does not have the job, which is in flight until the reclaimer
  requeues it (`brokenOff` in `DeadLetterIsInDLQ`).
* `scheduler.go:300` "DeleteJob removes a job from the system": it deletes the row and
  nothing else.  A job that was run, retried and is deleted while it waits in a ready list
  stays there with its record and is executed (`AtLeastOnce` and `Delivery` ask nothing of
  a deleted job, neither that it stays nor that it goes).
* `docs/ARCHITECTURE.md:282` "PENDING, CANCELLED, DELETE /jobs/:id" and `:283` for
  RUNNING: the DELETE of a pending job removes its row, that of a running job is refused,
  and nothing ever writes cancelled (`RowUntilDeleted` leaves open whether the row is gone
  or says cancelled).  A pending job that no worker has touched cannot be deleted at all,
  since `GetJob` fails on its NULL worker_id.
* `job.go:122` "earliest time this job can be executed": Requeue computes a
  `ScheduledAt` and makes the job ready at once (`NotBeforeScheduled` speaks of jobs
  never requeued).
* `job.go:69` "terminal state (no further transitions)": a run longer than the stale
  age is duplicated and the later end overwrites the row (`disturbed` in
  `TerminalUnlessRedelivered`).
* `scheduler.go:245` "recovery loop will pick it up": there is none; a row whose
  Enqueue failed stays pending (`Delivery` owes a job only once it is enqueued).
* `job.go:135` "defines the recurring schedule": a cron job whose next match is more
  than 366 days away fires on every pass (the exception of `OncePerRun`).
* `README.md:115` "Workers finish in-flight jobs before exiting": for 30 s, while a
  job may run longer (`AbandonedOnlyAtLimit`).
* `retry.go:141` "min(base * 2^attempt, maxDelay)": not when the product wraps
  (`Fits` in `WaitsOutBackoff`).
* `docs/ARCHITECTURE.md:61` "Multiple scheduler instances with lock-based cron" and `:314`
  "Cron jobs use distributed locks": definitions are in the memory of the scheduler that
  registered them, nothing takes them over when it dies, and the cron loop takes no lock.
* `docs/ARCHITECTURE.md:154` lists orphan reclamation among the locked operations: the
  reclaim loop takes no lock (a reclaim is a reason in `DuplicatesExplained`).
* `cmd/scheduler/main.go`: after a signal the loops stop, the HTTP server goes on and
  the process does not exit.

Bounds.  One job is enough for most runs: deliveries of different jobs interact only in
the ready list, the batch and DEL of a whole in-flight set; `delayed` has two jobs and a
batch of one.  Two goroutines, in one pool or in two, give overlapping deliveries with
shared and with separate in-flight sets.  A stale age, timeout and lock TTL of one or
two ticks lets each expire before, during and after the other's steps, since ticks and
steps interleave freely.  `QueueCap = 3` is not reached with the mishaps allowed except
through repeated reclaims, which it cuts off. `MaxRetries` is 0 in the largest runs and
1 in `delayed`, `live` and `dlq`: the counter has no influence on delivery, since the
retry branch of Nack is dead. In `cron`, matches six minutes apart against a search
limit of five reach the failing search, and two ticks per minute let a pass straddle a
minute. In `lock` a TTL of six ticks gives the ticker a period of two, so that two
extensions fit before the key expires and one that is late by a tick does too; three
faults let an acquisition, an extension and a release fail in one behaviour.  In `retry`
words of four bits give the delays 1, 2 and, under the cap, 2, so that doubling and
capping both show, and the fourth wraps; two callers are what it takes to meet at `mu`.  In
`lifecycle` one job can outlast the drain limit and one cannot.  In `listing` pages of
one row make a walk of three requests, between which rows come, go and
change.  `MCSwapPools` is a symmetry of `crash` only: each goroutine has a pool of its
own there, and no constant tells the pools apart.

Fairness (`FairSpec`).  Weak fairness of each goroutine's steps, of each request's
Enqueue, of each loop and of the clock.  Goroutines poll in an endless loop and
tickers restart the passes, so a step that stays possible is taken; weak fairness
suffices because no step of another thread disables it for ever.  The handler has
no fairness, only the timeout; crashes, failures and client retries have none.

The other modules follow the same rule.  `ManagedFairSpec` adds strong fairness of
`AutoStop`: the select of `autoExtend` picks at random among its ready branches, so it
cannot pass over the closed channel for ever.  It also assumes that the work under a
lock ends.  `RetryExecutor` has no fairness for the service: each liveness property
says what follows if it stays up, or down.  In `PoolLifecycle` no signal need come
and no handler need return.  `JobApi` has no liveness.

## 4. Proofs

Every safety property that a passing run checks, invariant, action property or
refinement, is also a theorem: it holds for every value of the constants that the
modules' assumptions allow, not only on the instances above.  Each proof names an
inductive invariant, shows that `Init` implies it and that every action keeps it (one
lemma per family of actors, one step per action), and derives the property from it.

`TaskSchedulerProofs`, for all sets of jobs, workers, goroutines, schedulers and
requests, all timings, all faults and any number of mishaps:

* `TypeCorrect`: `Spec => []TypeOK`.  The inductive invariant `TypeInv` adds that a
  thread past its first step has a job (and a record), without which the steps that
  write `data[gor[g].job]` would not keep the type.
* `AtLeastOnceHolds`: `Spec => []AtLeastOnce`.  The property is not inductive: the
  reclaimer's ZREM and the mover's ZREM are safe only because the job was pushed
  before, Acknowledge's DEL only because the job is settled.  `DeliveryInv` says so
  for each program counter: `Tracked` (an unsettled job is `Safe`: ready, or in an
  in-flight set that nobody is about to strip of it, or delayed and not about to be
  removed), `FinishedSettled` (a goroutine at a step that deletes holds a settled or
  raced job), `DelayedEnqueued`, `RetryIsReady`.
* `CompletedHolds`: `Spec => []CompletedOnlyIfSucceeded`, from `CompletedInv`: a
  goroutine on the acknowledge path has a job that succeeded.
* `LockKeptHolds`: `Spec => LockKeptForItsHolder`, an action property, from
  `TypeInv`.

`SingleDeliveryProofs`, for the same instances.  It first states what a step of a
goroutine, a loop or a request can change at all (`WorkerShape`, `MoverShape`,
`ReclaimerShape`, `RequestShape`, `LoopSets`), so that each invariant is proved
against these shapes and not against some thirty actions:

* `DeadLetterHolds`: `DeadInv` follows a record that says dead_letter from Nack's first
  lines to the UPDATE: past the LPUSH, or past a pipeline that broke off, the job is in
  the DLQ or in `brokenOff`.  It needs no hypothesis on `Faults`.  It also says that no
  record anywhere says failed.  The latter is what makes the retry branch of Nack dead,
  and shows it.
* `NotBeforeScheduledHolds`: `WaitInv` says that a job whose time has not come and that
  was never requeued is `Quiet`: in no ready list or in-flight set, with no goroutine,
  in no loop's hands, its score not below its waiting time, in the request that is
  enqueuing it too.
* `DuplicatesExplainedHolds`: `SingleInv` says that an undisturbed job waits once or is
  held once, and that meanwhile nothing has it still to deliver: not the delayed set
  (except in a pass between its LPUSH and its ZREM), not a pass, not a request; and that
  two passes do not overlap while no lock has expired under one (`Mutex`), which is where
  the lock enters the argument.

`DeliveryRefinementProofs`, for the same instances:

* `TerminalUnlessRedeliveredHolds`: `TerminalInv` adds to `SingleInv` that nothing which
  could bring a job with a terminal row to a goroutine again is left (`Over`).
* `ImplementsDeliveryHolds`: `Spec => Promise!DeliverySpec`.  With `AtLeastOnce` an owed
  job that was not deleted is deliverable, so the mapping gives the four states of
  `Delivery` and never a fifth (`StageIs`).  `EnteredInv` (a job never enqueued is
  `Quiet`, only enqueued jobs are settled) is what the abstract guard of `HandOut`
  needs, `RowInv` (no row before the submission) what `Accept` needs, `BornInv` (an
  enqueued job was submitted, so that no row means deleted) what `Withdraw` and the
  handling of deleted jobs need.  One lemma per action of `Delivery` restates it on the
  mapped state, one per family of concrete actions names the abstract step.

`ManagedLockProofs`, for any set of clients, any number of faults and a TTL of at least
three ticks (`Acquire` starts a ticker of `ttl/3`, which must not be zero):

* `ManagedTypeCorrect`.
* `HeldIsOwnedHolds`: `Ownership` adds that a release still on its way belongs to a
  client that is done.
* `ReleasedStaysReleasedHolds`: `ReleasedIsDone`.
* `LapsesOnlyAfterFailureHolds`, under the hypothesis `ExtendPeriod + MaxLag < TTL`: the
  ticker's period and the tolerated lateness leave something of the TTL.  The code's
  `ttl/3` gives it for a lag below two thirds of the TTL; with a longer one an extension
  that does not count as late could come too late.  `Punctual` bounds what the key has
  lost of its TTL by the ticker's phase.

`RetryExecutorProofs`, for any number of callers, thresholds, cool-downs, delays and
any word size:

* `TrialEndsAtFirstFailureHolds`: inductive with the breaker's types.
* `RetryTypeCorrect`: `Counting` bounds the attempts, `Inside` says who is inside the
  breaker's try-lock.
* `ExhaustedAfterAllCallsHolds`: `Counting` ties calls to attempts at each program
  counter.
* `WaitsOutBackoffHolds`: `Backoffs` says that a waiting caller's delay is one that
  `calculateBackoff` gives for its attempt; lemmas about shifts and wrap-around in two's
  complement show that this is the documented delay when that fits the word.  Powers of
  two are handled as numbers of subsets, since induction is not available.

`PoolLifecycleProofs`, for any number of goroutines, jobs, timeouts and limits:

* `LifecycleTypeCorrect`.
* `LiveWorkerIsListedHolds`: `BeatInv`, the row is no older than the ticker has counted.
* `AtMostOneAfterStopHolds`: `ExtraInv`, a goroutine that took a job after the stop is
  past its poll.
* `AbandonedOnlyAtLimitHolds`: `Custody` (each job is in the queue, with one goroutine,
  or settled) and `CleanExit`.
* `OutcomeIsTheHandlersHolds`: `Outcomes` relates the handler's effect, its buffered
  report and the verdict of the goroutine that waited for it, through timeouts.

`JobApiProofs`, for any finite set of jobs, any page size and any order of creation
times:

* `ApiTypeCorrect`, `OneDeleteSucceedsHolds`, `RowUntilDeletedHolds` from `CoreInv`: a
  job that was inserted has a row or one successful deletion.
* `WalkListsAllHolds`: `ShownOrAhead`, a counting argument: a row that is to be shown and
  was not yet has at least OFFSET matching rows before it.

`CronEngineProofs`, for every calendar, set of expressions, search limit and length of
the minute:

* `CronTypeCorrect`: `Spec => []CronTypeOK`.  It needs `CronBusy` (a pass's `now` is
  not ahead of the clock, the job it fires is registered and due) and the lemma
  `ParseCronAfter`: a result of `ParseCron` is the failure or a later minute.
* `OncePerRunHolds`: `Spec => []OncePerRun`, from `RunInv`: nothing fires before
  registration, and a minute that has fired lies before `CronNextRun`, or is
  `CronNextRun` in a pass that is about to advance it.  The advance keeps this
  because the run it leaves has begun by the clock (`MinuteBounds`) and `ParseCron`
  answers with a minute after the clock's.
* `SkipsOnlyBacklogHolds`: `Spec => SkipsOnlyBacklog`, an action property, from
  `BacklogInv` (a minute that began after the open run is in the backlog) and
  `ParseCronLeast`: no matching minute lies between the clock's and the result.

The proofs use the assumptions of the modules, which TLC evaluates in the runs: sizes
and timings are natural numbers, `Priority` maps into `0 .. 9`, `Backoff` is defined up
to `MaxRetries + 1`, minutes and expressions are well formed, the values that stand for
"no job" and "nobody" are no jobs and no schedulers, the jobs of the table are finitely
many, a managed TTL has three ticks.  `ExtendPeriod + MaxLag < TTL` is the only further
hypothesis of a theorem.

Only model-checked: liveness (`EventuallySettled`, `WaiterReturns`, `ExecuteReturns`,
`RecoversUnlessContended`, `OpensUnlessContended`, `ExitsAfterSignal`, `HandlersEnd`).
Reasoning from fairness needs ENABLED, which is outside the prover's reach.

## 5. Not modelled

The scheduler process (its loops stop at a signal, its HTTP server does not), job
history and statistics (read only), `PruneOldHeartbeats`, `CanTransitionTo`, `IsStale`
and `ShouldRetry` (no callers; the last decides as `Execute` does), HTTP parsing and
rendering, metrics (nothing reads them back), what the example handlers simulate,
configuration and deployment files, clock skew between hosts, pipelines that go-redis
sends a second time.

## 6. Plan

Done: the core modules and their composition, the cron engine, managed locks, the
retry executor and circuit breaker, the worker process, the API on the table, the
abstract specification of delivery; every safety property of the passing runs and the
refinement proved, 29 theorems in eight modules.

Next, in this order:

1. Shorter proofs where a lemma repeats a case of another, above all in
   `SingleDeliveryProofs` and `TaskSchedulerProofs`.
2. What a theorem excepts and could bound more tightly: which reclaim makes a job
   `disturbed`, and how often a job can be delivered after it.
3. Two reclaimers in place of a run that then says less.
4. Pipelines sent again after a lost reply, as a further kind in `Faults`.
