---------------------------- MODULE SchedulerCore ---------------------------
(***************************************************************************)
(* The scheduler process of internal/scheduler: API requests (SubmitJob,   *)
(* RetryJob, DeleteJob), the delayed-job loop with MoveDelayed, and the    *)
(* reclaim loop with ReclaimOrphaned.  Each request, and each loop of each *)
(* scheduler, is a thread that takes one step per call to Redis or         *)
(* PostgreSQL.  The tickers are left out: a loop may start a pass whenever *)
(* it is idle.                                                             *)
(***************************************************************************)
EXTENDS RedisQueue, JobStore, RedisLock

CONSTANTS Requests,   \* API request goroutines
          HostOf,     \* HostOf[r]: the scheduler process that serves r
          Delays,     \* times from submission to the requested scheduled_at
          BatchSize,  \* batchSize of MoveDelayed (1000)
          Movers,     \* schedulers whose delayed-job loop is included
          Reclaimers, \* schedulers whose reclaim loop is included
          Ops         \* API operations that are included

ASSUME CoreAssumption ==
    /\ HostOf \in [Requests -> Schedulers]
    /\ Delays \subseteq Nat
    /\ BatchSize \in Nat \ {0}
    /\ Movers \subseteq Schedulers /\ Reclaimers \subseteq Schedulers
    /\ Ops \subseteq {"submit", "retry", "delete"}

VARIABLES api,        \* api[r]: the request r is serving
          mover,      \* mover[s]: the delayed-job loop of s
          reclaimer   \* reclaimer[s]: the reclaim loop of s

coreVars == <<api, mover, reclaimer>>

NoWorker == "no worker"

\* evalReady and evalDelayed: EvalSha failed, the full script is sent with the
\* ARGVs, and so the routing, of the first attempt.
ApiPcs == {"idle", "enqueue", "evalReady", "evalDelayed", "retryUpdate", "delete"}
MoverPcs == {"idle", "scan", "get", "exec", "rem", "release"}
ReclaimerPcs == {"idle", "scan", "next", "set", "push", "rem", "drop", "del"}

IdleApi == [pc |-> "idle", op |-> "none", job |-> NoJob, wait |-> 0]
IdleMover == [pc |-> "idle", todo |-> {}, moves |-> {}, drops |-> {}, job |-> NoJob]
IdleReclaimer == [pc |-> "idle", keys |-> {}, key |-> NoWorker, todo |-> {},
                  job |-> NoJob, rec |-> NoData]

CoreTypeOK ==
    /\ api \in [Requests -> [pc : ApiPcs, op : {"none", "submit", "retry", "delete"},
                             job : Jobs \cup {NoJob}, wait : Nat]]
    /\ mover \in [Schedulers -> [pc : MoverPcs, todo : SUBSET Jobs, moves : SUBSET Jobs,
                                 drops : SUBSET Jobs, job : Jobs \cup {NoJob}]]
    /\ reclaimer \in [Schedulers -> [pc : ReclaimerPcs, keys : SUBSET Workers,
                                     key : Workers \cup {NoWorker}, todo : SUBSET Jobs,
                                     job : Jobs \cup {NoJob}, rec : Records \cup {NoData}]]

CoreInit ==
    /\ api = [r \in Requests |-> IdleApi]
    /\ mover = [s \in Schedulers |-> IdleMover]
    /\ reclaimer = [s \in Schedulers |-> IdleReclaimer]

-----------------------------------------------------------------------------
(* API requests *)

\* SubmitJob up to CreateJob; j is new.
Submit(r, j, wait) ==
    /\ "submit" \in Ops /\ api[r].pc = "idle"
    /\ CreateJob(j)
    /\ api' = [api EXCEPT ![r] = [pc |-> "enqueue", op |-> "submit", job |-> j, wait |-> wait]]
    /\ UNCHANGED <<queueVars, lock, mover, reclaimer>>

EnqueuePcs == {"enqueue", "evalReady", "evalDelayed"}

ToReady(a) == a.pc = "evalReady" \/ (a.pc = "enqueue" /\ a.wait = 0)

\* Where a request goes when an attempt returned an error: from EvalSha to Eval,
\* from Eval to the error that SubmitJob logs and RetryJob returns.
AfterError(a) ==
    IF a.pc = "enqueue"
      THEN [a EXCEPT !.pc = IF a.wait = 0 THEN "evalReady" ELSE "evalDelayed"]
      ELSE IdleApi

\* Mutant of Enqueue: a retry pushes the ID and does not write the record anew.
EnqueueRetryPushes(r) ==
    /\ api[r].pc \in EnqueuePcs
    /\ IF api[r].op = "retry"
         THEN Push(api[r].job)
         ELSE EnqueueScript(api[r].job, NewJob, api[r].wait, ToReady(api[r]))
    /\ api' = [api EXCEPT ![r] = IdleApi]
    /\ UNCHANGED <<db, lock, mover, reclaimer>>

\* EvalSha or Eval succeeds.
Enqueue(r) ==
    /\ api[r].pc \in EnqueuePcs
    /\ EnqueueScript(api[r].job, NewJob, api[r].wait, ToReady(api[r]))
    /\ api' = [api EXCEPT ![r] = IdleApi]
    /\ UNCHANGED <<db, lock, mover, reclaimer>>

\* EvalSha or Eval ran, but its reply was lost.
EnqueueReplyLost(r) ==
    /\ "reply" \in Faults
    /\ api[r].pc \in EnqueuePcs
    /\ EnqueueScript(api[r].job, NewJob, api[r].wait, ToReady(api[r]))
    /\ api' = [api EXCEPT ![r] = AfterError(@)]
    /\ UNCHANGED <<db, lock, mover, reclaimer>>

\* EvalSha or Eval did not run (NOSCRIPT after a Redis restart, no connection).
EnqueueFails(r) ==
    /\ "abort" \in Faults
    /\ api[r].pc \in EnqueuePcs
    /\ api' = [api EXCEPT ![r] = AfterError(@)]
    /\ UNCHANGED <<queueVars, db, lock, mover, reclaimer>>

\* RetryJob: GetJob, and the status must be terminal.
Retry(r, j) ==
    /\ "retry" \in Ops /\ api[r].pc = "idle"
    /\ Readable(j) /\ IsTerminal(db[j].status)
    /\ api' = [api EXCEPT ![r] = [pc |-> "retryUpdate", op |-> "retry", job |-> j, wait |-> 0]]
    /\ UNCHANGED <<queueVars, db, lock, mover, reclaimer>>

\* RetryJob: the row is pending again, unless it has been deleted meanwhile.
RetryUpdate(r) ==
    /\ api[r].pc = "retryUpdate"
    /\ UpdateJobStatus(api[r].job, "pending", FALSE)
    /\ api' = [api EXCEPT ![r] = IF Exists(@.job) THEN [@ EXCEPT !.pc = "enqueue"] ELSE IdleApi]
    /\ UNCHANGED <<queueVars, lock, mover, reclaimer>>

\* DeleteJob: GetJob, and the job must not be running.
Delete(r, j) ==
    /\ "delete" \in Ops /\ api[r].pc = "idle"
    /\ Readable(j) /\ db[j].status # "running"
    /\ api' = [api EXCEPT ![r] = [pc |-> "delete", op |-> "delete", job |-> j, wait |-> 0]]
    /\ UNCHANGED <<queueVars, db, lock, mover, reclaimer>>

\* DeleteJob: the row goes; Redis is not touched.
DeleteJob(r) ==
    /\ api[r].pc = "delete"
    /\ DeleteRow(api[r].job)
    /\ api' = [api EXCEPT ![r] = IdleApi]
    /\ UNCHANGED <<queueVars, lock, mover, reclaimer>>

\* The UPDATE of RetryJob or the DELETE of DeleteJob fails: the client gets the error.
StatementFails(r) ==
    /\ "db" \in Faults
    /\ api[r].pc \in {"retryUpdate", "delete"}
    /\ api' = [api EXCEPT ![r] = IdleApi]
    /\ UNCHANGED <<queueVars, db, lock, mover, reclaimer>>

-----------------------------------------------------------------------------
(* The delayed-job loop *)

moverFrame == <<db, api, reclaimer>>

\* processDelayedJobs gets the lock; when it does not, the pass is over.
MoverAcquire(s) ==
    /\ s \in Movers /\ mover[s].pc = "idle"
    /\ Acquire(s)
    /\ mover' = [mover EXCEPT ![s].pc = "scan"]
    /\ UNCHANGED <<queueVars, moverFrame>>

\* The key is set but the reply is lost: the pass is over and the key stays.
MoverAcquireLost(s) ==
    /\ "reply" \in Faults
    /\ s \in Movers /\ mover[s].pc = "idle"
    /\ Acquire(s)
    /\ UNCHANGED <<queueVars, mover, moverFrame>>

\* ZRANGEBYSCORE 0 now, the batch.
Batches == {B \in SUBSET DueJobs : \/ Cardinality(B) = BatchSize
                                   \/ Cardinality(B) < BatchSize /\ B = DueJobs}

\* Mutant of MoverScan: takes the batch out of the delayed set as it reads it.
MoverScanPops(s, B) ==
    /\ mover[s].pc = "scan"
    /\ mover' = [mover EXCEPT ![s] = [@ EXCEPT !.pc = IF B = {} THEN "release" ELSE "get",
                                               !.todo = B]]
    /\ delayed' = [j \in Jobs |-> IF j \in B THEN Absent ELSE delayed[j]]
    /\ UNCHANGED <<data, ttl, due, ready, inflight, dlq, lock, moverFrame>>

MoverScan(s, B) ==
    /\ mover[s].pc = "scan"
    /\ mover' = [mover EXCEPT ![s] = [@ EXCEPT !.pc = IF B = {} THEN "release" ELSE "get",
                                               !.todo = B]]
    /\ UNCHANGED <<queueVars, lock, moverFrame>>

\* GET of one member: found is FALSE when the key is gone or the call failed.
MoverGet(s, j, found) ==
    /\ mover[s].pc = "get" /\ j \in mover[s].todo
    /\ mover' = [mover EXCEPT ![s] =
                   [@ EXCEPT !.pc = IF mover[s].todo = {j} THEN "exec" ELSE "get",
                             !.todo = mover[s].todo \ {j},
                             !.moves = mover[s].moves \cup (IF found THEN {j} ELSE {}),
                             !.drops = mover[s].drops \cup (IF found THEN {} ELSE {j})]]
    /\ UNCHANGED <<queueVars, lock, moverFrame>>

\* The pipeline: LPUSH then ZREM for a job with data ...
MoverPush(s, j) ==
    /\ mover[s].pc = "exec" /\ j \in mover[s].moves
    /\ Push(j)
    /\ mover' = [mover EXCEPT ![s] = [@ EXCEPT !.pc = "rem", !.job = j,
                                               !.moves = mover[s].moves \ {j}]]
    /\ UNCHANGED <<lock, moverFrame>>

MoverRem(s) ==
    /\ mover[s].pc = "rem"
    /\ ZRemDelayed(mover[s].job)
    /\ mover' = [mover EXCEPT ![s] = [@ EXCEPT !.pc = "exec", !.job = NoJob]]
    /\ UNCHANGED <<lock, moverFrame>>

\* ... ZREM alone for a job without.
MoverDrop(s, j) ==
    /\ mover[s].pc = "exec" /\ j \in mover[s].drops
    /\ ZRemDelayed(j)
    /\ mover' = [mover EXCEPT ![s].drops = @ \ {j}]
    /\ UNCHANGED <<lock, moverFrame>>

MoverRelease(s) ==
    /\ \/ mover[s].pc = "release"
       \/ mover[s].pc = "exec" /\ mover[s].moves = {} /\ mover[s].drops = {}
    /\ Release(s)
    /\ mover' = [mover EXCEPT ![s] = IdleMover]
    /\ UNCHANGED <<queueVars, moverFrame>>

\* The scan or the pipeline fails, and the deferred Release still runs; or
\* Release itself fails, and its error is ignored.
MoverAborts(s) ==
    /\ "abort" \in Faults
    /\ mover[s].pc \in {"scan", "exec", "rem", "release"}
    /\ mover' = [mover EXCEPT ![s] =
                   [IdleMover EXCEPT !.pc = IF mover[s].pc = "release" THEN "idle" ELSE "release"]]
    /\ UNCHANGED <<queueVars, lock, moverFrame>>

-----------------------------------------------------------------------------
(* The reclaim loop, which takes no lock *)

reclaimFrame == <<db, lock, api, mover>>

\* SCAN scheduler:inflight:*: the sets that are not empty.
ReclaimStart(s) ==
    /\ s \in Reclaimers /\ reclaimer[s].pc = "idle"
    /\ \E w \in Workers : InFlight(w) # {}
    /\ reclaimer' = [reclaimer EXCEPT ![s] =
                       [@ EXCEPT !.pc = "scan", !.keys = {w \in Workers : InFlight(w) # {}}]]
    /\ UNCHANGED <<queueVars, reclaimFrame>>

\* ZRANGEBYSCORE of one key up to the cutoff.
ReclaimKey(s, w) ==
    /\ reclaimer[s].pc = "scan" /\ w \in reclaimer[s].keys
    /\ reclaimer' = [reclaimer EXCEPT ![s] =
                       [@ EXCEPT !.pc = "next", !.keys = reclaimer[s].keys \ {w},
                                 !.key = w, !.todo = Stale(w)]]
    /\ UNCHANGED <<queueVars, reclaimFrame>>

\* GET of one stale entry; found as in MoverGet.
ReclaimGet(s, j, found) ==
    /\ reclaimer[s].pc = "next" /\ j \in reclaimer[s].todo
    /\ reclaimer' = [reclaimer EXCEPT ![s] =
                       [@ EXCEPT !.pc = IF found THEN "set" ELSE "drop",
                                 !.todo = reclaimer[s].todo \ {j}, !.job = j,
                                 !.rec = IF found THEN Retried(data[j]) ELSE NoData]]
    /\ UNCHANGED <<queueVars, reclaimFrame>>

Continue(s) ==
    reclaimer' = [reclaimer EXCEPT ![s] =
                    [@ EXCEPT !.pc = "next", !.job = NoJob, !.rec = NoData]]

\* Requeue: SET, then LPUSH on the ready list whatever ScheduledAt says ...
ReclaimSet(s) ==
    /\ reclaimer[s].pc = "set"
    /\ Store(reclaimer[s].job, reclaimer[s].rec, NextRetryTime(reclaimer[s].rec), DataTTL)
    /\ reclaimer' = [reclaimer EXCEPT ![s].pc = "push"]
    /\ UNCHANGED reclaimFrame

ReclaimPush(s) ==
    /\ reclaimer[s].pc = "push"
    /\ Push(reclaimer[s].job)
    /\ reclaimer' = [reclaimer EXCEPT ![s].pc = "rem"]
    /\ UNCHANGED reclaimFrame

\* ... and ZREM, after Requeue or at once when the data is missing.
ReclaimRem(s) ==
    /\ reclaimer[s].pc \in {"rem", "drop"}
    /\ ZRemInflight(reclaimer[s].key, reclaimer[s].job)
    /\ Continue(s)
    /\ UNCHANGED reclaimFrame

Finish(rc) == [IdleReclaimer EXCEPT !.pc = IF rc.keys = {} THEN "idle" ELSE "scan",
                                    !.keys = rc.keys]

\* ZCARD: an empty set is to be deleted.
ReclaimCard(s) ==
    /\ reclaimer[s].pc = "next" /\ reclaimer[s].todo = {}
    /\ reclaimer' = [reclaimer EXCEPT ![s] =
                       IF InFlight(@.key) = {} THEN [@ EXCEPT !.pc = "del"] ELSE Finish(@)]
    /\ UNCHANGED <<queueVars, reclaimFrame>>

\* ZCARD fails: its error is ignored and the count it returned, 0, is used.
ReclaimCardFails(s) ==
    /\ "read" \in Faults
    /\ reclaimer[s].pc = "next" /\ reclaimer[s].todo = {}
    /\ reclaimer' = [reclaimer EXCEPT ![s].pc = "del"]
    /\ UNCHANGED <<queueVars, reclaimFrame>>

ReclaimDel(s) ==
    /\ reclaimer[s].pc = "del"
    /\ DelInflight(reclaimer[s].key)
    /\ reclaimer' = [reclaimer EXCEPT ![s] = Finish(@)]
    /\ UNCHANGED reclaimFrame

\* Mutant of ReclaimAborts: no continue after a failed Requeue.
AbortsToRem(s) ==
    /\ "abort" \in Faults
    /\ reclaimer[s].pc \in {"set", "push"}
    /\ reclaimer' = [reclaimer EXCEPT ![s].pc = "rem"]
    /\ UNCHANGED <<queueVars, reclaimFrame>>

\* A command fails: ZRANGEBYSCORE skips the key; SET or LPUSH, or an unchecked
\* ZREM, leaves the entry for a later pass; an unchecked DEL leaves the key.
ReclaimAborts(s) ==
    /\ "abort" \in Faults
    /\ \/ /\ reclaimer[s].pc \in {"set", "push", "rem", "drop"}
          /\ Continue(s)
       \/ /\ reclaimer[s].pc = "del"
          /\ reclaimer' = [reclaimer EXCEPT ![s] = Finish(@)]
       \/ \E w \in reclaimer[s].keys :
            /\ reclaimer[s].pc = "scan"
            /\ reclaimer' = [reclaimer EXCEPT ![s] =
                               Finish([@ EXCEPT !.keys = reclaimer[s].keys \ {w}])]
    /\ UNCHANGED <<queueVars, reclaimFrame>>

-----------------------------------------------------------------------------
\* The scheduler process dies, with its requests, and is restarted; a lock it
\* held stays until it expires.
CrashScheduler(s) ==
    /\ \/ \E r \in Requests : HostOf[r] = s /\ api[r].pc # "idle"
       \/ mover[s].pc # "idle"
       \/ reclaimer[s].pc # "idle"
    /\ api' = [r \in Requests |-> IF HostOf[r] = s THEN IdleApi ELSE api[r]]
    /\ mover' = [mover EXCEPT ![s] = IdleMover]
    /\ reclaimer' = [reclaimer EXCEPT ![s] = IdleReclaimer]
    /\ UNCHANGED <<queueVars, db, lock>>

CoreTick ==
    /\ api' = [r \in Requests |-> [api[r] EXCEPT !.wait = Earlier(@)]]
    /\ UNCHANGED <<mover, reclaimer>>
=============================================================================
