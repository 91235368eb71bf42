---------------------------- MODULE TaskScheduler ---------------------------
(***************************************************************************)
(* Schedulers and worker pools that share one Redis and one PostgreSQL:    *)
(* every action of WorkerPool and SchedulerCore, interleaved, with the     *)
(* clock, crashes and failing calls.  Each action here conjoins a          *)
(* component's action with the history variables the properties speak of;  *)
(* no guard of a component depends on them.                                *)
(***************************************************************************)
EXTENDS WorkerPool, SchedulerCore

CONSTANT MaxMishaps    \* bound: crashes, failing calls and client retries

ASSUME MishapAssumption == MaxMishaps \in Nat

VARIABLES mishaps,     \* how many of them there have been
          born,        \* jobs ever submitted
          enqueued,    \* jobs whose Enqueue has run in Redis
          settled,     \* ... and that since then succeeded or reached the DLQ
          succeeded,   \* jobs some execution of which succeeded
          raced,       \* jobs that met one of the races defined below
          lost,        \* jobs whose record expired, or whose read failed
          brokenOff,   \* jobs for which a Nack broke off before its LPUSH
          disturbed    \* jobs with a reason to be delivered more than once

history ==
    <<mishaps, born, enqueued, settled, succeeded, raced, lost, brokenOff, disturbed>>
vars == <<queueVars, db, lock, gor, coreVars, history>>

HistoryTypeOK ==
    /\ mishaps \in 0 .. MaxMishaps
    /\ born \subseteq Jobs /\ enqueued \subseteq Jobs /\ settled \subseteq Jobs
    /\ succeeded \subseteq Jobs /\ raced \subseteq Jobs /\ lost \subseteq Jobs
    /\ brokenOff \subseteq Jobs /\ disturbed \subseteq Jobs

\* Every variable keeps its type.
TypeOK ==
    QueueTypeOK /\ StoreTypeOK /\ LockTypeOK /\ PoolTypeOK /\ CoreTypeOK /\ HistoryTypeOK

Init ==
    /\ QueueInit /\ StoreInit /\ LockInit /\ PoolInit /\ CoreInit
    /\ mishaps = 0
    /\ born = {} /\ enqueued = {} /\ settled = {} /\ succeeded = {}
    /\ raced = {} /\ lost = {} /\ brokenOff = {} /\ disturbed = {}

Mishap == mishaps < MaxMishaps /\ mishaps' = mishaps + 1

-----------------------------------------------------------------------------
(* The two races that can lose track of a job.                             *)

\* A reclaimer is about to remove the entry of j in the in-flight set of w
\* (ZREM after Requeue or after missing data) or the whole set (DEL after
\* ZCARD): an entry that Dequeue writes now goes with it.
BeingRemoved(w, j) ==
    \E s \in Schedulers :
        /\ reclaimer[s].key = w
        /\ \/ reclaimer[s].pc = "del"
           \/ reclaimer[s].pc \in {"rem", "drop"} /\ reclaimer[s].job = j

\* A goroutine that ran j has yet to delete its record or in-flight entry.
Finishing(j) ==
    \E g \in Goroutines : gor[g].job = j /\ gor[g].pc \in {"ackDel", "ackRem", "nackRem"}

-----------------------------------------------------------------------------
(* Workers *)

WDequeue(g, j) ==
    /\ Dequeue(g, j)
    /\ raced' = IF BeingRemoved(PoolOf[g], j) THEN raced \cup {j} ELSE raced
    /\ UNCHANGED <<lock, coreVars, mishaps, born, enqueued, settled, succeeded, lost, brokenOff,
                   disturbed>>

WDequeueLost(g, j) ==
    /\ DequeueLost(g, j)
    /\ Mishap
    /\ raced' = IF BeingRemoved(PoolOf[g], j) THEN raced \cup {j} ELSE raced
    /\ UNCHANGED <<lock, coreVars, born, enqueued, settled, succeeded, lost, brokenOff,
                   disturbed>>

WSucceed(g) ==
    /\ HandlerSucceeds(g)
    /\ settled' = settled \cup {gor[g].job}
    /\ succeeded' = succeeded \cup {gor[g].job}
    /\ UNCHANGED <<lock, coreVars, mishaps, born, enqueued, raced, lost, brokenOff, disturbed>>

WNackPush(g) ==
    /\ NackPush(g)
    /\ settled' = IF gor'[g].pc = "nackRem" THEN settled \cup {gor[g].job} ELSE settled
    /\ UNCHANGED <<lock, coreVars, mishaps, born, enqueued, succeeded, raced, lost, brokenOff,
                   disturbed>>

WStep(g) ==
    /\ \/ BeginExecution(g) \/ TimesOut(g)
       \/ AckDel(g) \/ AckRem(g) \/ MarkCompleted(g)
       \/ NackSet(g) \/ NackRem(g) \/ MarkFailed(g)
    /\ UNCHANGED <<lock, coreVars, history>>

WFail(g) == HandlerFails(g) /\ UNCHANGED <<lock, coreVars, history>>

WFault(g) ==
    /\ PipelineAborts(g) \/ UpdateFails(g)
    /\ Mishap
    /\ brokenOff' = IF gor[g].pc \in {"nackSet", "nackPush"} THEN brokenOff \cup {gor[g].job}
                                                           ELSE brokenOff
    /\ UNCHANGED <<lock, coreVars, born, enqueued, settled, succeeded, raced, lost, disturbed>>

WCrash(w) ==
    /\ CrashPool(w)
    /\ Mishap
    /\ UNCHANGED <<lock, coreVars, born, enqueued, settled, succeeded, raced, lost, brokenOff,
                   disturbed>>

-----------------------------------------------------------------------------
(* API requests *)

ASubmit(r, j, wait) ==
    /\ j \notin born
    /\ Submit(r, j, wait)
    /\ born' = born \cup {j}
    /\ UNCHANGED <<gor, mishaps, enqueued, settled, succeeded, raced, lost, brokenOff, disturbed>>

\* The script ran: a retried job counts as not settled again.
Entered(r) ==
    /\ enqueued' = enqueued \cup {api[r].job}
    /\ IF api[r].op = "retry"
         THEN /\ settled' = settled \ {api[r].job}
              /\ raced' = IF Finishing(api[r].job) THEN raced \cup {api[r].job} ELSE raced
         ELSE UNCHANGED <<settled, raced>>
    /\ UNCHANGED <<gor, born, succeeded, lost, brokenOff>>

AEnqueue(r) ==
    /\ Enqueue(r)
    /\ Entered(r)
    /\ disturbed' = IF api[r].op = "retry" THEN disturbed \cup {api[r].job} ELSE disturbed
    /\ UNCHANGED mishaps

AEnqueueReplyLost(r) ==
    /\ EnqueueReplyLost(r)
    /\ Entered(r)
    /\ Mishap
    /\ disturbed' = disturbed \cup {api[r].job}

ARetry(r, j) ==
    /\ Retry(r, j)
    /\ Mishap
    /\ UNCHANGED <<gor, born, enqueued, settled, succeeded, raced, lost, brokenOff, disturbed>>

AStep(r) ==
    /\ RetryUpdate(r) \/ DeleteJob(r) \/ \E j \in Jobs : Delete(r, j)
    /\ UNCHANGED <<gor, history>>

AFault(r) ==
    /\ EnqueueFails(r) \/ StatementFails(r)
    /\ Mishap
    /\ UNCHANGED <<gor, born, enqueued, settled, succeeded, raced, lost, brokenOff, disturbed>>

-----------------------------------------------------------------------------
(* Background loops *)

\* The GET of a record that is there fails, and the job is dropped.
LGetFails(s, j) ==
    /\ "read" \in Faults
    /\ data[j] # NoData
    /\ MoverGet(s, j, FALSE) \/ ReclaimGet(s, j, FALSE)
    /\ Mishap
    /\ lost' = lost \cup {j}
    /\ UNCHANGED <<gor, born, enqueued, settled, succeeded, raced, brokenOff, disturbed>>

LCardFails(s) ==
    /\ ReclaimCardFails(s)
    /\ Mishap
    /\ lost' = lost \cup InFlight(reclaimer[s].key)
    /\ UNCHANGED <<gor, born, enqueued, settled, succeeded, raced, brokenOff, disturbed>>

LReclaimPush(s) ==
    /\ ReclaimPush(s)
    /\ disturbed' = disturbed \cup {reclaimer[s].job}
    /\ UNCHANGED <<gor, mishaps, born, enqueued, settled, succeeded, raced, lost, brokenOff>>

LMove(s) ==
    /\ \/ MoverAcquire(s)
       \/ \E B \in Batches : MoverScan(s, B)
       \/ \E j \in Jobs : \/ MoverGet(s, j, data[j] # NoData)
                          \/ MoverPush(s, j)
                          \/ MoverDrop(s, j)
       \/ MoverRem(s) \/ MoverRelease(s)
    /\ UNCHANGED <<gor, history>>

LReclaim(s) ==
    /\ \/ ReclaimStart(s)
       \/ \E w \in Workers : ReclaimKey(s, w)
       \/ \E j \in Jobs : ReclaimGet(s, j, data[j] # NoData)
       \/ ReclaimSet(s) \/ ReclaimRem(s) \/ ReclaimCard(s) \/ ReclaimDel(s)
    /\ UNCHANGED <<gor, history>>

\* A job pushed but not yet removed from the delayed set is pushed again later.
HalfMoved(s) == {j \in Jobs : mover[s].pc = "rem" /\ mover[s].job = j /\ mover'[s].pc # "rem"}

LFault(s) ==
    /\ MoverAborts(s) \/ MoverAcquireLost(s) \/ ReclaimAborts(s)
    /\ Mishap
    /\ disturbed' = disturbed \cup HalfMoved(s)
    /\ UNCHANGED <<gor, born, enqueued, settled, succeeded, raced, lost, brokenOff>>

LCrash(s) ==
    /\ CrashScheduler(s)
    /\ Mishap
    /\ disturbed' = disturbed \cup HalfMoved(s)
    /\ UNCHANGED <<gor, born, enqueued, settled, succeeded, raced, lost, brokenOff>>

-----------------------------------------------------------------------------
\* The lock expires under a pass that still runs: another one may overlap it.
Overrun == lock.holder \in Schedulers /\ lock.ttl <= 1 /\ mover[lock.holder].pc # "idle"

Tick ==
    /\ QueueTick /\ LockTick /\ PoolTick /\ CoreTick
    /\ lost' = lost \cup Expired
    /\ disturbed' = IF Overrun THEN Jobs ELSE disturbed
    /\ UNCHANGED <<db, mishaps, born, enqueued, settled, succeeded, raced, brokenOff>>

WorkerNext(g) ==
    \/ \E j \in Jobs : WDequeue(g, j) \/ WDequeueLost(g, j)
    \/ WSucceed(g) \/ WFail(g) \/ WNackPush(g) \/ WStep(g) \/ WFault(g)

RequestNext(r) ==
    \/ \E j \in Jobs : ARetry(r, j) \/ \E wait \in Delays : ASubmit(r, j, wait)
    \/ AEnqueue(r) \/ AEnqueueReplyLost(r) \/ AStep(r) \/ AFault(r)

LoopNext(s) ==
    \/ LMove(s) \/ LReclaim(s) \/ LReclaimPush(s)
    \/ (\E j \in Jobs : LGetFails(s, j)) \/ LCardFails(s) \/ LFault(s) \/ LCrash(s)

Next ==
    \/ \E g \in Goroutines : WorkerNext(g)
    \/ \E w \in Workers : WCrash(w)
    \/ \E r \in Requests : RequestNext(r)
    \/ \E s \in Schedulers : LoopNext(s)
    \/ Tick

Spec == Init /\ [][Next]_vars

\* Every thread that can take its next step does: goroutines poll in a loop,
\* tickers restart the background loops, a request runs to its end, and time
\* passes.  A handler need not return (the timeout ends its run), and nothing
\* makes a client retry, a process crash or a call fail.
FairSpec ==
    /\ Spec
    /\ WF_vars(Tick)
    /\ \A g \in Goroutines :
         WF_vars((\E j \in Jobs : WDequeue(g, j)) \/ WNackPush(g) \/ WStep(g))
    /\ \A r \in Requests : WF_vars(AEnqueue(r))
    /\ \A s \in Schedulers : WF_vars(LMove(s)) /\ WF_vars(LReclaim(s) \/ LReclaimPush(s))

-----------------------------------------------------------------------------
(* Safety *)

Unsettled == enqueued \ (settled \cup raced \cup lost)

\* At-least-once delivery, the promise of the in-flight sets and ReclaimOrphaned:
\* from its Enqueue until an execution of it succeeded, it reached the DLQ or the
\* client deleted it, a job is in a ready list, in the delayed set or in an in-flight
\* set, with its record, whatever crashes and calls fail in between.  The exceptions
\* are the races named by BeingRemoved and Finishing, an expired record and a failed
\* read.
AtLeastOnce ==
    \A j \in Unsettled :
        Exists(j) =>
            /\ data[j] # NoData
            /\ InReady(j) \/ delayed[j] # Absent \/ \E w \in Workers : inflight[w][j] # Absent

\* The row of a job says completed only if one of its executions succeeded, even
\* when executions of the same job overlap or the client retries it
\* (handleJobSuccess is the only writer of that status).
CompletedOnlyIfSucceeded ==
    \A j \in Jobs : db[j].status = "completed" => j \in succeeded

\* The row of a job says dead_letter only if the job is in the DLQ, where GetDLQ
\* will list it, also when other calls of its worker fail or a reclaim runs it twice.
\* The exception is a job one of whose Nacks broke off before its LPUSH, since
\* handleJobError updates the row all the same.
DeadLetterIsInDLQ ==
    \A j \in Jobs \ brokenOff : db[j].status = "dead_letter" => j \in dlq

Running(j) == {g \in Goroutines : gor[g].job = j}
ReadyAt(j) == {i \in 1 .. Len(ready[Priority[j]]) : ready[Priority[j]][i] = j}

\* A job is delivered once at a time: it is waiting once, or held by one
\* goroutine, unless it was reclaimed, retried, enqueued twice because a reply
\* was lost, left half moved, or moved by passes that overlapped after the lock
\* had expired.  The delayed-job lock is what this rests on.
DuplicatesExplained ==
    \A j \in Jobs \ disturbed : Cardinality(Running(j)) + Cardinality(ReadyAt(j)) <= 1

\* A job that was never requeued does not start before its ScheduledAt: neither
\* Enqueue's routing nor MoveDelayed lets it into a ready list early.
NotBeforeScheduled ==
    \A g \in Goroutines :
        gor[g].pc = "begin" /\ gor[g].rec.retryCount = 0 => gor[g].due = 0

\* A pass that outlived the lock's TTL and releases late does not take the lock
\* from the scheduler that acquired it since (the token check of releaseScript).
LockKeptForItsHolder ==
    [][\A s \in Schedulers :
         lock.holder = s /\ lock.ttl > 1 /\ mover[s].pc # "idle" /\ lock'.holder # s
           => mover'[s].pc = "idle"]_vars

-----------------------------------------------------------------------------
(* Liveness *)

\* A job whose Enqueue has run is eventually executed to success or sent to the
\* DLQ, through crashes of its worker and of the scheduler: MoveDelayed brings
\* it into a ready list, ReclaimOrphaned brings it back from a dead worker.
EventuallySettled ==
    \A j \in Jobs : (j \in enqueued) ~> (j \in settled \cup raced \cup lost)

-----------------------------------------------------------------------------
(* What comments and documents say and the code does not do.               *)

\* "This prevents job loss when workers crash without acknowledging jobs"
\* (ReclaimOrphaned): a job not yet settled is in Redis or held by a goroutine.
JobNeverLost ==
    \A j \in enqueued \ settled :
        \/ InReady(j) \/ delayed[j] # Absent
        \/ \E w \in Workers : inflight[w][j] # Absent
        \/ \E g \in Goroutines : gor[g].job = j

\* "Failed jobs exceeding max retries are routed to DLQ": a record that says
\* dead_letter has used up its retries.
DLQAfterMaxRetries ==
    \A j \in Jobs : data[j].status = "dead_letter" => data[j].retryCount >= MaxRetries
=============================================================================
