----------------------------- MODULE WorkerPool -----------------------------
(***************************************************************************)
(* The worker goroutines of internal/worker/pool.go.  A goroutine takes    *)
(* one step for each call it makes to Redis or PostgreSQL:                 *)
(*                                                                         *)
(*   idle -> begin -> run -> ackDel -> ackRem -> dbDone -> idle            *)
(*                       \-> nackSet -> nackPush -> nackRem -> dbFail -> idle *)
(*                                                                         *)
(* It runs on the in-memory copy of the record that Dequeue returned.      *)
(***************************************************************************)
EXTENDS RedisQueue, JobStore

CONSTANTS Goroutines,  \* worker goroutines of all pools
          PoolOf,      \* PoolOf[g]: worker ID of the pool g runs in
          Timeout      \* Timeout[j]: ExecutionTimeout of j in ticks

ASSUME PoolAssumption ==
    /\ PoolOf \in [Goroutines -> Workers]
    /\ Timeout \in [Jobs -> Nat \ {0}]

VARIABLE gor           \* gor[g]: what goroutine g is doing

Idle == [pc |-> "idle", job |-> NoJob, rec |-> NoData, due |-> 0, left |-> 0]
AckPcs == {"ackDel", "ackRem"}
NackPcs == {"nackSet", "nackPush", "nackRem"}
GorPcs == {"idle", "begin", "run", "dbDone", "dbFail"} \cup AckPcs \cup NackPcs

PoolTypeOK ==
    gor \in [Goroutines -> [pc : GorPcs, job : Jobs \cup {NoJob},
                            rec : Records \cup {NoData}, due : Nat, left : Nat]]

PoolInit == gor = [g \in Goroutines |-> Idle]

Goto(g, pc) == gor' = [gor EXCEPT ![g].pc = pc]

\* Queue.Dequeue: an entry whose record is gone fails to unmarshal, and the
\* goroutine goes on polling while the entry stays in flight.
Dequeue(g, j) ==
    /\ gor[g].pc = "idle"
    /\ DequeueScript(PoolOf[g], j)
    /\ gor' = IF data[j] = NoData
                THEN gor
                ELSE [gor EXCEPT ![g] = [pc |-> "begin", job |-> j, rec |-> data[j],
                                         due |-> due[j], left |-> Timeout[j]]]
    /\ UNCHANGED db

\* The reply of dequeueScript is lost: the job is in flight, but with nobody.
DequeueLost(g, j) ==
    /\ "reply" \in Faults
    /\ gor[g].pc = "idle"
    /\ DequeueScript(PoolOf[g], j)
    /\ UNCHANGED <<gor, db>>

\* Mutant of BeginExecution: acknowledges before the handler runs.
BeginAcknowledged(g) ==
    /\ gor[g].pc = "begin"
    /\ UpdateJobStatus(gor[g].job, "running", TRUE)
    /\ Goto(g, "run")
    /\ ZRemInflight(PoolOf[g], gor[g].job)

\* executeJob marks the row running; if that fails it continues anyway.
BeginExecution(g) ==
    /\ gor[g].pc = "begin"
    /\ UpdateJobStatus(gor[g].job, "running", TRUE)
    /\ Goto(g, "run")
    /\ UNCHANGED queueVars

\* The handler returns nil before the timeout is noticed.
HandlerSucceeds(g) ==
    /\ gor[g].pc = "run"
    /\ gor' = [gor EXCEPT ![g] = [Idle EXCEPT !.pc = "ackDel", !.job = gor[g].job]]
    /\ UNCHANGED <<queueVars, db>>

\* Nack's first lines: decide between retry and DLQ, on the in-memory record.
Nacked(h) ==
    IF IsRetryable(h.rec)
      THEN [h EXCEPT !.pc = "nackSet", !.left = 0, !.rec = Retried(h.rec),
                     !.due = NextRetryTime(Retried(h.rec))]
      ELSE [h EXCEPT !.pc = "nackSet", !.left = 0, !.rec.status = "dead_letter"]

\* The handler returns an error or panics, or no handler has this job type.
HandlerFails(g) ==
    /\ gor[g].pc = "run"
    /\ gor' = [gor EXCEPT ![g] = Nacked(@)]
    /\ UNCHANGED <<queueVars, db>>

\* Mutant of TimesOut: a timeout is taken for success.
TimesOutAsSuccess(g) ==
    /\ gor[g].pc = "run" /\ gor[g].left = 0
    /\ Goto(g, "ackDel")
    /\ UNCHANGED <<queueVars, db>>

\* ctx.Done() wins the select of runWithRecovery.
TimesOut(g) ==
    /\ gor[g].pc = "run" /\ gor[g].left = 0
    /\ gor' = [gor EXCEPT ![g] = Nacked(@)]
    /\ UNCHANGED <<queueVars, db>>

-----------------------------------------------------------------------------
(* Acknowledge, then the row. *)

AckDel(g) ==
    /\ gor[g].pc = "ackDel"
    /\ DelData(gor[g].job)
    /\ Goto(g, "ackRem")
    /\ UNCHANGED db

AckRem(g) ==
    /\ gor[g].pc = "ackRem"
    /\ ZRemInflight(PoolOf[g], gor[g].job)
    /\ Goto(g, "dbDone")
    /\ UNCHANGED db

MarkCompleted(g) ==
    /\ gor[g].pc = "dbDone"
    /\ UpdateJobStatus(gor[g].job, "completed", FALSE)
    /\ gor' = [gor EXCEPT ![g] = Idle]
    /\ UNCHANGED queueVars

-----------------------------------------------------------------------------
(* Nack, then the row. *)

NackSet(g) ==
    /\ gor[g].pc = "nackSet"
    /\ Store(gor[g].job, gor[g].rec, gor[g].due,
             IF gor[g].rec.status = "pending" THEN DataTTL ELSE DLQTTL)
    /\ Goto(g, "nackPush")
    /\ UNCHANGED db

\* Requeue pushes to the ready list and leaves the in-flight entry alone.
NackPush(g) ==
    /\ gor[g].pc = "nackPush"
    /\ IF gor[g].rec.status = "pending"
         THEN Push(gor[g].job) /\ Goto(g, "dbFail")
         ELSE PushDLQ(gor[g].job) /\ Goto(g, "nackRem")
    /\ UNCHANGED db

NackRem(g) ==
    /\ gor[g].pc = "nackRem"
    /\ ZRemInflight(PoolOf[g], gor[g].job)
    /\ Goto(g, "dbFail")
    /\ UNCHANGED db

\* Mutant of MarkFailed: executeJob goes on to handleJobSuccess.
MarkFailedFallsThrough(g) ==
    /\ gor[g].pc = "dbFail"
    /\ UpdateJobStatus(gor[g].job, "dead_letter", FALSE)
    /\ Goto(g, "dbDone")
    /\ UNCHANGED queueVars

\* handleJobError asks IsRetryable again, of the record Nack has changed.
MarkFailed(g) ==
    /\ gor[g].pc = "dbFail"
    /\ UpdateJobStatus(gor[g].job,
                       IF IsRetryable(gor[g].rec) THEN "failed" ELSE "dead_letter", FALSE)
    /\ gor' = [gor EXCEPT ![g] = Idle]
    /\ UNCHANGED queueVars

-----------------------------------------------------------------------------
(* Failures *)

\* Mutant of PipelineAborts: an error of Nack ends in the success path.
AbortsCompleted(g) ==
    /\ "abort" \in Faults
    /\ gor[g].pc \in AckPcs \cup NackPcs
    /\ Goto(g, "dbDone")
    /\ UNCHANGED <<queueVars, db>>

\* Mutant of PipelineAborts: a failed Acknowledge is taken for a failed job.
AbortsFailed(g) ==
    /\ "abort" \in Faults
    /\ gor[g].pc \in AckPcs \cup NackPcs
    /\ Goto(g, "dbFail")
    /\ UNCHANGED <<queueVars, db>>

\* The pipeline of Acknowledge or Nack breaks off: an error is logged and the
\* row is updated all the same.
PipelineAborts(g) ==
    /\ "abort" \in Faults
    /\ gor[g].pc \in AckPcs \cup NackPcs
    /\ Goto(g, IF gor[g].pc \in AckPcs THEN "dbDone" ELSE "dbFail")
    /\ UNCHANGED <<queueVars, db>>

\* UpdateJobStatus fails: an error is logged and the goroutine moves on.
UpdateFails(g) ==
    /\ "db" \in Faults
    /\ gor[g].pc \in {"begin", "dbDone", "dbFail"}
    /\ gor' = [gor EXCEPT ![g] = IF @.pc = "begin" THEN [@ EXCEPT !.pc = "run"] ELSE Idle]
    /\ UNCHANGED <<queueVars, db>>

\* The worker process dies and is restarted under the same worker ID.
CrashPool(w) ==
    /\ \E g \in Goroutines : PoolOf[g] = w /\ gor[g].pc # "idle"
    /\ gor' = [g \in Goroutines |-> IF PoolOf[g] = w THEN Idle ELSE gor[g]]
    /\ UNCHANGED <<queueVars, db>>

PoolTick ==
    gor' = [g \in Goroutines |-> [gor[g] EXCEPT !.left = Earlier(@), !.due = Earlier(@)]]
=============================================================================
