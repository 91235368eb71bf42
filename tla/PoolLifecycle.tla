--------------------------- MODULE PoolLifecycle ----------------------------
(***************************************************************************)
(* One worker process from cmd/worker/main.go to its exit: the signal      *)
(* handler, Pool.Start and Pool.Shutdown, the worker goroutines with the   *)
(* goroutine that runs each handler, and the heartbeats.  Redis and the    *)
(* job rows are reduced to the jobs that can be taken and how they ended   *)
(* (WorkerPool has the calls); a job is taken once.                        *)
(***************************************************************************)
EXTENDS Naturals, FiniteSets

CONSTANTS Jobs,
          Handled,     \* jobs whose type has a registered handler
          Timeout,     \* Timeout[j]: ExecutionTimeout of j, in ticks
          Goroutines,  \* Concurrency worker goroutines
          DrainLimit,  \* the 30 s of Start, in ticks
          Interval,    \* HeartbeatInterval, in ticks
          ActiveAge,   \* since of GetActiveWorkers, in ticks
          MaxFaults    \* bound: failing calls

NoJob == "no job"

ASSUME LifecycleAssumption ==
    /\ Handled \subseteq Jobs /\ NoJob \notin Jobs
    /\ Timeout \in [Jobs -> Nat \ {0}]
    /\ DrainLimit \in Nat \ {0} /\ Interval \in Nat \ {0}
    /\ ActiveAge \in Nat /\ ActiveAge > Interval
    /\ MaxFaults \in Nat

VARIABLES proc,      \* where main is in Start
          sig,       \* what the signal goroutine has done
          drain,     \* ticks since Start saw stopChan closed
          gor,       \* gor[g]: a worker goroutine and its job
          queue,     \* jobs that Dequeue can return
          left,      \* left[j]: ticks until the context of j times out
          handler,   \* handler[j]: the goroutine that runs the handler of j
          done,      \* done[j]: the channel it reports on
          acked,     \* jobs that went through handleJobSuccess
          nacked,    \* jobs that went through handleJobError
          beat,      \* the heartbeat row and the loop's ticker
          faults,    \* how many calls have failed
          effect,    \* jobs whose handler returned nil
          extra      \* extra[g]: jobs g took after Shutdown

vars == <<proc, sig, drain, gor, queue, left, handler, done, acked, nacked, beat,
          faults, effect, extra>>
jobVars == <<queue, left, handler, done, acked, nacked, effect>>

Never == ActiveAge + 1

Stopped == sig = "handled"           \* stopChan is closed
Cancelled == sig \in {"cancelled", "handled"}   \* the root context is done
Alive == proc # "exited"

GorPcs == {"none", "check", "dequeue", "backoff", "sleep", "begin", "running", "ack", "nack", "exited"}

\* Every variable keeps its type, and a goroutine past Dequeue has a job.
LifecycleTypeOK ==
    /\ proc \in {"starting", "launching", "serving", "draining", "exited"}
    /\ sig \in {"none", "received", "cancelled", "handled"}
    /\ drain \in 0 .. DrainLimit /\ faults \in 0 .. MaxFaults
    /\ gor \in [Goroutines -> [pc : GorPcs, job : Jobs \cup {NoJob}]]
    /\ \A g \in Goroutines :
         gor[g].job # NoJob <=> gor[g].pc \in {"begin", "running", "ack", "nack"}
    /\ left \in [Jobs -> Nat] /\ \A j \in Jobs : left[j] <= Timeout[j]
    /\ handler \in [Jobs -> {"none", "executing", "sending", "ended"}]
    /\ done \in [Jobs -> {"empty", "true", "false"}]
    /\ acked \cup nacked \cup queue \cup effect \subseteq Jobs
    /\ beat \in [age : 0 .. Never, timer : 0 .. Interval, excused : BOOLEAN]
    /\ extra \in [Goroutines -> Nat]

Init ==
    /\ proc = "starting" /\ sig = "none" /\ drain = 0
    /\ gor = [g \in Goroutines |-> [pc |-> "none", job |-> NoJob]]
    /\ queue = Jobs
    /\ left = Timeout
    /\ handler = [j \in Jobs |-> "none"]
    /\ done = [j \in Jobs |-> "empty"]
    /\ acked = {} /\ nacked = {} /\ effect = {}
    /\ beat = [age |-> Never, timer |-> 0, excused |-> FALSE]
    /\ faults = 0
    /\ extra = [g \in Goroutines |-> 0]

Fault == faults < MaxFaults /\ faults' = faults + 1

-----------------------------------------------------------------------------
(* main and Start *)

\* heartbeat: the upsert of RecordHeartbeat, or an error that is only logged;
\* excused notes that the row may be out of date from then on.
Beat(ok) == beat' = IF ok THEN [beat EXCEPT !.age = 0, !.timer = 0]
                          ELSE [beat EXCEPT !.timer = 0, !.excused = TRUE]

\* The initial heartbeat uses the root context.
InitialHeartbeat ==
    /\ proc = "starting"
    /\ proc' = "launching"
    /\ \/ Beat(~Cancelled) /\ UNCHANGED faults
       \/ ~Cancelled /\ Fault /\ Beat(FALSE)
    /\ UNCHANGED <<sig, drain, gor, jobVars, extra>>

\* The heartbeat loop and the worker goroutines start.
Launch ==
    /\ proc = "launching"
    /\ proc' = "serving"
    /\ gor' = [g \in Goroutines |-> [pc |-> "check", job |-> NoJob]]
    /\ UNCHANGED <<sig, drain, jobVars, beat, faults, extra>>

Signal ==
    /\ Alive /\ sig = "none"
    /\ sig' = "received"
    /\ UNCHANGED <<proc, drain, gor, jobVars, beat, faults, extra>>

\* Mutant of HandleSignal: cancel() alone, which the workers do not look at.
HandleSignalCancels ==
    /\ Alive /\ sig = "received"
    /\ sig' = "cancelled"
    /\ UNCHANGED <<proc, drain, gor, jobVars, beat, faults, extra>>

\* The signal goroutine: cancel(), then pool.Shutdown().
HandleSignal ==
    /\ Alive /\ sig \in {"received", "cancelled"}
    /\ sig' = IF sig = "received" THEN "cancelled" ELSE "handled"
    /\ UNCHANGED <<proc, drain, gor, jobVars, beat, faults, extra>>

StopSeen ==
    /\ proc = "serving" /\ Stopped
    /\ proc' = "draining"
    /\ UNCHANGED <<sig, drain, gor, jobVars, beat, faults, extra>>

\* Mutant of Exit: Start does not wait for its workers.
ExitAtOnce ==
    /\ proc = "draining"
    /\ proc' = "exited"
    /\ UNCHANGED <<sig, drain, gor, jobVars, beat, faults, extra>>

\* All workers are done or the limit is over: Start returns, and the process ends
\* with whatever is still running.
Exit ==
    /\ proc = "draining"
    /\ (\A g \in Goroutines : gor[g].pc = "exited") \/ drain = DrainLimit
    /\ proc' = "exited"
    /\ UNCHANGED <<sig, drain, gor, jobVars, beat, faults, extra>>

\* Mutant of HeartbeatLoop: the loop runs on the root context.
HeartbeatLoopOfRoot == proc \in {"serving", "draining"} /\ ~Cancelled

\* The context of heartbeatLoop is its own and ends when Start returns.
HeartbeatLoop == proc \in {"serving", "draining"}

Heartbeat ==
    /\ HeartbeatLoop /\ beat.timer = Interval
    /\ \/ Beat(TRUE) /\ UNCHANGED faults
       \/ Fault /\ Beat(FALSE)
    /\ UNCHANGED <<proc, sig, drain, gor, jobVars, extra>>

-----------------------------------------------------------------------------
(* worker *)

At(g, pc) == Alive /\ gor[g].pc = pc
Goto(g, pc) == gor' = [gor EXCEPT ![g].pc = pc]

\* Mutant of Check: only the wait for an empty queue looks at stopChan.
CheckNothing(g) ==
    /\ At(g, "check")
    /\ Goto(g, "dequeue")
    /\ UNCHANGED <<proc, sig, drain, jobVars, beat, faults, extra>>

\* The top of the loop.
Check(g) ==
    /\ At(g, "check")
    /\ Goto(g, IF Stopped THEN "exited" ELSE "dequeue")
    /\ UNCHANGED <<proc, sig, drain, jobVars, beat, faults, extra>>

\* Dequeue returns a job, and executeJob sets its deadline.
Dequeue(g, j) ==
    /\ At(g, "dequeue") /\ j \in queue
    /\ queue' = queue \ {j}
    /\ gor' = [gor EXCEPT ![g] = [pc |-> "begin", job |-> j]]
    /\ extra' = IF Stopped THEN [extra EXCEPT ![g] = @ + 1] ELSE extra
    /\ UNCHANGED <<proc, sig, drain, left, handler, done, acked, nacked, effect, beat, faults>>

DequeueNothing(g) ==
    /\ At(g, "dequeue")
    /\ \/ queue = {} /\ Goto(g, "backoff") /\ UNCHANGED faults
       \/ Fault /\ Goto(g, "sleep")
    /\ UNCHANGED <<proc, sig, drain, jobVars, beat, extra>>

\* The wait for an empty queue sees stopChan, the sleep after an error does not.
WaitEnds(g) ==
    /\ \/ At(g, "backoff") /\ (Goto(g, "check") \/ (Stopped /\ Goto(g, "exited")))
       \/ At(g, "sleep") /\ Goto(g, "check")
    /\ UNCHANGED <<proc, sig, drain, jobVars, beat, faults, extra>>

\* executeJob marks the row running and looks the handler up in the registry.
BeginExecution(g) ==
    /\ At(g, "begin")
    /\ IF gor[g].job \in Handled
         THEN Goto(g, "running") /\ handler' = [handler EXCEPT ![gor[g].job] = "executing"]
         ELSE Goto(g, "nack") /\ UNCHANGED handler
    /\ UNCHANGED <<proc, sig, drain, queue, left, done, acked, nacked, effect, beat, faults, extra>>

\* The handler returns nil, or an error or a panic, perhaps after its deadline.
HandlerReturns(j, ok) ==
    /\ Alive /\ handler[j] = "executing"
    /\ handler' = [handler EXCEPT ![j] = "sending"]
    /\ effect' = IF ok THEN effect \cup {j} ELSE effect
    /\ UNCHANGED <<proc, sig, drain, gor, queue, left, done, acked, nacked, beat, faults, extra>>

\* Mutant of HandlerReports: the channel has no buffer.
HandlerReportsUnbuffered(j) ==
    /\ Alive /\ handler[j] = "sending" /\ done[j] = "empty"
    /\ \E g \in Goroutines : gor[g] = [pc |-> "running", job |-> j]
    /\ done' = [done EXCEPT ![j] = IF j \in effect THEN "true" ELSE "false"]
    /\ handler' = [handler EXCEPT ![j] = "ended"]
    /\ UNCHANGED <<proc, sig, drain, gor, queue, left, acked, nacked, effect, beat, faults, extra>>

\* Mutant of HandlerReports: a recovered panic is reported as success.
HandlerReportsTrue(j) ==
    /\ Alive /\ handler[j] = "sending" /\ done[j] = "empty"
    /\ done' = [done EXCEPT ![j] = "true"]
    /\ handler' = [handler EXCEPT ![j] = "ended"]
    /\ UNCHANGED <<proc, sig, drain, gor, queue, left, acked, nacked, effect, beat, faults, extra>>

\* done <- (err == nil), or false from the deferred recover; it has room for one.
HandlerReports(j) ==
    /\ Alive /\ handler[j] = "sending" /\ done[j] = "empty"
    /\ done' = [done EXCEPT ![j] = IF j \in effect THEN "true" ELSE "false"]
    /\ handler' = [handler EXCEPT ![j] = "ended"]
    /\ UNCHANGED <<proc, sig, drain, gor, queue, left, acked, nacked, effect, beat, faults, extra>>

\* The select of runWithRecovery takes either branch when both are ready.
RunEnds(g) ==
    LET j == gor[g].job IN
    /\ At(g, "running")
    /\ \/ /\ done[j] # "empty"
          /\ Goto(g, IF done[j] = "true" THEN "ack" ELSE "nack")
          /\ done' = [done EXCEPT ![j] = "empty"]
       \/ /\ left[j] = 0
          /\ Goto(g, "nack")
          /\ UNCHANGED done
    /\ UNCHANGED <<proc, sig, drain, queue, left, handler, acked, nacked, effect, beat, faults, extra>>

\* Mutant of Settle: the goroutine keeps the job it has finished.
SettleKeeps(g) ==
    /\ \/ At(g, "ack") /\ acked' = acked \cup {gor[g].job} /\ UNCHANGED nacked
       \/ At(g, "nack") /\ nacked' = nacked \cup {gor[g].job} /\ UNCHANGED acked
    /\ Goto(g, "check")
    /\ UNCHANGED <<proc, sig, drain, queue, left, handler, done, effect, beat, faults, extra>>

\* handleJobSuccess or handleJobError, and back to the top of the loop.
Settle(g) ==
    /\ \/ At(g, "ack") /\ acked' = acked \cup {gor[g].job} /\ UNCHANGED nacked
       \/ At(g, "nack") /\ nacked' = nacked \cup {gor[g].job} /\ UNCHANGED acked
    /\ gor' = [gor EXCEPT ![g] = [pc |-> "check", job |-> NoJob]]
    /\ UNCHANGED <<proc, sig, drain, queue, left, handler, done, effect, beat, faults, extra>>

-----------------------------------------------------------------------------
Running(j) == \E g \in Goroutines : gor[g].job = j

\* Time: a heartbeat that is due and not written, or a loop that does not
\* start, excuses an old row.
Tick ==
    /\ drain' = IF proc = "draining" /\ drain < DrainLimit THEN drain + 1 ELSE drain
    /\ left' = [j \in Jobs |-> IF Running(j) /\ left[j] > 0 THEN left[j] - 1 ELSE left[j]]
    /\ beat' = [age |-> IF beat.age < Never THEN beat.age + 1 ELSE Never,
                timer |-> IF HeartbeatLoop /\ beat.timer < Interval
                            THEN beat.timer + 1 ELSE beat.timer,
                excused |-> \/ beat.excused \/ proc = "launching"
                            \/ HeartbeatLoop /\ beat.timer = Interval]
    /\ UNCHANGED <<proc, sig, gor, queue, handler, done, acked, nacked, faults, effect, extra>>

MainNext == InitialHeartbeat \/ Launch \/ HandleSignal \/ StopSeen \/ Exit

WorkerNext(g) ==
    \/ Check(g) \/ (\E j \in Jobs : Dequeue(g, j)) \/ DequeueNothing(g) \/ WaitEnds(g)
    \/ BeginExecution(g) \/ RunEnds(g) \/ Settle(g)

Next ==
    \/ MainNext \/ Signal \/ Heartbeat \/ Tick
    \/ \E g \in Goroutines : WorkerNext(g)
    \/ \E j \in Jobs : HandlerReports(j) \/ \E ok \in BOOLEAN : HandlerReturns(j, ok)

Spec == Init /\ [][Next]_vars

\* Goroutines run and time passes; a handler need not return, and no signal need come.
FairSpec ==
    /\ Spec
    /\ WF_vars(MainNext) /\ WF_vars(Tick) /\ WF_vars(Heartbeat)
    /\ \A g \in Goroutines : WF_vars(WorkerNext(g))
    /\ \A j \in Jobs : WF_vars(HandlerReports(j))

-----------------------------------------------------------------------------
\* After Shutdown a goroutine takes at most the one job whose Dequeue was already
\* under way, whatever it was doing when stopChan was closed.
AtMostOneAfterStop == \A g \in Goroutines : extra[g] <= 1

Taken == Jobs \ queue

\* The process exits with a job that was taken and not settled only when the limit
\* of Start has passed: otherwise every in-flight job is finished first.
AbandonedOnlyAtLimit ==
    proc = "exited" /\ drain < DrainLimit => Taken \subseteq acked \cup nacked

\* The outcome of a job is what its handler did: acknowledged only if it returned
\* nil, negatively acknowledged after it returned nil only if it was out of time.
OutcomeIsTheHandlers ==
    /\ acked \subseteq effect
    /\ \A j \in nacked \cap effect : left[j] = 0
    /\ acked \cap nacked = {}

GetActiveWorkers == beat.age < ActiveAge

\* A worker that is serving or draining is listed by GetActiveWorkers, unless a
\* heartbeat failed or was late: the loop goes on until Start returns.
LiveWorkerIsListed ==
    proc \in {"serving", "draining"} /\ ~beat.excused => GetActiveWorkers

\* After a signal the process exits, even if a handler never returns, and is not
\* listed as an active worker for ever.
ExitsAfterSignal == sig = "received" ~> proc = "exited" /\ ~GetActiveWorkers

\* A handler that returns can report its result and end, although the worker may
\* have stopped waiting for it: no goroutine is leaked.
HandlersEnd == \A j \in Jobs : handler[j] = "sending" ~> handler[j] = "ended" \/ ~Alive
=============================================================================
