------------------------- MODULE PoolLifecycleProofs ------------------------
(***************************************************************************)
(* Proofs about PoolLifecycle, for every set of jobs, any number of worker *)
(* goroutines, all timeouts and intervals and any number of faults: types, *)
(* what Shutdown lets a goroutine still do, which jobs an exit abandons,   *)
(* that the outcome of a job is its handler's, and the heartbeat.          *)
(***************************************************************************)
EXTENDS PoolLifecycle, TLAPS

USE DEF jobVars

-----------------------------------------------------------------------------
(* Types *)

GorStates == [pc : GorPcs, job : Jobs \cup {NoJob}]
HasJob == {"begin", "running", "ack", "nack"}

ProcTypes ==
    /\ proc \in {"starting", "launching", "serving", "draining", "exited"}
    /\ sig \in {"none", "received", "cancelled", "handled"}
    /\ drain \in 0 .. DrainLimit /\ faults \in 0 .. MaxFaults

GorTypes ==
    /\ gor \in [Goroutines -> GorStates]
    /\ \A g \in Goroutines : gor[g].job # NoJob <=> gor[g].pc \in HasJob
    /\ acked \cup nacked \cup queue \cup effect \subseteq Jobs

JobTypes ==
    /\ left \in [Jobs -> Nat] /\ \A j \in Jobs : left[j] <= Timeout[j]
    /\ handler \in [Jobs -> {"none", "executing", "sending", "ended"}]
    /\ done \in [Jobs -> {"empty", "true", "false"}]

BeatTypes == beat \in [age : 0 .. Never, timer : 0 .. Interval, excused : BOOLEAN]
ExtraTypes == extra \in [Goroutines -> Nat]

\* Every step keeps the types of the process and its signals.
LEMMA ProcStep == ProcTypes /\ [Next]_vars => ProcTypes'
<1> SUFFICES ASSUME ProcTypes, [Next]_vars PROVE ProcTypes'
  OBVIOUS
<1> USE LifecycleAssumption DEF ProcTypes
<1>0. Fault => faults' \in 0 .. MaxFaults
  BY DEF Fault
<1>1. ASSUME MainNext PROVE ProcTypes'
  <2>1. ASSUME Launch \/ HandleSignal \/ StopSeen \/ Exit PROVE ProcTypes'
    BY <2>1 DEF Launch, HandleSignal, StopSeen, Exit
  <2>2. ASSUME InitialHeartbeat PROVE ProcTypes'
    BY <2>2, <1>0 DEF InitialHeartbeat
  <2> QED BY <1>1, <2>1, <2>2 DEF MainNext
<1>2. ASSUME Signal \/ Heartbeat \/ Tick PROVE ProcTypes'
  <2>1. CASE Signal
    BY <2>1 DEF Signal
  <2>2. CASE Heartbeat
    BY <2>2, <1>0 DEF Heartbeat
  <2>3. CASE Tick
    BY <2>3 DEF Tick
  <2> QED BY <1>2, <2>1, <2>2, <2>3
<1>3. ASSUME NEW g \in Goroutines, WorkerNext(g) PROVE ProcTypes'
  BY <1>3 DEF WorkerNext, Check, Dequeue, DequeueNothing, WaitEnds, BeginExecution,
     RunEnds, Settle, Fault
<1>4. ASSUME NEW j \in Jobs, HandlerReports(j) \/ \E ok \in BOOLEAN : HandlerReturns(j, ok)
      PROVE  ProcTypes'
  BY <1>4 DEF HandlerReports, HandlerReturns
<1>5. ASSUME UNCHANGED vars PROVE ProcTypes'
  BY <1>5 DEF vars
<1> QED BY <1>1, <1>2, <1>3, <1>4, <1>5 DEF Next

\* What Goto does to the goroutines.
LEMMA GotoGor ==
  ASSUME GorTypes, NEW g \in Goroutines, NEW pc \in GorPcs, Goto(g, pc)
  PROVE  /\ gor' \in [Goroutines -> GorStates]
         /\ gor'[g].pc = pc /\ gor'[g].job = gor[g].job
         /\ \A h \in Goroutines \ {g} : gor'[h] = gor[h]
BY DEF GorTypes, GorStates, Goto

\* Every step keeps the types of the pool's goroutines.
LEMMA GorStep == GorTypes /\ [Next]_vars => GorTypes'
<1> SUFFICES ASSUME GorTypes, [Next]_vars PROVE GorTypes'
  OBVIOUS
<1>1. ASSUME MainNext PROVE GorTypes'
  <2>1. ASSUME Launch PROVE GorTypes'
    BY <2>1, LifecycleAssumption DEF Launch, GorTypes, GorStates, GorPcs, HasJob
  <2>2. ASSUME InitialHeartbeat \/ HandleSignal \/ StopSeen \/ Exit PROVE GorTypes'
    BY <2>2 DEF InitialHeartbeat, HandleSignal, StopSeen, Exit, GorTypes
  <2> QED BY <1>1, <2>1, <2>2 DEF MainNext
<1>2. ASSUME Signal \/ Heartbeat \/ Tick PROVE GorTypes'
  BY <1>2 DEF Signal, Heartbeat, Tick, GorTypes
<1>3. ASSUME NEW g \in Goroutines, NEW from \in GorPcs, NEW to \in GorPcs,
             At(g, from), Goto(g, to), from \in HasJob <=> to \in HasJob,
             UNCHANGED <<queue, acked, nacked, effect>>
      PROVE  GorTypes'
  BY <1>3, GotoGor DEF At, GorTypes
<1>4. ASSUME NEW g \in Goroutines, Check(g) PROVE GorTypes'
  BY <1>3, <1>4 DEF Check, GorPcs, HasJob
<1>5. ASSUME NEW g \in Goroutines, NEW j \in Jobs, Dequeue(g, j) PROVE GorTypes'
  <2>1. [pc |-> "begin", job |-> j] \in GorStates /\ j # NoJob
    BY LifecycleAssumption DEF GorStates, GorPcs
  <2> QED BY <1>5, <2>1 DEF Dequeue, GorTypes, HasJob
<1>6. ASSUME NEW g \in Goroutines, DequeueNothing(g) PROVE GorTypes'
  BY <1>3, <1>6 DEF DequeueNothing, GorPcs, HasJob
<1>7. ASSUME NEW g \in Goroutines, WaitEnds(g) PROVE GorTypes'
  BY <1>3, <1>7 DEF WaitEnds, GorPcs, HasJob
<1>8. ASSUME NEW g \in Goroutines, BeginExecution(g) PROVE GorTypes'
  BY <1>3, <1>8 DEF BeginExecution, GorPcs, HasJob
<1>9. ASSUME NEW g \in Goroutines, RunEnds(g) PROVE GorTypes'
  BY <1>3, <1>9 DEF RunEnds, GorPcs, HasJob
<1>10. ASSUME NEW g \in Goroutines, Settle(g) PROVE GorTypes'
  <2>1. gor[g].job \in Jobs
    BY <1>10 DEF Settle, At, GorTypes, GorStates, HasJob
  <2>2. [pc |-> "check", job |-> NoJob] \in GorStates
    BY DEF GorStates, GorPcs
  <2> QED BY <1>10, <2>1, <2>2 DEF Settle, GorTypes, HasJob
<1>11. ASSUME NEW j \in Jobs, HandlerReports(j) \/ \E ok \in BOOLEAN : HandlerReturns(j, ok)
       PROVE  GorTypes'
  BY <1>11 DEF HandlerReports, HandlerReturns, GorTypes
<1>12. ASSUME UNCHANGED vars PROVE GorTypes'
  BY <1>12 DEF vars, GorTypes
<1> QED
  BY <1>1, <1>2, <1>4, <1>5, <1>6, <1>7, <1>8, <1>9, <1>10, <1>11, <1>12 DEF Next, WorkerNext

\* Every step keeps the types of jobs, queue and outcomes.
LEMMA JobStep == GorTypes /\ JobTypes /\ [Next]_vars => JobTypes'
<1> SUFFICES ASSUME GorTypes, JobTypes, [Next]_vars PROVE JobTypes'
  OBVIOUS
<1> USE DEF JobTypes
<1>1. ASSUME MainNext \/ Signal \/ Heartbeat PROVE JobTypes'
  BY <1>1 DEF MainNext, InitialHeartbeat, Launch, HandleSignal, StopSeen, Exit, Signal, Heartbeat
<1>2. ASSUME Tick PROVE JobTypes'
  BY <1>2, LifecycleAssumption DEF Tick
<1>3. ASSUME NEW g \in Goroutines, WorkerNext(g) PROVE JobTypes'
  BY <1>3 DEF WorkerNext, Check, Dequeue, DequeueNothing, WaitEnds, BeginExecution, RunEnds, Settle
<1>4. ASSUME NEW j \in Jobs, HandlerReports(j) \/ \E ok \in BOOLEAN : HandlerReturns(j, ok)
      PROVE  JobTypes'
  BY <1>4 DEF HandlerReports, HandlerReturns
<1>5. ASSUME UNCHANGED vars PROVE JobTypes'
  BY <1>5 DEF vars
<1> QED BY <1>1, <1>2, <1>3, <1>4, <1>5 DEF Next

-----------------------------------------------------------------------------
(* Heartbeats *)

\* From the initial heartbeat on, the row is no older than the ticker of the loop
\* has counted, unless a heartbeat failed or was late.
BeatIsFresh ==
    proc \in {"launching", "serving", "draining"} => beat.excused \/ beat.age <= beat.timer

BeatInv == BeatTypes /\ BeatIsFresh

\* A heartbeat makes the row fresh, or its failure is recorded.
LEMMA BeatResult ==
  ASSUME BeatTypes, NEW ok \in BOOLEAN, Beat(ok)
  PROVE  BeatTypes' /\ (beat'.excused \/ beat'.age <= beat'.timer)
<1>1. Never \in Nat /\ Interval \in Nat
  BY LifecycleAssumption DEF Never
<1>2. CASE ok
  <2>1. beat' = [beat EXCEPT !.age = 0, !.timer = 0]
    BY <1>2 DEF Beat
  <2>2. 0 \in 0 .. Never /\ 0 \in 0 .. Interval
    BY <1>1
  <2>3. BeatTypes' /\ beat'.age = 0 /\ beat'.timer = 0
    BY <2>1, <2>2 DEF BeatTypes
  <2> QED BY <2>3
<1>3. CASE ~ok
  <2>1. beat' = [beat EXCEPT !.timer = 0, !.excused = TRUE]
    BY <1>3 DEF Beat
  <2>2. 0 \in 0 .. Interval
    BY <1>1
  <2>3. BeatTypes' /\ beat'.excused = TRUE
    BY <2>1, <2>2 DEF BeatTypes
  <2> QED BY <2>3
<1> QED BY <1>2, <1>3

\* Every step keeps the row no older than the ticker has counted, unless excused.
LEMMA BeatStep == ProcTypes /\ BeatInv /\ [Next]_vars => BeatInv'
<1> SUFFICES ASSUME ProcTypes, BeatInv, [Next]_vars PROVE BeatInv'
  OBVIOUS
<1>1. ASSUME NEW ok \in BOOLEAN, Beat(ok) PROVE BeatInv'
  BY <1>1, BeatResult DEF BeatInv, BeatIsFresh
<1>2. ASSUME InitialHeartbeat PROVE BeatInv'
  BY <1>1, <1>2 DEF InitialHeartbeat
<1>3. ASSUME Heartbeat PROVE BeatInv'
  BY <1>1, <1>3 DEF Heartbeat
<1>4. ASSUME Tick PROVE BeatInv'
  <2> DEFINE a == IF beat.age < Never THEN beat.age + 1 ELSE Never
             t == IF HeartbeatLoop /\ beat.timer < Interval THEN beat.timer + 1 ELSE beat.timer
             x == beat.excused \/ proc = "launching" \/ (HeartbeatLoop /\ beat.timer = Interval)
  <2>1. Never \in Nat /\ Interval \in Nat /\ Interval < Never
    BY LifecycleAssumption DEF Never
  <2>2. beat.age \in 0 .. Never /\ beat.timer \in 0 .. Interval
    BY DEF BeatInv, BeatTypes
  <2>3. beat' = [age |-> a, timer |-> t, excused |-> x]
    BY <1>4 DEF Tick
  <2>4. a \in 0 .. Never /\ t \in 0 .. Interval
    BY <2>1, <2>2
  <2>5. x \in BOOLEAN
    OBVIOUS
  <2>6. ASSUME proc \in {"launching", "serving", "draining"} PROVE x \/ a <= t
    <3>1. CASE proc = "launching" \/ beat.excused
      BY <3>1
    <3>2. CASE proc # "launching" /\ ~beat.excused
      <4>1. HeartbeatLoop
        BY <2>6, <3>2 DEF HeartbeatLoop
      <4>2. beat.age <= beat.timer
        BY <2>6, <3>2 DEF BeatInv, BeatIsFresh
      <4>3. CASE beat.timer = Interval
        BY <4>1, <4>3
      <4>4. CASE beat.timer < Interval
        <5>1. t = beat.timer + 1
          BY <4>1, <4>4
        <5>2. a = beat.age + 1
          BY <2>1, <2>2, <4>2
        <5> QED BY <2>2, <4>2, <5>1, <5>2
      <4> QED BY <2>1, <2>2, <4>3, <4>4
    <3> QED BY <3>1, <3>2
  <2> HIDE DEF a, t, x
  <2>7. BeatTypes'
    BY <2>3, <2>4, <2>5 DEF BeatTypes
  <2>8. beat'.age = a /\ beat'.timer = t /\ (beat'.excused <=> x)
    <3>1. beat'.age = a /\ beat'.timer = t
      BY <2>3
    <3>2. beat'.excused <=> x
      BY <2>3
    <3> QED BY <3>1, <3>2
  <2>9. proc' = proc
    BY <1>4 DEF Tick
  <2> QED BY <2>6, <2>7, <2>8, <2>9 DEF BeatInv, BeatIsFresh
<1>5. ASSUME Launch \/ HandleSignal \/ StopSeen \/ Exit \/ Signal PROVE BeatInv'
  BY <1>5 DEF Launch, HandleSignal, StopSeen, Exit, Signal, BeatInv, BeatTypes, BeatIsFresh
<1>6. ASSUME NEW g \in Goroutines, WorkerNext(g) PROVE BeatInv'
  <2>1. UNCHANGED <<beat, proc>>
    BY <1>6 DEF WorkerNext, Check, Dequeue, DequeueNothing, WaitEnds, BeginExecution, RunEnds, Settle
  <2> QED BY <2>1 DEF BeatInv, BeatTypes, BeatIsFresh
<1>7. ASSUME NEW j \in Jobs, HandlerReports(j) \/ \E ok \in BOOLEAN : HandlerReturns(j, ok)
      PROVE  BeatInv'
  BY <1>7 DEF HandlerReports, HandlerReturns, BeatInv, BeatTypes, BeatIsFresh
<1>8. ASSUME UNCHANGED vars PROVE BeatInv'
  BY <1>8 DEF vars, BeatInv, BeatTypes, BeatIsFresh
<1> QED BY <1>2, <1>3, <1>4, <1>5, <1>6, <1>7, <1>8 DEF Next, MainNext

\* The process starts well typed.
LEMMA InitProc == Init => ProcTypes
BY LifecycleAssumption DEF Init, ProcTypes

\* The heartbeat invariant holds at the start.
LEMMA InitBeat == Init => BeatInv
<1> SUFFICES ASSUME Init PROVE BeatInv
  OBVIOUS
<1>1. Never \in 0 .. Never /\ 0 \in 0 .. Interval
  BY LifecycleAssumption DEF Never
<1>2. beat = [age |-> Never, timer |-> 0, excused |-> FALSE] /\ proc = "starting"
  BY DEF Init
<1> QED BY <1>1, <1>2 DEF BeatInv, BeatTypes, BeatIsFresh

\* A worker that is serving or draining is listed by GetActiveWorkers, unless a
\* heartbeat failed or was late: the loop outlives the root context.
THEOREM LiveWorkerIsListedHolds == Spec => []LiveWorkerIsListed
<1>1. BeatInv => LiveWorkerIsListed
  <2> SUFFICES ASSUME BeatInv, proc \in {"serving", "draining"}, ~beat.excused
               PROVE  beat.age < ActiveAge
    BY DEF LiveWorkerIsListed, GetActiveWorkers
  <2>1. beat.age <= beat.timer
    BY DEF BeatInv, BeatIsFresh
  <2>2. beat.age \in Nat /\ beat.timer \in Nat /\ beat.timer <= Interval
    BY LifecycleAssumption DEF BeatInv, BeatTypes
  <2> QED BY <2>1, <2>2, LifecycleAssumption
<1> QED BY <1>1, InitProc, InitBeat, ProcStep, BeatStep, PTL DEF Spec

-----------------------------------------------------------------------------
(* Shutdown *)

\* A goroutine that took a job after Shutdown is past its Dequeue for good: the top
\* of its loop has seen, or will see, the closed channel.
ExtraInv ==
    /\ ExtraTypes
    /\ \A g \in Goroutines : \/ extra[g] = 0
                             \/ extra[g] = 1 /\ Stopped /\ gor[g].pc # "dequeue"

\* Every step keeps the count of dequeues after the stop signal.
LEMMA ExtraStep == ProcTypes /\ GorTypes /\ ExtraInv /\ [Next]_vars => ExtraInv'
<1> SUFFICES ASSUME ProcTypes, GorTypes, ExtraInv, [Next]_vars PROVE ExtraInv'
  OBVIOUS
<1> USE DEF ExtraInv, ExtraTypes, Stopped
<1>1. ASSUME MainNext \/ Signal \/ Heartbeat \/ Tick PROVE ExtraInv'
  <2>1. extra' = extra /\ (Stopped => Stopped')
    <3>1. CASE MainNext
      BY <3>1 DEF MainNext, InitialHeartbeat, Launch, HandleSignal, StopSeen, Exit
    <3>2. CASE Signal \/ Heartbeat \/ Tick
      BY <3>2 DEF Signal, Heartbeat, Tick
    <3> QED BY <1>1, <3>1, <3>2
  <2>2. \A g \in Goroutines : gor'[g] = gor[g] \/ gor'[g].pc = "check"
    <3>1. CASE Launch
      BY <3>1 DEF Launch
    <3>2. CASE InitialHeartbeat \/ HandleSignal \/ StopSeen \/ Exit
      BY <3>2 DEF InitialHeartbeat, HandleSignal, StopSeen, Exit
    <3>3. CASE Signal \/ Heartbeat \/ Tick
      BY <3>3 DEF Signal, Heartbeat, Tick
    <3> QED BY <1>1, <3>1, <3>2, <3>3 DEF MainNext
  <2> QED BY <2>1, <2>2
<1>2. ASSUME NEW g \in Goroutines, NEW pc \in GorPcs \ {"dequeue"}, Goto(g, pc), UNCHANGED <<sig, extra>>
      PROVE  ExtraInv'
  BY <1>2, GotoGor
<1>3. ASSUME NEW g \in Goroutines, Check(g) PROVE ExtraInv'
  <2>1. CASE Stopped
    BY <1>2, <1>3, <2>1 DEF Check, GorPcs
  <2>2. CASE ~Stopped
    BY <1>3, <2>2, GotoGor DEF Check, GorPcs
  <2> QED BY <2>1, <2>2
<1>4. ASSUME NEW g \in Goroutines, NEW j \in Jobs, Dequeue(g, j) PROVE ExtraInv'
  <2>1. extra[g] = 0
    BY <1>4 DEF Dequeue, At
  <2>2. gor'[g].pc = "begin" /\ \A h \in Goroutines \ {g} : gor'[h] = gor[h]
    BY <1>4 DEF Dequeue, GorTypes
  <2> QED BY <1>4, <2>1, <2>2 DEF Dequeue
<1>5. ASSUME NEW g \in Goroutines, DequeueNothing(g) PROVE ExtraInv'
  BY <1>2, <1>5 DEF DequeueNothing, GorPcs
<1>6. ASSUME NEW g \in Goroutines, WaitEnds(g) PROVE ExtraInv'
  BY <1>2, <1>6 DEF WaitEnds, GorPcs
<1>7. ASSUME NEW g \in Goroutines, BeginExecution(g) PROVE ExtraInv'
  BY <1>2, <1>7 DEF BeginExecution, GorPcs
<1>8. ASSUME NEW g \in Goroutines, RunEnds(g) PROVE ExtraInv'
  BY <1>2, <1>8 DEF RunEnds, GorPcs
<1>9. ASSUME NEW g \in Goroutines, Settle(g) PROVE ExtraInv'
  <2>1. gor'[g].pc = "check" /\ \A h \in Goroutines \ {g} : gor'[h] = gor[h]
    BY <1>9 DEF Settle, GorTypes
  <2> QED BY <1>9, <2>1 DEF Settle
<1>10. ASSUME NEW j \in Jobs, HandlerReports(j) \/ \E ok \in BOOLEAN : HandlerReturns(j, ok)
       PROVE  ExtraInv'
  BY <1>10 DEF HandlerReports, HandlerReturns
<1>11. ASSUME UNCHANGED vars PROVE ExtraInv'
  BY <1>11 DEF vars
<1> QED
  BY <1>1, <1>3, <1>4, <1>5, <1>6, <1>7, <1>8, <1>9, <1>10, <1>11 DEF Next, WorkerNext

\* The pool starts with idle goroutines and nothing dequeued after a stop.
LEMMA InitGor == Init => GorTypes /\ ExtraInv
<1> SUFFICES ASSUME Init PROVE GorTypes /\ ExtraInv
  OBVIOUS
<1>1. [pc |-> "none", job |-> NoJob] \in GorStates
  BY DEF GorStates, GorPcs
<1>2. GorTypes
  BY <1>1 DEF Init, GorTypes, HasJob
<1>3. ExtraInv
  BY DEF Init, ExtraInv, ExtraTypes
<1> QED BY <1>2, <1>3

\* After Shutdown a goroutine takes at most the one job whose Dequeue was already
\* under way, for any number of goroutines and jobs.
THEOREM AtMostOneAfterStopHolds == Spec => []AtMostOneAfterStop
<1>1. ExtraInv => AtMostOneAfterStop
  BY DEF ExtraInv, AtMostOneAfterStop
<1> QED BY <1>1, InitProc, InitGor, ProcStep, GorStep, ExtraStep, PTL DEF Spec

\* Every variable keeps its type, and a goroutine past Dequeue has a job.
THEOREM LifecycleTypeCorrect == Spec => []LifecycleTypeOK
<1>1. Init => JobTypes
  BY LifecycleAssumption DEF Init, JobTypes
<1>2. ProcTypes /\ GorTypes /\ JobTypes /\ BeatInv /\ ExtraInv => LifecycleTypeOK
  BY DEF ProcTypes, GorTypes, GorStates, HasJob, JobTypes, BeatInv, BeatTypes, ExtraInv, ExtraTypes,
     LifecycleTypeOK
<1> QED
  BY <1>1, <1>2, InitProc, InitGor, InitBeat, ProcStep, GorStep, JobStep, BeatStep, ExtraStep, PTL
  DEF Spec

-----------------------------------------------------------------------------
(* Who has a job *)

\* Before the launch no goroutine runs.  A job is in the queue, with one goroutine,
\* or settled, and in no two of these.
Custody ==
    /\ proc \in {"starting", "launching"} => \A g \in Goroutines : gor[g].pc = "none"
    /\ \A g, h \in Goroutines : gor[g].job # NoJob /\ gor[g].job = gor[h].job => g = h
    /\ \A g \in Goroutines : gor[g].job \notin queue \cup acked \cup nacked
    /\ queue \cap (acked \cup nacked) = {}
    /\ \A j \in Jobs \ queue : j \in acked \cup nacked \/ \E g \in Goroutines : gor[g].job = j

\* A step that moves a goroutine without touching its job.
LEMMA CustodyKept ==
  ASSUME Custody, \A g \in Goroutines : gor'[g].job = gor[g].job,
         UNCHANGED <<queue, acked, nacked>>,
         proc' \in {"starting", "launching"}
           => proc \in {"starting", "launching"} /\ gor' = gor
  PROVE  Custody'
BY DEF Custody

\* Every step keeps each job in exactly one place: the queue, a goroutine, or settled.
LEMMA CustodyStep == GorTypes /\ Custody /\ [Next]_vars => Custody'
<1> SUFFICES ASSUME GorTypes, Custody, [Next]_vars PROVE Custody'
  OBVIOUS
<1>1. ASSUME InitialHeartbeat \/ HandleSignal \/ StopSeen \/ Exit PROVE Custody'
  BY <1>1, CustodyKept DEF InitialHeartbeat, HandleSignal, StopSeen, Exit
<1>2. ASSUME Launch PROVE Custody'
  <2>1. \A g \in Goroutines : gor'[g].job = gor[g].job
    BY <1>2 DEF Launch, Custody, GorTypes, HasJob
  <2> QED BY <1>2, <2>1, CustodyKept DEF Launch
<1>3. ASSUME Signal \/ Heartbeat \/ Tick PROVE Custody'
  BY <1>3, CustodyKept DEF Signal, Heartbeat, Tick
<1>4. ASSUME NEW g \in Goroutines, NEW from, At(g, from), from # "none", NEW to \in GorPcs, Goto(g, to),
             UNCHANGED <<proc, queue, acked, nacked>>
      PROVE  Custody'
  <2>1. \A h \in Goroutines : gor'[h].job = gor[h].job
    BY <1>4, GotoGor
  <2>2. proc \notin {"starting", "launching"}
    BY <1>4 DEF Custody, At
  <2> QED BY <1>4, <2>1, <2>2, CustodyKept
<1>5. ASSUME NEW g \in Goroutines, Check(g) PROVE Custody'
  BY <1>4, <1>5 DEF Check, GorPcs
<1>6. ASSUME NEW g \in Goroutines, NEW j \in Jobs, Dequeue(g, j) PROVE Custody'
  <2>1. gor[g].job = NoJob /\ gor[g].pc = "dequeue" /\ proc' = proc
    BY <1>6 DEF Dequeue, At, GorTypes, HasJob
  <2>2. /\ gor'[g].job = j /\ \A h \in Goroutines \ {g} : gor'[h] = gor[h]
        /\ j \in queue /\ queue' = queue \ {j} /\ acked' = acked /\ nacked' = nacked
    BY <1>6 DEF Dequeue, GorTypes
  <2>3. j # NoJob
    BY LifecycleAssumption
  <2>4. proc \notin {"starting", "launching"}
    BY <2>1 DEF Custody
  <2>5. \A h, i \in Goroutines : gor'[h].job # NoJob /\ gor'[h].job = gor'[i].job => h = i
    BY <2>2 DEF Custody
  <2>6. \A h \in Goroutines : gor'[h].job \notin queue' \cup acked' \cup nacked'
    BY <2>2 DEF Custody
  <2>7. \A k \in Jobs \ queue' : k \in acked' \cup nacked' \/ \E h \in Goroutines : gor'[h].job = k
    <3> SUFFICES ASSUME NEW k \in Jobs \ queue', k \notin acked' \cup nacked'
                 PROVE  \E h \in Goroutines : gor'[h].job = k
      OBVIOUS
    <3>1. CASE k = j
      BY <2>2, <3>1
    <3>2. CASE k # j
      <4>1. PICK h \in Goroutines : gor[h].job = k
        BY <2>2, <3>2 DEF Custody
      <4>2. h # g
        BY <2>1, <4>1, LifecycleAssumption
      <4> QED BY <2>2, <4>1, <4>2
    <3> QED BY <3>1, <3>2
  <2>8. queue' \cap (acked' \cup nacked') = {}
    BY <2>2 DEF Custody
  <2> QED BY <2>1, <2>4, <2>5, <2>6, <2>7, <2>8 DEF Custody
<1>7. ASSUME NEW g \in Goroutines, DequeueNothing(g) PROVE Custody'
  BY <1>4, <1>7 DEF DequeueNothing, GorPcs
<1>8. ASSUME NEW g \in Goroutines, WaitEnds(g) PROVE Custody'
  BY <1>4, <1>8 DEF WaitEnds, GorPcs
<1>9. ASSUME NEW g \in Goroutines, BeginExecution(g) PROVE Custody'
  BY <1>4, <1>9 DEF BeginExecution, GorPcs
<1>10. ASSUME NEW g \in Goroutines, RunEnds(g) PROVE Custody'
  BY <1>4, <1>10 DEF RunEnds, GorPcs
<1>11. ASSUME NEW g \in Goroutines, Settle(g) PROVE Custody'
  <2> DEFINE j == gor[g].job
  <2>1. gor[g].pc \in {"ack", "nack"} /\ j \in Jobs /\ j # NoJob
    BY <1>11 DEF Settle, At, GorTypes, GorStates, HasJob
  <2>2. /\ gor'[g].job = NoJob /\ \A h \in Goroutines \ {g} : gor'[h] = gor[h]
        /\ queue' = queue /\ acked' \cup nacked' = acked \cup nacked \cup {j} /\ proc' = proc
    BY <1>11 DEF Settle, GorTypes
  <2>3. proc \notin {"starting", "launching"}
    BY <2>1 DEF Custody
  <2>4. \A h, i \in Goroutines : gor'[h].job # NoJob /\ gor'[h].job = gor'[i].job => h = i
    BY <2>2 DEF Custody
  <2>5. NoJob \notin queue \cup acked \cup nacked \cup {j}
    BY <2>1, LifecycleAssumption DEF GorTypes
  <2>6. \A h \in Goroutines : gor'[h].job \notin queue' \cup acked' \cup nacked'
    BY <2>1, <2>2, <2>5 DEF Custody
  <2>7. queue' \cap (acked' \cup nacked') = {}
    BY <2>2 DEF Custody
  <2>8. \A k \in Jobs \ queue' : k \in acked' \cup nacked' \/ \E h \in Goroutines : gor'[h].job = k
    <3> SUFFICES ASSUME NEW k \in Jobs \ queue', k \notin acked' \cup nacked'
                 PROVE  \E h \in Goroutines : gor'[h].job = k
      OBVIOUS
    <3>1. k # j /\ k \notin acked \cup nacked
      BY <2>2
    <3>2. PICK h \in Goroutines : gor[h].job = k
      BY <2>2, <3>1 DEF Custody
    <3> QED BY <2>2, <3>1, <3>2
  <2> QED BY <2>2, <2>3, <2>4, <2>6, <2>7, <2>8 DEF Custody
<1>12. ASSUME NEW j \in Jobs, HandlerReports(j) \/ \E ok \in BOOLEAN : HandlerReturns(j, ok)
       PROVE  Custody'
  BY <1>12, CustodyKept DEF HandlerReports, HandlerReturns
<1>13. ASSUME UNCHANGED vars PROVE Custody'
  BY <1>13, CustodyKept DEF vars
<1> QED
  BY <1>1, <1>2, <1>3, <1>5, <1>6, <1>7, <1>8, <1>9, <1>10, <1>11, <1>12, <1>13
  DEF Next, MainNext, WorkerNext

\* At the start every job is in the queue and no goroutine holds one.
LEMMA InitCustody == Init => Custody
BY LifecycleAssumption DEF Init, Custody

\* An exit before the limit finds every goroutine at its end.
CleanExit == proc = "exited" /\ drain < DrainLimit => \A g \in Goroutines : gor[g].pc = "exited"

\* Every step keeps the goroutines of a process that left within its limit at their end.
LEMMA CleanExitStep == ProcTypes /\ CleanExit /\ [Next]_vars => CleanExit'
<1> SUFFICES ASSUME ProcTypes, CleanExit, [Next]_vars PROVE CleanExit'
  OBVIOUS
<1> USE DEF CleanExit
<1>1. ASSUME InitialHeartbeat \/ Launch \/ StopSeen \/ HandleSignal PROVE CleanExit'
  BY <1>1 DEF InitialHeartbeat, Launch, StopSeen, HandleSignal, Alive
<1>2. ASSUME Exit PROVE CleanExit'
  BY <1>2, LifecycleAssumption DEF Exit
<1>3. ASSUME Signal \/ Heartbeat \/ Tick PROVE CleanExit'
  BY <1>3 DEF Signal, Heartbeat, Tick
<1>4. ASSUME NEW g \in Goroutines, WorkerNext(g) PROVE CleanExit'
  <2>1. Alive /\ proc' = proc
    BY <1>4 DEF WorkerNext, Check, Dequeue, DequeueNothing, WaitEnds, BeginExecution, RunEnds, Settle, At
  <2> QED BY <2>1 DEF Alive
<1>5. ASSUME NEW j \in Jobs, HandlerReports(j) \/ \E ok \in BOOLEAN : HandlerReturns(j, ok)
      PROVE  CleanExit'
  BY <1>5 DEF HandlerReports, HandlerReturns
<1>6. ASSUME UNCHANGED vars PROVE CleanExit'
  BY <1>6 DEF vars
<1> QED BY <1>1, <1>2, <1>3, <1>4, <1>5, <1>6 DEF Next, MainNext

\* The process exits with a job that was taken and not settled only when the limit
\* of Start has passed, for any number of goroutines and jobs.
THEOREM AbandonedOnlyAtLimitHolds == Spec => []AbandonedOnlyAtLimit
<1>1. Init => CleanExit
  BY DEF Init, CleanExit
<1>2. GorTypes /\ Custody /\ CleanExit => AbandonedOnlyAtLimit
  <2> SUFFICES ASSUME GorTypes, Custody, CleanExit, proc = "exited", drain < DrainLimit,
                      NEW j \in Jobs \ queue
               PROVE  j \in acked \cup nacked
    BY DEF AbandonedOnlyAtLimit, Taken
  <2>1. \A g \in Goroutines : gor[g].job = NoJob
    BY DEF CleanExit, GorTypes, HasJob
  <2>2. j # NoJob
    BY LifecycleAssumption
  <2> QED BY <2>1, <2>2 DEF Custody
<1> QED
  BY <1>1, <1>2, InitProc, InitGor, InitCustody, ProcStep, GorStep, CustodyStep, CleanExitStep, PTL
  DEF Spec

-----------------------------------------------------------------------------
(* Outcomes *)

\* A job may be negatively acknowledged: it is out of time, or its handler has not
\* returned nil and never will.
Failed(j) == left[j] = 0 \/ (j \notin effect /\ handler[j] \in {"none", "ended"})

\* What the handler did, as its channel reports it ...
Reports ==
    /\ \A j \in queue : handler[j] = "none"
    /\ \A j \in Jobs :
         /\ handler[j] \in {"none", "executing"} => j \notin effect
         /\ done[j] # "empty" => handler[j] = "ended"
         /\ done[j] = "true" => j \in effect
         /\ done[j] = "false" => j \notin effect
    /\ \A g \in Goroutines : gor[g].pc = "begin" => handler[gor[g].job] = "none"

\* ... and what the goroutines make of it.
Verdicts ==
    /\ \A g \in Goroutines : gor[g].pc = "ack" => gor[g].job \in effect
    /\ \A g \in Goroutines : gor[g].pc = "nack" => Failed(gor[g].job)
    /\ acked \subseteq effect /\ acked \cap nacked = {}
    /\ \A j \in nacked : Failed(j)

Outcomes == Reports /\ Verdicts

\* A step that changes nothing but where the goroutines without a job are.
LEMMA OutcomesKept ==
  ASSUME GorTypes, JobTypes, Outcomes, UNCHANGED <<queue, handler, done, effect, acked, nacked>>,
         \A j \in Jobs : left[j] = 0 => left'[j] = 0,
         \A g \in Goroutines : gor'[g] = gor[g] \/ gor'[g].pc \notin HasJob
  PROVE  Outcomes'
<1>1. \A j \in Jobs : Failed(j) => Failed(j)'
  BY DEF Failed
<1>2. \A g \in Goroutines : gor[g].pc \in HasJob => gor[g].job \in Jobs
  BY DEF GorTypes, GorStates
<1>3. Reports'
  BY <1>2 DEF Outcomes, Reports, HasJob
<1>4. Verdicts'
  BY <1>1, <1>2 DEF Outcomes, Verdicts, GorTypes, HasJob
<1> QED BY <1>3, <1>4 DEF Outcomes

\* Every step keeps recorded outcomes equal to what the handlers returned.
LEMMA OutcomesStep == GorTypes /\ JobTypes /\ Custody /\ Outcomes /\ [Next]_vars => Outcomes'
<1> SUFFICES ASSUME GorTypes, JobTypes, Custody, Outcomes, [Next]_vars PROVE Outcomes'
  OBVIOUS
<1>0. \A g \in Goroutines : gor[g].pc \in HasJob => gor[g].job \in Jobs /\ gor[g].job # NoJob
  BY DEF GorTypes, GorStates
<1>1. ASSUME InitialHeartbeat \/ HandleSignal \/ StopSeen \/ Exit \/ Signal \/ Heartbeat PROVE Outcomes'
  BY <1>1, OutcomesKept DEF InitialHeartbeat, HandleSignal, StopSeen, Exit, Signal, Heartbeat
<1>2. ASSUME Launch PROVE Outcomes'
  BY <1>2, OutcomesKept DEF Launch, HasJob
<1>3. ASSUME Tick PROVE Outcomes'
  <2>1. \A j \in Jobs : left[j] = 0 => left'[j] = 0
    BY <1>3 DEF Tick
  <2> QED BY <1>3, <2>1, OutcomesKept DEF Tick
<1>4. ASSUME NEW g \in Goroutines, NEW to \in GorPcs \ HasJob, Goto(g, to), UNCHANGED jobVars
      PROVE  Outcomes'
  BY <1>4, GotoGor, OutcomesKept
<1>5. ASSUME NEW g \in Goroutines, Check(g) PROVE Outcomes'
  BY <1>4, <1>5 DEF Check, GorPcs, HasJob
<1>6. ASSUME NEW g \in Goroutines, DequeueNothing(g) PROVE Outcomes'
  BY <1>4, <1>6 DEF DequeueNothing, GorPcs, HasJob
<1>7. ASSUME NEW g \in Goroutines, WaitEnds(g) PROVE Outcomes'
  BY <1>4, <1>7 DEF WaitEnds, GorPcs, HasJob
<1>8. ASSUME NEW g \in Goroutines, NEW j \in Jobs, Dequeue(g, j) PROVE Outcomes'
  <2>1. /\ gor'[g].pc = "begin" /\ gor'[g].job = j /\ \A h \in Goroutines \ {g} : gor'[h] = gor[h]
        /\ j \in queue /\ queue' \subseteq queue /\ UNCHANGED <<left, handler, done, effect, acked, nacked>>
    BY <1>8 DEF Dequeue, GorTypes
  <2>2. Reports'
    BY <2>1 DEF Outcomes, Reports
  <2>3. Verdicts'
    BY <2>1 DEF Outcomes, Verdicts, Failed
  <2> QED BY <2>2, <2>3 DEF Outcomes
<1>9. ASSUME NEW g \in Goroutines, BeginExecution(g) PROVE Outcomes'
  <2> DEFINE j == gor[g].job
  <2>1. /\ gor[g].pc = "begin" /\ j \in Jobs /\ j # NoJob /\ handler[j] = "none" /\ j \notin effect
        /\ j \notin queue \cup acked \cup nacked
    BY <1>0, <1>9 DEF BeginExecution, At, HasJob, Outcomes, Reports, Custody
  <2>2. UNCHANGED <<queue, left, done, acked, nacked, effect>>
    BY <1>9 DEF BeginExecution
  <2>3. ASSUME NEW h \in Goroutines, h # g, gor[h].pc \in HasJob PROVE gor[h].job # j
    BY <2>1, <2>3 DEF Custody
  <2>4. CASE j \in Handled
    <3>1. /\ gor'[g].pc = "running" /\ gor'[g].job = j /\ \A h \in Goroutines \ {g} : gor'[h] = gor[h]
          /\ handler' = [handler EXCEPT ![j] = "executing"]
      BY <1>9, <2>4, GotoGor DEF BeginExecution, GorPcs
    <3>2. handler'[j] = "executing" /\ \A k \in Jobs \ {j} : handler'[k] = handler[k]
      BY <2>1, <3>1 DEF JobTypes
    <3>3. \A k \in Jobs \ {j} : Failed(k) => Failed(k)'
      BY <2>2, <3>2 DEF Failed
    <3>4. Reports'
      <4>1. \A k \in queue' : handler'[k] = "none"
        BY <2>1, <2>2, <3>2 DEF Outcomes, Reports, GorTypes
      <4>2. \A k \in Jobs : /\ handler'[k] \in {"none", "executing"} => k \notin effect'
                            /\ done'[k] # "empty" => handler'[k] = "ended"
                            /\ done'[k] = "true" => k \in effect'
                            /\ done'[k] = "false" => k \notin effect'
        BY <2>1, <2>2, <3>2 DEF Outcomes, Reports
      <4>3. \A h \in Goroutines : gor'[h].pc = "begin" => handler'[gor'[h].job] = "none"
        BY <1>0, <2>3, <3>1, <3>2 DEF Outcomes, Reports, HasJob
      <4> QED BY <4>1, <4>2, <4>3 DEF Reports
    <3>5. Verdicts'
      <4>1. \A h \in Goroutines : gor'[h].pc = "ack" => gor'[h].job \in effect'
        BY <2>2, <3>1 DEF Outcomes, Verdicts
      <4>2. ASSUME NEW h \in Goroutines, gor'[h].pc = "nack" PROVE Failed(gor[h].job)' /\ gor'[h] = gor[h]
        BY <1>0, <2>3, <3>1, <3>3, <4>2 DEF Outcomes, Verdicts, HasJob
      <4>3. \A k \in nacked' : Failed(k)'
        BY <2>1, <2>2, <3>3 DEF Outcomes, Verdicts, GorTypes
      <4> QED BY <2>2, <4>1, <4>2, <4>3 DEF Outcomes, Verdicts, Failed
    <3> QED BY <3>4, <3>5 DEF Outcomes
  <2>5. CASE j \notin Handled
    <3>1. /\ gor'[g].pc = "nack" /\ gor'[g].job = j /\ \A h \in Goroutines \ {g} : gor'[h] = gor[h]
          /\ handler' = handler
      BY <1>9, <2>5, GotoGor DEF BeginExecution, GorPcs
    <3>2. Reports'
      BY <2>2, <3>1 DEF Outcomes, Reports
    <3>3. Verdicts'
      BY <2>1, <2>2, <3>1 DEF Outcomes, Verdicts, Failed
    <3> QED BY <3>2, <3>3 DEF Outcomes
  <2> QED BY <2>4, <2>5
<1>10. ASSUME NEW g \in Goroutines, RunEnds(g) PROVE Outcomes'
  <2> DEFINE j == gor[g].job
  <2>1. j \in Jobs /\ gor[g].pc = "running" /\ UNCHANGED <<queue, left, handler, acked, nacked, effect>>
    BY <1>0, <1>10 DEF RunEnds, At, HasJob
  <2>2. PICK to \in {"ack", "nack"} :
            /\ Goto(g, to) /\ (to = "ack" => j \in effect) /\ (to = "nack" => Failed(j))
            /\ done' \in {done, [done EXCEPT ![j] = "empty"]}
    <3>1. CASE done[j] = "true" /\ Goto(g, "ack") /\ done' = [done EXCEPT ![j] = "empty"]
      BY <2>1, <3>1 DEF Outcomes, Reports
    <3>2. CASE done[j] \notin {"empty", "true"} /\ Goto(g, "nack") /\ done' = [done EXCEPT ![j] = "empty"]
      <4>1. done[j] = "false"
        BY <2>1, <3>2 DEF JobTypes
      <4>2. Failed(j)
        BY <2>1, <4>1 DEF Failed, Outcomes, Reports
      <4> QED BY <3>2, <4>2
    <3>3. CASE left[j] = 0 /\ Goto(g, "nack") /\ UNCHANGED done
      BY <3>3 DEF Failed
    <3> QED BY <1>10, <3>1, <3>2, <3>3 DEF RunEnds
  <2>3. gor'[g].pc = to /\ gor'[g].job = j /\ \A h \in Goroutines \ {g} : gor'[h] = gor[h]
    BY <2>2, GotoGor DEF GorPcs
  <2>4. \A k \in Jobs : done'[k] = done[k] \/ done'[k] = "empty"
    BY <2>1, <2>2 DEF JobTypes
  <2>5. Reports'
    BY <2>1, <2>2, <2>3, <2>4 DEF Outcomes, Reports
  <2>6. Verdicts'
    BY <2>1, <2>2, <2>3 DEF Outcomes, Verdicts, Failed
  <2> QED BY <2>5, <2>6 DEF Outcomes
<1>11. ASSUME NEW g \in Goroutines, Settle(g) PROVE Outcomes'
  <2> DEFINE j == gor[g].job
  <2>1. j \in Jobs /\ j \notin acked \cup nacked
    BY <1>0, <1>11 DEF Settle, At, HasJob, Custody
  <2>2. /\ UNCHANGED <<queue, left, handler, done, effect>>
        /\ gor'[g].pc = "check" /\ \A h \in Goroutines \ {g} : gor'[h] = gor[h]
    BY <1>11 DEF Settle, GorTypes
  <2>3. Reports'
    BY <2>2 DEF Outcomes, Reports
  <2>4. \/ gor[g].pc = "ack" /\ acked' = acked \cup {j} /\ nacked' = nacked
        \/ gor[g].pc = "nack" /\ nacked' = nacked \cup {j} /\ acked' = acked
    BY <1>11 DEF Settle, At
  <2>5. Verdicts'
    BY <2>1, <2>2, <2>4 DEF Outcomes, Verdicts, Failed
  <2> QED BY <2>3, <2>5 DEF Outcomes
<1>12. ASSUME NEW j \in Jobs, HandlerReports(j) PROVE Outcomes'
  <2>1. /\ handler[j] = "sending" /\ handler' = [handler EXCEPT ![j] = "ended"]
        /\ done' = [done EXCEPT ![j] = IF j \in effect THEN "true" ELSE "false"]
        /\ UNCHANGED <<queue, gor, left, acked, nacked, effect>>
    BY <1>12 DEF HandlerReports
  <2>2. /\ handler'[j] = "ended" /\ done'[j] = IF j \in effect THEN "true" ELSE "false"
        /\ \A k \in Jobs \ {j} : handler'[k] = handler[k] /\ done'[k] = done[k]
    BY <2>1 DEF JobTypes
  <2>3. \A k \in Jobs : Failed(k) => Failed(k)'
    BY <2>1, <2>2 DEF Failed
  <2>4. Reports'
    BY <1>0, <2>1, <2>2 DEF Outcomes, Reports, GorTypes, HasJob
  <2>5. Verdicts'
    BY <1>0, <2>1, <2>3 DEF Outcomes, Verdicts, GorTypes, HasJob
  <2> QED BY <2>4, <2>5 DEF Outcomes
<1>13. ASSUME NEW j \in Jobs, NEW ok \in BOOLEAN, HandlerReturns(j, ok) PROVE Outcomes'
  <2>1. /\ handler[j] = "executing" /\ handler' = [handler EXCEPT ![j] = "sending"]
        /\ effect \subseteq effect' /\ effect' \subseteq effect \cup {j}
        /\ UNCHANGED <<queue, gor, left, done, acked, nacked>>
    BY <1>13 DEF HandlerReturns
  <2>2. /\ handler'[j] = "sending" /\ done[j] = "empty"
        /\ \A k \in Jobs \ {j} : handler'[k] = handler[k]
    BY <2>1 DEF JobTypes, Outcomes, Reports
  <2>3. \A k \in Jobs : Failed(k) => Failed(k)'
    BY <2>1, <2>2 DEF Failed
  <2>4. Reports'
    BY <1>0, <2>1, <2>2 DEF Outcomes, Reports, GorTypes, HasJob
  <2>5. Verdicts'
    BY <1>0, <2>1, <2>3 DEF Outcomes, Verdicts, GorTypes, HasJob
  <2> QED BY <2>4, <2>5 DEF Outcomes
<1>14. ASSUME UNCHANGED vars PROVE Outcomes'
  BY <1>14, OutcomesKept DEF vars
<1> QED
  BY <1>1, <1>2, <1>3, <1>5, <1>6, <1>7, <1>8, <1>9, <1>10, <1>11, <1>12, <1>13, <1>14
  DEF Next, MainNext, WorkerNext

\* A job is acknowledged only if its handler returned nil, and negatively after that
\* only if it was out of time, whatever the order of its report and its deadline.
THEOREM OutcomeIsTheHandlersHolds == Spec => []OutcomeIsTheHandlers
<1>1. Init => JobTypes /\ Outcomes
  BY LifecycleAssumption DEF Init, JobTypes, Outcomes, Reports, Verdicts
<1>2. Outcomes => OutcomeIsTheHandlers
  BY DEF Outcomes, Verdicts, Failed, OutcomeIsTheHandlers
<1> QED
  BY <1>1, <1>2, InitGor, InitCustody, GorStep, JobStep, CustodyStep, OutcomesStep, PTL DEF Spec
=============================================================================
