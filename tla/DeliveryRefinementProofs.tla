---------------------- MODULE DeliveryRefinementProofs ----------------------
(***************************************************************************)
(* Proofs about DeliveryRefinement: a terminal row is final unless a       *)
(* client or a second delivery touches it, and TaskScheduler implements    *)
(* Delivery, for every value of the constants.                             *)
(***************************************************************************)
EXTENDS DeliveryRefinement, SingleDeliveryProofs

-----------------------------------------------------------------------------
(* Who writes rows *)

\* A goroutine writes the row of its job at three of its steps.
LEMMA WorkerRow ==
  ASSUME NEW g \in Goroutines, WorkerNext(g)
  PROVE  UNCHANGED db \/ BeginExecution(g) \/ MarkCompleted(g) \/ MarkFailed(g)
BY DEF WorkerNext, WDequeue, WDequeueLost, WSucceed, WFail, WNackPush, WStep, WFault, Dequeue,
       DequeueLost, HandlerSucceeds, HandlerFails, NackPush, TimesOut, AckDel, AckRem, NackSet,
       NackRem, PipelineAborts, UpdateFails

\* A request writes a row when it submits, retries or deletes its job.
LEMMA RequestRow ==
  ASSUME NEW r \in Requests, RequestNext(r)
  PROVE  \/ UNCHANGED <<db, born>>
         \/ \E j \in Jobs : CreateJob(j) /\ j \notin born /\ born' = born \cup {j}
         \/ /\ api[r].pc \in {"retryUpdate", "delete"} /\ UNCHANGED born
            /\ UpdateJobStatus(api[r].job, "pending", FALSE) \/ DeleteRow(api[r].job)
BY DEF RequestNext, ARetry, ASubmit, AEnqueue, AEnqueueReplyLost, AStep, AFault, Retry, Submit,
       Enqueue, EnqueueReplyLost, RetryUpdate, DeleteJob, Delete, EnqueueFails, StatementFails,
       Entered, history

\* Nothing else does.
LEMMA OthersKeepRows ==
  ASSUME \/ \E s \in Schedulers : LoopNext(s)
         \/ \E w \in Workers : WCrash(w)
         \/ Tick \/ UNCHANGED vars
  PROVE  UNCHANGED <<db, born>>
<1>1. ASSUME NEW s \in Schedulers, LoopNext(s) PROVE UNCHANGED <<db, born>>
  BY <1>1, LoopLeaves
<1> QED BY <1>1 DEF WCrash, CrashPool, Tick, vars, history

\* An UPDATE writes the status of a row that exists, and of no other.
LEMMA UpdateRow ==
  ASSUME StoreTypeOK, NEW j \in Jobs, NEW status, NEW b, UpdateJobStatus(j, status, b)
  PROVE  /\ \A k \in Jobs \ {j} : db'[k] = db[k]
         /\ Exists(j) => db'[j].status = status
         /\ ~Exists(j) => db'[j] = NoRow
BY DEF StoreTypeOK, UpdateJobStatus, Exists

\* There is no row before the submission.
RowInv == \A j \in Jobs \ born : db[j] = NoRow

\* Every step keeps it: only CreateJob makes a row.
LEMMA NextRow == TypeInv /\ RowInv /\ [Next]_vars => RowInv'
<1> SUFFICES ASSUME TypeInv, RowInv, [Next]_vars PROVE RowInv'
  OBVIOUS
<1>0. StoreTypeOK
  BY DEF TypeInv, TypeOK
<1>1. ASSUME UNCHANGED <<db, born>> PROVE RowInv'
  BY <1>1 DEF RowInv
<1>2. ASSUME NEW j \in Jobs, NEW status, NEW b, UpdateJobStatus(j, status, b), UNCHANGED born
      PROVE  RowInv'
  BY <1>0, <1>2, UpdateRow DEF RowInv, Exists
<1>3. ASSUME NEW g \in Goroutines, WorkerNext(g) PROVE RowInv'
  <2>1. UNCHANGED born
    BY <1>3, WorkerFrames
  <2>2. BeginExecution(g) \/ MarkCompleted(g) \/ MarkFailed(g) => gor[g].job \in Jobs
    BY DEF BeginExecution, MarkCompleted, MarkFailed, TypeInv, BusyPool
  <2> QED BY <1>1, <1>2, <1>3, <2>1, <2>2, WorkerRow DEF BeginExecution, MarkCompleted, MarkFailed
<1>4. ASSUME NEW r \in Requests, RequestNext(r) PROVE RowInv'
  <2>1. ASSUME NEW j \in Jobs, CreateJob(j), born' = born \cup {j} PROVE RowInv'
    BY <1>0, <2>1 DEF RowInv, CreateJob, StoreTypeOK
  <2>2. api[r].pc \in {"retryUpdate", "delete"} => api[r].job \in Jobs
    BY DEF TypeInv, BusyCore
  <2>3. ASSUME api[r].job \in Jobs, DeleteRow(api[r].job), UNCHANGED born PROVE RowInv'
    BY <1>0, <2>3 DEF RowInv, DeleteRow, StoreTypeOK
  <2> QED BY <1>1, <1>2, <1>4, <2>1, <2>2, <2>3, RequestRow
<1> QED BY <1>1, <1>3, <1>4, OthersKeepRows DEF Next

-----------------------------------------------------------------------------
(* Terminal rows.  TerminalUnlessRedelivered needs to know that a job      *)
(* whose row is terminal will not reach a goroutine again by itself.       *)

\* Nothing but a retry or a reclaim brings j to a goroutine.
Over(j) ==
    /\ Free(j)
    /\ \A s \in Schedulers : ~Listed(s, j)
    /\ delayed[j] # Absent => \E s \in Schedulers : HalfDone(s, j)
    /\ \A r \in Requests : ~Coming(r, j)

TerminalInv == \A j \in Jobs \ disturbed : IsTerminal(db[j].status) => Over(j)

\* A step that brings a job no nearer to a goroutine leaves it over.
LEMMA OverKept ==
  ASSUME NEW j \in Jobs, Over(j),
         ReadyAt(j)' = {},
         \A g \in Goroutines : gor'[g].job = j => gor[g].job = j,
         delayed'[j] # Absent => delayed[j] # Absent,
         \A s \in Schedulers : Listed(s, j)' => Listed(s, j),
         \A s \in Schedulers : HalfDone(s, j) => HalfDone(s, j)' \/ delayed'[j] = Absent,
         \A r \in Requests : Coming(r, j)' => Coming(r, j)
  PROVE  Over(j)'
<1>1. Free(j)'
  BY DEF Over, Free
<1> QED BY <1>1 DEF Over

\* The steps of a pass over the delayed set, and of a reclaimer, leave a job over
\* unless they disturb it.
LEMMA LoopOver ==
  ASSUME TypeInv, WaitInv, NEW s \in Schedulers, LoopNext(s), Mutex,
         NEW j \in Jobs, j \notin disturbed', Over(j)
  PROVE  Over(j)'
<1>0. UNCHANGED gor /\ QueueTypeOK /\ Home /\ ReadyAt(j) = {} /\ ~Listed(s, j)
  BY LoopLeaves DEF TypeInv, TypeOK, WaitInv, Over, Free
<1>1. \A r \in Requests : Coming(r, j)' => Coming(r, j)
  <2>1. \A r \in Requests : api'[r] \in {api[r], IdleApi}
    BY LoopLeaves DEF CrashScheduler
  <2> QED BY <2>1 DEF Coming, IdleApi, EnqueuePcs
<1>2. delayed'[j] # Absent => delayed[j] # Absent
  BY LoopSets
<1>3. ASSUME OtherMovers(s), ReadyAt(j)' = {}, Listed(s, j)' => Listed(s, j),
             HalfDone(s, j) => HalfDone(s, j)' \/ delayed'[j] = Absent
      PROVE  Over(j)'
  <2>1. /\ \A t \in Schedulers : Listed(t, j)' => Listed(t, j)
        /\ \A t \in Schedulers : HalfDone(t, j) => HalfDone(t, j)' \/ delayed'[j] = Absent
    BY <1>3 DEF OtherMovers, Listed, HalfDone
  <2> QED BY <1>0, <1>1, <1>2, <1>3, <2>1, OverKept
<1>4. ASSUME UNCHANGED ready PROVE ReadyAt(j)' = {}
  BY <1>0, <1>4 DEF ReadyAt
<1>5. ASSUME NEW k \in Jobs, LPush(k), k # j PROVE ReadyAt(j)' = {}
  BY <1>0, <1>5, PushReady
<1>6. ASSUME UNCHANGED mover, ReadyAt(j)' = {} PROVE Over(j)'
  BY <1>3, <1>6 DEF OtherMovers, Listed, HalfDone
<1>7. ASSUME MoverAcquire(s) PROVE Over(j)'
  BY <1>3, <1>4, <1>7, AcquireMover DEF MoverAcquire, queueVars, Listed, HalfDone
<1>8. ASSUME NEW B \in Batches, MoverScan(s, B) PROVE Over(j)'
  <2>1. /\ OtherMovers(s) /\ mover[s].pc = "scan"
        /\ UNCHANGED ready /\ mover'[s].todo = B /\ mover'[s].moves = mover[s].moves
    BY <1>8, ScanMover DEF MoverScan, queueVars
  <2>2. \A t \in Schedulers : ~HalfDone(t, j)
    BY <2>1 DEF Mutex, HalfDone
  <2>3. j \notin B
    BY <2>2 DEF Over, Batches, DueJobs, Absent
  <2> QED BY <1>3, <1>4, <2>1, <2>2, <2>3 DEF Listed
<1>9. ASSUME NEW k \in Jobs, NEW found \in BOOLEAN, MoverGet(s, k, found) PROVE Over(j)'
  <2>1. UNCHANGED ready /\ mover[s].pc = "get"
    BY <1>9 DEF MoverGet, queueVars
  <2> QED BY <1>3, <1>4, <1>9, <2>1, GetMover DEF Listed, HalfDone
<1>10. ASSUME NEW k \in Jobs, MoverPush(s, k) PROVE Over(j)'
  <2>1. LPush(k) /\ mover[s].pc = "exec" /\ k \in mover[s].moves
    BY <1>10 DEF MoverPush, Push
  <2>2. k # j
    BY <1>0, <2>1 DEF Listed
  <2> QED BY <1>3, <1>5, <1>10, <2>1, <2>2, PushMover DEF Listed, HalfDone
<1>11. ASSUME MoverRem(s) PROVE Over(j)'
  <2>1. UNCHANGED ready /\ (HalfDone(s, j) => delayed'[j] = Absent)
    BY <1>0, <1>11 DEF MoverRem, ZRemDelayed, HalfDone, QueueTypeOK
  <2> QED BY <1>3, <1>4, <1>11, <2>1, RemMover DEF Listed
<1>12. ASSUME NEW k \in Jobs, MoverDrop(s, k) PROVE Over(j)'
  <2>1. UNCHANGED ready
    BY <1>12 DEF MoverDrop, ZRemDelayed
  <2> QED BY <1>3, <1>4, <1>12, <2>1, DropMover DEF Listed, HalfDone
<1>13. ASSUME MoverRelease(s) PROVE Over(j)'
  <2>1. UNCHANGED ready /\ ~HalfDone(s, j)
    BY <1>13 DEF MoverRelease, queueVars, HalfDone
  <2> QED BY <1>3, <1>4, <1>13, <2>1, EmptyMover DEF Listed
<1>14. ASSUME MoverAborts(s) \/ CrashScheduler(s), HalfMoved(s) \subseteq disturbed' PROVE Over(j)'
  <2>1. UNCHANGED ready /\ mover'[s].pc # "rem"
    BY <1>14, EmptyMover DEF MoverAborts, CrashScheduler, queueVars
  <2>2. ~HalfDone(s, j)
    BY <1>14, <2>1 DEF HalfMoved, HalfDone
  <2> QED BY <1>3, <1>4, <1>14, <2>1, <2>2, EmptyMover DEF Listed
<1>15. ASSUME LMove(s) PROVE Over(j)'
  <2>1. ASSUME NEW k \in Jobs, MoverGet(s, k, data[k] # NoData) PROVE Over(j)'
    <3>1. (data[k] # NoData) \in BOOLEAN
      OBVIOUS
    <3> QED BY <1>9, <2>1, <3>1
  <2> QED BY <1>7, <1>8, <1>10, <1>11, <1>12, <1>13, <1>15, <2>1 DEF LMove
<1>16. ASSUME LReclaimPush(s) PROVE Over(j)'
  <2>1. /\ LPush(reclaimer[s].job) /\ reclaimer[s].job \in disturbed'
        /\ reclaimer[s].pc = "push" /\ UNCHANGED mover
    BY <1>16 DEF LReclaimPush, ReclaimPush, Push, reclaimFrame
  <2>2. reclaimer[s].job \in Jobs
    BY <2>1 DEF TypeInv, BusyCore
  <2> QED BY <1>5, <1>6, <2>1, <2>2
<1>17. ASSUME LReclaim(s) \/ LCardFails(s) \/ ReclaimAborts(s) \/ MoverAcquireLost(s)
                \/ \E k \in Jobs : ReclaimGet(s, k, FALSE)
       PROVE  Over(j)'
  <2>1. UNCHANGED ready
    BY <1>17 DEF LReclaim, LCardFails, ReclaimAborts, MoverAcquireLost, ReclaimStart, ReclaimKey,
                 ReclaimGet, ReclaimSet, ReclaimRem, ReclaimCard, ReclaimCardFails, ReclaimDel,
                 queueVars, Store, ZRemInflight, DelInflight
  <2> QED BY <1>4, <1>6, <1>17, <2>1, OtherLoopSteps
<1>18. ASSUME NEW k \in Jobs, LGetFails(s, k) PROVE Over(j)'
  BY <1>9, <1>17, <1>18 DEF LGetFails
<1>19. ASSUME LFault(s) \/ LCrash(s) PROVE Over(j)'
  BY <1>14, <1>17, <1>19 DEF LFault, LCrash
<1> QED BY <1>15, <1>16, <1>17, <1>18, <1>19 DEF LoopNext

\* A goroutine that writes a terminal status is the only delivery of its job, and
\* lets go of it in the same step.
LEMMA WorkerTerminal ==
  ASSUME TypeInv, DeadInv, WaitInv, SingleInv, TerminalInv, NEW g \in Goroutines, WorkerNext(g)
  PROVE  TerminalInv'
<1>0. /\ UNCHANGED <<api, mover, disturbed, delayed>> /\ QueueTypeOK /\ Home /\ StoreTypeOK
      /\ PoolOf[g] \in Workers
  BY WorkerFrames, PoolAssumption DEF TypeInv, TypeOK, WaitInv
<1> SUFFICES ASSUME NEW j \in Jobs \ disturbed, IsTerminal(db'[j].status) PROVE Over(j)'
  BY <1>0 DEF TerminalInv
<1>1. /\ \A t \in Schedulers : Listed(t, j)' = Listed(t, j) /\ HalfDone(t, j)' = HalfDone(t, j)
      /\ \A r \in Requests : Coming(r, j)' = Coming(r, j)
  BY <1>0 DEF Listed, HalfDone, Coming
<1>2. ASSUME IsTerminal(db[j].status) PROVE Over(j)'
  <2>1. Over(j) /\ ReadyAt(j) = {}
    BY <1>2 DEF TerminalInv, Over, Free
  <2>2. CASE WorkerWorks(g)
    <3>1. \A h \in Goroutines : gor'[h].job = j => gor[h].job = j
      BY <2>2, JobAssumption DEF WorkerWorks, GorWorks, OtherGors
    <3>2. ReadyAt(j)' = {}
      BY <2>1, <2>2 DEF WorkerWorks, ReadyAt
    <3> QED BY <1>0, <1>1, <2>1, <3>1, <3>2, OverKept
  <2>3. ASSUME NEW k \in Jobs, WorkerTakes(g, k) PROVE Over(j)'
    <3>1. k # j /\ ReadyAt(j)' = {}
      BY <1>0, <2>1, <2>3, PopReady, InReadyAt DEF WorkerTakes
    <3>2. \A h \in Goroutines : gor'[h].job = j => gor[h].job = j
      BY <2>3, <3>1 DEF WorkerTakes, OtherGors
    <3> QED BY <1>0, <1>1, <2>1, <3>1, <3>2, OverKept
  <2> QED BY <2>2, <2>3, WorkerShape
<1>3. ASSUME ~IsTerminal(db[j].status) PROVE Over(j)'
  <2>1. BeginExecution(g) \/ MarkCompleted(g) \/ MarkFailed(g)
    BY <1>3, WorkerRow
  <2>2. gor[g].job \in Jobs
    BY <2>1 DEF BeginExecution, MarkCompleted, MarkFailed, TypeInv, BusyPool
  <2>3. gor[g].job = j
    BY <1>0, <1>3, <2>1, <2>2, UpdateRow DEF BeginExecution, MarkCompleted, MarkFailed
  <2>4. ~BeginExecution(g)
    <3> SUFFICES ASSUME BeginExecution(g) PROVE FALSE
      OBVIOUS
    <3>1. db'[j].status = "running" \/ db'[j] = NoRow
      BY <1>0, <2>3, UpdateRow DEF BeginExecution
    <3> QED BY <3>1 DEF IsTerminal, NoRow
  <2>5. gor' = [gor EXCEPT ![g] = Idle] /\ UNCHANGED ready
    BY <2>1, <2>4 DEF MarkCompleted, MarkFailed, queueVars
  <2>6. Once(j) /\ ~Free(j)
    BY <2>3 DEF SingleInv, Free
  <2>7. Free(j)'
    <3>1. \A h \in Goroutines \ {g} : gor[h].job # j
      BY <2>3, <2>6 DEF Once, OnceOut
    <3>2. gor'[g].job = NoJob /\ \A h \in Goroutines \ {g} : gor'[h] = gor[h]
      BY <2>5, StateTypes DEF Idle
    <3>3. ReadyAt(j)' = {}
      BY <2>3, <2>5, <2>6 DEF Once, OnceOut, ReadyAt
    <3> QED BY <3>1, <3>2, <3>3, JobAssumption DEF Free
  <2>8. /\ \A s \in Schedulers : ~Listed(s, j)
        /\ delayed[j] # Absent => \E s \in Schedulers : HalfDone(s, j)
        /\ \A r \in Requests : ~Coming(r, j)
    BY <2>6 DEF Once, OnceDelayed, OnceComing
  <2> QED BY <1>0, <1>1, <2>7, <2>8 DEF Over
<1> QED BY <1>2, <1>3

\* A request never writes a terminal status, and what it enqueues is a new job or
\* counts as disturbed.
LEMMA RequestTerminal ==
  ASSUME TypeInv, WaitInv, SingleInv, TerminalInv, NEW r \in Requests, RequestNext(r)
  PROVE  TerminalInv'
<1>0. /\ UNCHANGED <<lock, mover, gor>> /\ QueueTypeOK /\ Home /\ OtherRequests(r) /\ StoreTypeOK
      /\ \A q \in Requests : api[q].pc = "retryUpdate" => api[q].op = "retry"
  BY RequestFrames, RequestShape DEF TypeInv, TypeOK, WaitInv, SingleInv
<1>1. disturbed \subseteq disturbed'
  BY RequestShape DEF RequestEnters, RequestWorks, RequestSubmits
<1> SUFFICES ASSUME NEW j \in Jobs \ disturbed', IsTerminal(db'[j].status) PROVE Over(j)'
  BY DEF TerminalInv
<1>2. db'[j] = db[j] /\ (j \in born' => j \in born)
  <2>1. ASSUME NEW k \in Jobs, CreateJob(k), born' = born \cup {k}
        PROVE  db'[j] = db[j] /\ (j \in born' => j \in born)
    <3>1. db'[k].status = "pending"
      BY <1>0, <2>1 DEF CreateJob, StoreTypeOK, NewJob
    <3>2. k # j
      BY <3>1 DEF IsTerminal
    <3> QED BY <1>0, <2>1, <3>2 DEF CreateJob, StoreTypeOK
  <2>2. ASSUME NEW k \in Jobs, UpdateJobStatus(k, "pending", FALSE) PROVE db'[j] = db[j]
    <3>1. db'[k].status = "pending" \/ db'[k] = NoRow
      BY <1>0, <2>2, UpdateRow
    <3>2. k # j
      BY <3>1 DEF IsTerminal, NoRow
    <3> QED BY <1>0, <2>2, <3>2, UpdateRow
  <2>3. ASSUME NEW k \in Jobs, DeleteRow(k) PROVE db'[j] = db[j]
    <3>1. db'[k] = NoRow
      BY <1>0, <2>3 DEF DeleteRow, StoreTypeOK
    <3>2. k # j
      BY <3>1 DEF IsTerminal, NoRow
    <3> QED BY <1>0, <2>3, <3>2 DEF DeleteRow, StoreTypeOK
  <2>4. api[r].pc \in {"retryUpdate", "delete"} => api[r].job \in Jobs
    BY DEF TypeInv, BusyCore
  <2> QED BY <2>1, <2>2, <2>3, <2>4, RequestRow
<1>3. Over(j)
  BY <1>1, <1>2 DEF TerminalInv
<1>4. /\ \A t \in Schedulers : Listed(t, j)' = Listed(t, j) /\ HalfDone(t, j)' = HalfDone(t, j)
      /\ \A q \in Requests \ {r} : Coming(q, j)' = Coming(q, j)
  BY <1>0 DEF Listed, HalfDone, OtherRequests, Coming
<1>5. ASSUME RequestErrs(r), api[r].pc \in EnqueuePcs PROVE Coming(r, j)' => Coming(r, j)
  BY <1>5 DEF RequestErrs, Coming, IdleApi, EnqueuePcs
<1>6. ASSUME UNCHANGED <<ready, delayed>>, Coming(r, j)' => Coming(r, j) PROVE Over(j)'
  <2>1. ReadyAt(j)' = {}
    BY <1>3, <1>6 DEF Over, Free, ReadyAt
  <2> QED BY <1>0, <1>3, <1>4, <1>6, <2>1, OverKept
<1>7. CASE RequestWorks(r)
  <2>1. CASE api[r].pc \in EnqueuePcs /\ RequestErrs(r)
    BY <1>5, <1>6, <1>7, <2>1 DEF RequestWorks
  <2>2. CASE api'[r] = IdleApi
    BY <1>6, <1>7, <2>2 DEF RequestWorks, Coming, IdleApi, EnqueuePcs
  <2>3. CASE RequestClaims(r)
    BY <1>6, <1>7, <2>3 DEF RequestWorks, RequestClaims, Coming, EnqueuePcs
  <2>4. CASE RequestGoesOn(r)
    BY <1>0, <1>6, <1>7, <2>4 DEF RequestWorks, RequestGoesOn, Coming
  <2> QED BY <1>7, <2>1, <2>2, <2>3, <2>4 DEF RequestWorks
<1>8. ASSUME NEW k \in Jobs, RequestSubmits(r, k) PROVE Over(j)'
  BY <1>2, <1>6, <1>8 DEF RequestSubmits, Coming
<1>9. CASE RequestEnters(r)
  <2>1. api[r].job # j
    BY <1>3, <1>9 DEF RequestEnters, Over, Coming
  <2>2. ReadyAt(j)' = {} /\ delayed'[j] = delayed[j]
    BY <1>0, <1>3, <1>9, <2>1, EnterFields DEF Over, Free
  <2>3. Coming(r, j)' => Coming(r, j)
    BY <1>5, <1>9 DEF RequestEnters
  <2> QED BY <1>0, <1>3, <1>4, <2>2, <2>3, OverKept
<1> QED BY <1>7, <1>8, <1>9, RequestShape

\* Crashes of workers, time and steps that change nothing leave a job over.
LEMMA RestTerminal ==
  ASSUME TypeInv, TerminalInv, Tick \/ UNCHANGED vars \/ \E w \in Workers : WCrash(w)
  PROVE  TerminalInv'
<1>0. /\ UNCHANGED <<ready, mover, db>> /\ disturbed \subseteq disturbed'
      /\ gor \in [Goroutines -> GorStates] /\ api \in [Requests -> ApiStates]
  <2>1. disturbed \subseteq Jobs
    BY DEF TypeInv, TypeOK, HistoryTypeOK
  <2> QED BY <2>1, StateTypes
          DEF Tick, QueueTick, CoreTick, vars, queueVars, coreVars, history, WCrash, CrashPool
<1>1. ASSUME NEW r \in Requests
      PROVE  api'[r].pc = api[r].pc /\ api'[r].job = api[r].job /\ api'[r].op = api[r].op
  <2>1. CASE Tick
    <3>1. api'[r] = [api[r] EXCEPT !.wait = Earlier(api[r].wait)]
      BY <2>1 DEF Tick, CoreTick
    <3> QED BY <1>0, <3>1 DEF ApiStates
  <2>2. CASE UNCHANGED api
    BY <2>2
  <2> QED BY <2>1, <2>2 DEF vars, coreVars, WCrash
<1>2. ASSUME NEW g \in Goroutines PROVE gor'[g].job = gor[g].job \/ gor'[g].job = NoJob
  <2>1. CASE Tick
    <3>1. gor'[g] = [gor[g] EXCEPT !.left = Earlier(gor[g].left), !.due = Earlier(gor[g].due)]
      BY <2>1 DEF Tick, PoolTick
    <3> QED BY <1>0, <3>1 DEF GorStates
  <2>2. ASSUME NEW w \in Workers, WCrash(w) PROVE gor'[g].job = gor[g].job \/ gor'[g].job = NoJob
    BY <2>2 DEF WCrash, CrashPool, Idle
  <2>3. CASE UNCHANGED gor
    BY <2>3
  <2> QED BY <2>1, <2>2, <2>3 DEF vars
<1>3. ASSUME NEW j \in Jobs PROVE delayed'[j] # Absent => delayed[j] # Absent
  <2>1. CASE Tick
    BY <2>1 DEF Tick, QueueTick, Earlier, Absent
  <2>2. CASE UNCHANGED delayed
    BY <2>2
  <2> QED BY <2>1, <2>2 DEF vars, queueVars, WCrash, CrashPool
<1> SUFFICES ASSUME NEW j \in Jobs \ disturbed', IsTerminal(db'[j].status) PROVE Over(j)'
  BY DEF TerminalInv
<1>4. Over(j)
  BY <1>0 DEF TerminalInv
<1>5. \A g \in Goroutines : gor'[g].job = j => gor[g].job = j
  BY <1>2, JobAssumption
<1>6. ReadyAt(j)' = {}
  BY <1>0, <1>4 DEF Over, Free, ReadyAt
<1>7. /\ \A t \in Schedulers : Listed(t, j)' = Listed(t, j) /\ HalfDone(t, j)' = HalfDone(t, j)
      /\ \A r \in Requests : Coming(r, j)' = Coming(r, j)
  BY <1>0, <1>1 DEF Listed, HalfDone, Coming
<1> QED BY <1>3, <1>4, <1>5, <1>6, <1>7, OverKept

\* The invariants of one delivery at a time, of unborn jobs' rows and of terminal rows.
TerminalSafe == TypeInv /\ DeadInv /\ WaitInv /\ SingleInv /\ RowInv /\ TerminalInv

\* Every step keeps terminal rows over.
LEMMA NextTerminal == TerminalSafe /\ [Next]_vars => TerminalInv'
<1> SUFFICES ASSUME TerminalSafe, [Next]_vars PROVE TerminalInv'
  OBVIOUS
<1> USE DEF TerminalSafe
<1>1. ASSUME NEW s \in Schedulers, LoopNext(s) PROVE TerminalInv'
  <2>1. UNCHANGED db /\ disturbed \subseteq disturbed'
    BY <1>1, LoopLeaves
       DEF LoopNext, LMove, LReclaim, LReclaimPush, LGetFails, LCardFails, LFault, LCrash, history
  <2> SUFFICES ASSUME NEW j \in Jobs \ disturbed', IsTerminal(db'[j].status) PROVE Over(j)'
    BY DEF TerminalInv
  <2>2. Over(j) /\ Mutex
    BY <2>1 DEF TerminalInv, SingleInv
  <2> QED BY <1>1, <2>2, LoopOver
<1> QED BY <1>1, WorkerTerminal, RequestTerminal, RestTerminal DEF Next

\* The initial table is empty.
LEMMA InitTerminal == Init => RowInv /\ TerminalInv
BY DEF Init, StoreInit, RowInv, TerminalInv, NoRow, IsTerminal

\* They hold together in every reachable state.
LEMMA TerminalInvariant == Spec => []TerminalSafe
<1>1. Init => TerminalSafe
  BY InitType, InitDead, InitWait, InitSingle, InitTerminal DEF TerminalSafe
<1>2. TerminalSafe /\ [Next]_vars => TerminalSafe'
  BY NextType, NextDead, NextWait, NextSingle, NextRow, NextTerminal DEF TerminalSafe
<1> QED BY <1>1, <1>2, PTL DEF Spec

\* A step that changes the terminal row of a job without a reason for a second
\* delivery is the UPDATE of RetryJob or the DELETE of DeleteJob.
LEMMA TerminalStep ==
  ASSUME TerminalSafe, [Next]_vars, NEW j \in Jobs \ disturbed,
         IsTerminal(db[j].status), db'[j] # db[j]
  PROVE  \E r \in Requests : api[r].job = j /\ api[r].pc \in {"retryUpdate", "delete"}
<1>0. StoreTypeOK /\ Free(j)
  BY DEF TerminalSafe, TypeInv, TypeOK, TerminalInv, Over
<1>1. ASSUME NEW g \in Goroutines, WorkerNext(g) PROVE FALSE
  <2>1. BeginExecution(g) \/ MarkCompleted(g) \/ MarkFailed(g)
    BY <1>1, WorkerRow
  <2>2. gor[g].job \in Jobs
    BY <2>1 DEF BeginExecution, MarkCompleted, MarkFailed, TerminalSafe, TypeInv, BusyPool
  <2>3. gor[g].job = j
    BY <1>0, <2>1, <2>2, UpdateRow DEF BeginExecution, MarkCompleted, MarkFailed
  <2> QED BY <1>0, <2>3 DEF Free
<1>2. ASSUME NEW r \in Requests, RequestNext(r)
      PROVE  api[r].job = j /\ api[r].pc \in {"retryUpdate", "delete"}
  <2>1. ASSUME NEW k \in Jobs, CreateJob(k), k \notin born PROVE FALSE
    <3>1. k = j
      BY <1>0, <2>1 DEF CreateJob, StoreTypeOK
    <3>2. db[j] = NoRow
      BY <2>1, <3>1 DEF TerminalSafe, RowInv
    <3> QED BY <3>2 DEF IsTerminal, NoRow
  <2>2. /\ api[r].pc \in {"retryUpdate", "delete"}
        /\ UpdateJobStatus(api[r].job, "pending", FALSE) \/ DeleteRow(api[r].job)
    BY <1>2, <2>1, RequestRow
  <2>3. api[r].job \in Jobs
    BY <2>2 DEF TerminalSafe, TypeInv, BusyCore
  <2>4. api[r].job = j
    BY <1>0, <2>2, <2>3, UpdateRow DEF DeleteRow, StoreTypeOK
  <2> QED BY <2>2, <2>4
<1> QED BY <1>1, <1>2, OthersKeepRows DEF Next

\* A terminal row is final unless a client retries or deletes the job or there is a
\* reason to deliver the job twice: the goroutine that wrote the status was the only
\* delivery, and nothing that could bring the job to a goroutine again is left.
THEOREM TerminalUnlessRedeliveredHolds == Spec => TerminalUnlessRedelivered
<1>1. TerminalSafe /\ [Next]_vars =>
        [\A j \in Jobs \ disturbed :
           IsTerminal(db[j].status) /\ db'[j] # db[j]
             => \E r \in Requests : api[r].job = j /\ api[r].pc \in {"retryUpdate", "delete"}]_vars
  BY TerminalStep
<1> QED BY <1>1, TerminalInvariant, PTL DEF Spec, TerminalUnlessRedelivered

-----------------------------------------------------------------------------
(* The refinement.  A job that was never enqueued is in nobody's hands:    *)
(* Delivery hands out only jobs that entered.                              *)

EnteredInv ==
    /\ settled \subseteq enqueued
    /\ \A j \in Jobs \ enqueued : Quiet(j) /\ delayed[j] = Absent
    /\ \A g \in Goroutines : gor[g].pc = "idle" => gor[g].job = NoJob

\* A goroutine keeps its job until it is idle again.
GorGoes(g) ==
    \/ gor'[g].pc = gor[g].pc /\ gor'[g].job = gor[g].job
    \/ gor'[g].pc # "idle"
    \/ gor'[g] = Idle

\* Every step of a goroutine does.
LEMMA WorkerGoes ==
  ASSUME TypeInv, NEW g \in Goroutines, WorkerNext(g)
  PROVE  GorGoes(g) /\ OtherGors(g)
<1>0. gor \in [Goroutines -> GorStates]
  BY StateTypes
<1>1. ASSUME NEW pc, pc # "idle", Goto(g, pc) PROVE GorGoes(g) /\ OtherGors(g)
  BY <1>0, <1>1 DEF Goto, GorStates, GorGoes, OtherGors
<1>2. ASSUME gor' = [gor EXCEPT ![g] = Idle] PROVE GorGoes(g) /\ OtherGors(g)
  BY <1>0, <1>2 DEF GorGoes, OtherGors
<1>3. ASSUME gor' = [gor EXCEPT ![g] = Nacked(@)] PROVE GorGoes(g) /\ OtherGors(g)
  BY <1>0, <1>3 DEF GorGoes, OtherGors, Nacked, GorStates
<1>4. ASSUME HandlerSucceeds(g) PROVE GorGoes(g) /\ OtherGors(g)
  BY <1>0, <1>4 DEF HandlerSucceeds, GorGoes, OtherGors, Idle
<1>5. ASSUME NEW j \in Jobs, WDequeue(g, j) \/ WDequeueLost(g, j) PROVE GorGoes(g) /\ OtherGors(g)
  BY <1>0, <1>5 DEF WDequeue, WDequeueLost, Dequeue, DequeueLost, GorGoes, OtherGors
<1>6. ASSUME UpdateFails(g) PROVE GorGoes(g) /\ OtherGors(g)
  BY <1>0, <1>6 DEF UpdateFails, GorGoes, OtherGors, GorStates
<1>7. ASSUME WStep(g) PROVE GorGoes(g) /\ OtherGors(g)
  BY <1>1, <1>2, <1>3, <1>7 DEF WStep, BeginExecution, TimesOut, AckDel, AckRem, MarkCompleted,
     NackSet, NackRem, MarkFailed
<1> QED BY <1>1, <1>3, <1>4, <1>5, <1>6, <1>7
        DEF WorkerNext, WSucceed, WFail, WNackPush, WFault, HandlerFails, NackPush, PipelineAborts

\* Which steps move the history that Delivery looks at.
LEMMA WorkerEnters ==
  ASSUME TypeInv, EnteredInv, NEW g \in Goroutines, WorkerNext(g)
  PROVE  UNCHANGED enqueued /\ settled' \subseteq settled \cup ({gor[g].job} \cap Jobs)
<1>1. gor[g].pc # "idle" => gor[g].job \in Jobs
  BY DEF TypeInv, BusyPool
<1> QED BY <1>1 DEF WorkerNext, WDequeue, WDequeueLost, WSucceed, WFail, WNackPush, WStep, WFault,
     HandlerSucceeds, NackPush, history

\* Worker steps keep EnteredInv: what a goroutine settles, it took from a ready list.
LEMMA WorkerEntered ==
  ASSUME TypeInv, DeadInv, WaitInv, EnteredInv, NEW g \in Goroutines, WorkerNext(g)
  PROVE  EnteredInv'
<1>1. UNCHANGED <<enqueued, delayed>> /\ settled' \subseteq settled \cup ({gor[g].job} \cap Jobs)
  BY WorkerEnters, WorkerFrames
<1>2. gor[g].job \in Jobs => gor[g].job \in enqueued
  BY DEF EnteredInv, Quiet, QuietPool
<1>3. \A j \in Jobs \ enqueued' : Quiet(j)' /\ delayed'[j] = Absent
  BY <1>1, WorkerQuiet DEF EnteredInv
<1>4. \A h \in Goroutines : gor'[h].pc = "idle" => gor'[h].job = NoJob
  BY WorkerGoes DEF EnteredInv, GorGoes, OtherGors, Idle
<1>5. settled' \subseteq enqueued'
  BY <1>1, <1>2 DEF EnteredInv
<1> QED BY <1>3, <1>4, <1>5 DEF EnteredInv

\* A step that leaves alone what Quiet looks at.
LEMMA QuietKept ==
  ASSUME NEW j \in Jobs, Quiet(j), UNCHANGED <<ready, inflight, gor, mover, reclaimer>>,
         db'[j].hasWorker => db[j].hasWorker
  PROVE  Quiet(j)'
BY DEF Quiet, QuietQueue, QuietPool, QuietLoops, ReadyAt

\* Request steps keep EnteredInv: an Enqueue that has run counts as entered.
LEMMA RequestEntered ==
  ASSUME TypeInv, WaitInv, EnteredInv, NEW r \in Requests, RequestNext(r)
  PROVE  EnteredInv'
<1>0. UNCHANGED <<gor, mover, reclaimer, inflight>>
  BY RequestFrames
<1>1. \/ AEnqueue(r) \/ AEnqueueReplyLost(r)
      \/ UNCHANGED <<enqueued, settled, ready, delayed>>
  BY DEF RequestNext, ARetry, ASubmit, AStep, AFault, Retry, Submit, RetryUpdate, DeleteJob, Delete,
         EnqueueFails, StatementFails, queueVars, history
<1>2. CASE AEnqueue(r) \/ AEnqueueReplyLost(r)
  <2>1. /\ Entered(r) /\ UNCHANGED db /\ api[r].pc \in EnqueuePcs
        /\ EnqueueScript(api[r].job, NewJob, api[r].wait, ToReady(api[r]))
    BY <1>2 DEF AEnqueue, AEnqueueReplyLost, Enqueue, EnqueueReplyLost
  <2>2. enqueued' = enqueued \cup {api[r].job} /\ settled' \subseteq settled
    BY <2>1 DEF Entered
  <2>3. api[r].job \in Jobs /\ QueueTypeOK /\ Home
    BY <2>1 DEF TypeInv, TypeOK, BusyCore, EnqueuePcs, WaitInv
  <2>4. \A j \in Jobs \ enqueued' : delayed'[j] = Absent /\ ReadyAt(j)' = ReadyAt(j)
    <3>1. CASE ToReady(api[r])
      BY <2>1, <2>2, <2>3, <3>1, PushReady DEF EnqueueScript, EnteredInv
    <3>2. CASE ~ToReady(api[r])
      BY <2>1, <2>2, <2>3, <3>2 DEF EnqueueScript, EnteredInv, QueueTypeOK, ReadyAt
    <3> QED BY <3>1, <3>2
  <2>5. \A j \in Jobs \ enqueued' : Quiet(j)'
    BY <1>0, <2>1, <2>2, <2>4 DEF EnteredInv, Quiet, QuietQueue, QuietPool, QuietLoops
  <2> QED BY <1>0, <2>2, <2>4, <2>5 DEF EnteredInv
<1>3. CASE UNCHANGED <<enqueued, settled, ready, delayed>>
  <2>1. \A j \in Jobs : db'[j].hasWorker => db[j].hasWorker
    BY RequestShape DEF RequestEnters, RequestWorks, RequestSubmits
  <2>2. \A j \in Jobs \ enqueued' : Quiet(j)' /\ delayed'[j] = Absent
    BY <1>0, <1>3, <2>1, QuietKept DEF EnteredInv
  <2> QED BY <1>0, <1>3, <2>2 DEF EnteredInv
<1> QED BY <1>1, <1>2, <1>3

\* Loop steps keep EnteredInv.
LEMMA LoopEntered ==
  ASSUME TypeInv, WaitInv, EnteredInv, NEW s \in Schedulers, LoopNext(s)
  PROVE  EnteredInv'
<1>1. UNCHANGED <<enqueued, settled, gor>>
  BY LoopLeaves
     DEF LoopNext, LMove, LReclaim, LReclaimPush, LGetFails, LCardFails, LFault, LCrash, history
<1>2. \A j \in Jobs \ enqueued' : Quiet(j)'
  BY <1>1, LoopQuiet DEF EnteredInv, Absent
<1>3. \A j \in Jobs \ enqueued' : delayed'[j] = Absent
  BY <1>1, LoopSets DEF EnteredInv
<1> QED BY <1>1, <1>2, <1>3 DEF EnteredInv

\* So do crashes of workers, time and steps that change nothing.
LEMMA RestEntered ==
  ASSUME TypeInv, EnteredInv, Tick \/ UNCHANGED vars \/ \E w \in Workers : WCrash(w)
  PROVE  EnteredInv'
<1>0. /\ UNCHANGED <<ready, mover, reclaimer, db, enqueued, settled>>
      /\ gor \in [Goroutines -> GorStates] /\ QueueTypeOK
  BY StateTypes
     DEF Tick, QueueTick, CoreTick, vars, queueVars, coreVars, history, WCrash, CrashPool, TypeInv, TypeOK
<1>1. ASSUME NEW g \in Goroutines
      PROVE  gor'[g] = Idle \/ (gor'[g].pc = gor[g].pc /\ gor'[g].job = gor[g].job)
  <2>1. CASE Tick
    <3>1. gor'[g] = [gor[g] EXCEPT !.left = Earlier(gor[g].left), !.due = Earlier(gor[g].due)]
      BY <2>1 DEF Tick, PoolTick
    <3> QED BY <1>0, <3>1 DEF GorStates
  <2>2. ASSUME NEW w \in Workers, WCrash(w)
        PROVE  gor'[g] = Idle \/ (gor'[g].pc = gor[g].pc /\ gor'[g].job = gor[g].job)
    BY <2>2 DEF WCrash, CrashPool
  <2> QED BY <2>1, <2>2 DEF vars
<1>2. ASSUME NEW j \in Jobs
      PROVE  /\ delayed[j] = Absent => delayed'[j] = Absent
             /\ \A w \in Workers : inflight[w][j] = Absent => inflight'[w][j] = Absent
  <2>1. CASE Tick
    BY <2>1 DEF Tick, QueueTick, Earlier, Absent
  <2>2. CASE UNCHANGED <<delayed, inflight>>
    BY <2>2
  <2> QED BY <2>1, <2>2 DEF vars, queueVars, WCrash, CrashPool
<1>3. \A j \in Jobs \ enqueued' : Quiet(j)' /\ delayed'[j] = Absent
  <2> SUFFICES ASSUME NEW j \in Jobs \ enqueued PROVE Quiet(j)' /\ delayed'[j] = Absent
    BY <1>0
  <2>1. Quiet(j) /\ delayed[j] = Absent
    BY DEF EnteredInv
  <2>2. QuietPool(j)'
    BY <1>0, <1>1, <2>1, JobAssumption DEF Quiet, QuietPool, Idle
  <2>3. QuietQueue(j)' /\ QuietLoops(j)'
    BY <1>0, <1>2, <2>1 DEF Quiet, QuietQueue, QuietLoops, ReadyAt
  <2> QED BY <1>2, <2>1, <2>2, <2>3 DEF Quiet
<1> QED BY <1>0, <1>1, <1>3 DEF EnteredInv, Idle

\* Every step of the system keeps EnteredInv.
LEMMA NextEntered == TypeInv /\ DeadInv /\ WaitInv /\ EnteredInv /\ [Next]_vars => EnteredInv'
BY WorkerEntered, RequestEntered, LoopEntered, RestEntered DEF Next

\* Nothing is enqueued at the start.
LEMMA InitEntered == Init => EnteredInv
<1> SUFFICES ASSUME Init PROVE EnteredInv
  OBVIOUS
<1>2. \A j \in Jobs : Quiet(j)
  BY InitWait DEF Init, WaitInv, UnbornInv
<1> QED BY <1>2 DEF Init, QueueInit, PoolInit, EnteredInv, Idle

\* Only submitted jobs are enqueued, or in the hands of a request.
BornInv ==
    /\ enqueued \subseteq born
    /\ \A r \in Requests : api[r].pc # "idle" => api[r].job \in born

\* Every step keeps it: RetryJob and DeleteJob first find a row.
LEMMA NextBorn == TypeInv /\ RowInv /\ BornInv /\ [Next]_vars => BornInv'
<1> SUFFICES ASSUME TypeInv, RowInv, BornInv, [Next]_vars PROVE BornInv'
  OBVIOUS
<1>0. api \in [Requests -> ApiStates]
  BY StateTypes
<1>1. ASSUME NEW g \in Goroutines, WorkerNext(g) PROVE BornInv'
  <2>1. UNCHANGED <<api, born>>
    BY <1>1, WorkerFrames
  <2>2. UNCHANGED enqueued
    BY <1>1 DEF WorkerNext, WDequeue, WDequeueLost, WSucceed, WFail, WNackPush, WStep, WFault, history
  <2> QED BY <2>1, <2>2 DEF BornInv
<1>2. ASSUME NEW s \in Schedulers, LoopNext(s) PROVE BornInv'
  <2>1. UNCHANGED <<born, enqueued>>
    BY <1>2, LoopLeaves
       DEF LoopNext, LMove, LReclaim, LReclaimPush, LGetFails, LCardFails, LFault, LCrash, history
  <2>2. \A r \in Requests : api'[r] \in {api[r], IdleApi}
    BY <1>2, LoopLeaves DEF CrashScheduler
  <2> QED BY <2>1, <2>2 DEF BornInv, IdleApi
<1>3. ASSUME UNCHANGED <<born, enqueued>>,
             \A r \in Requests : api'[r].pc = api[r].pc /\ api'[r].job = api[r].job
      PROVE  BornInv'
  BY <1>3 DEF BornInv
<1>4. CASE Tick
  <2>1. \A r \in Requests : api'[r] = [api[r] EXCEPT !.wait = Earlier(api[r].wait)]
    BY <1>4 DEF Tick, CoreTick
  <2>2. \A r \in Requests : api'[r].pc = api[r].pc /\ api'[r].job = api[r].job
    BY <1>0, <2>1 DEF ApiStates
  <2> QED BY <1>3, <1>4, <2>2 DEF Tick
<1>5. ASSUME UNCHANGED vars \/ \E w \in Workers : WCrash(w) PROVE BornInv'
  BY <1>3, <1>5 DEF WCrash, vars, coreVars, history
<1>6. ASSUME NEW r \in Requests, RequestNext(r) PROVE BornInv'
  <2>1. ASSUME NEW a, api' = [api EXCEPT ![r] = a], a.pc = "idle" \/ a.job \in born',
               born \subseteq born', enqueued' \subseteq born'
        PROVE  BornInv'
    BY <1>0, <2>1 DEF BornInv
  <2>2. ASSUME NEW j \in Jobs, NEW wait \in Delays, ASubmit(r, j, wait) PROVE BornInv'
    BY <2>1, <2>2 DEF ASubmit, Submit, BornInv
  <2>3. ASSUME NEW j \in Jobs, ARetry(r, j) \/ (Delete(r, j) /\ UNCHANGED history) PROVE BornInv'
    <3>1. j \in born /\ UNCHANGED <<born, enqueued>>
      BY <2>3 DEF ARetry, Retry, Delete, Readable, Exists, RowInv, history
    <3> QED BY <2>1, <2>3, <3>1 DEF ARetry, Retry, Delete, BornInv
  <2>4. AfterError(api[r]).pc = "idle" \/ AfterError(api[r]).job = api[r].job
    BY <1>0 DEF AfterError, IdleApi, ApiStates
  <2>5. CASE AEnqueue(r) \/ AEnqueueReplyLost(r)
    <3>1. /\ api[r].job \in born /\ UNCHANGED born /\ enqueued' = enqueued \cup {api[r].job}
          /\ api' = [api EXCEPT ![r] = IdleApi] \/ api' = [api EXCEPT ![r] = AfterError(api[r])]
      BY <2>5 DEF AEnqueue, AEnqueueReplyLost, Enqueue, EnqueueReplyLost, EnqueuePcs, Entered, BornInv
    <3>2. IdleApi.pc = "idle"
      BY DEF IdleApi
    <3> QED BY <2>1, <2>4, <3>1, <3>2 DEF BornInv
  <2>6. CASE AFault(r)
    <3>1. /\ api[r].job \in born /\ UNCHANGED <<born, enqueued>>
          /\ api' = [api EXCEPT ![r] = IdleApi] \/ api' = [api EXCEPT ![r] = AfterError(api[r])]
      BY <2>6 DEF AFault, EnqueueFails, StatementFails, EnqueuePcs, BornInv
    <3>2. IdleApi.pc = "idle"
      BY DEF IdleApi
    <3> QED BY <2>1, <2>4, <3>1, <3>2 DEF BornInv
  <2>7. ASSUME RetryUpdate(r) \/ DeleteJob(r), UNCHANGED history PROVE BornInv'
    <3> DEFINE a == [api[r] EXCEPT !.pc = "enqueue"]
    <3>1. /\ api[r].job \in born /\ UNCHANGED <<born, enqueued>>
          /\ api' = [api EXCEPT ![r] = IdleApi] \/ api' = [api EXCEPT ![r] = a]
      BY <2>7 DEF RetryUpdate, DeleteJob, BornInv, history
    <3>2. IdleApi.pc = "idle" /\ a.job = api[r].job
      BY <1>0 DEF IdleApi, ApiStates
    <3> HIDE DEF a
    <3> QED BY <2>1, <3>1, <3>2 DEF BornInv
  <2> QED BY <1>6, <2>2, <2>3, <2>5, <2>6, <2>7 DEF RequestNext, AStep
<1> QED BY <1>1, <1>2, <1>4, <1>5, <1>6 DEF Next

-----------------------------------------------------------------------------
(* The state of Delivery, as the refinement mapping gives it.              *)

St == [j \in Jobs |-> StateOf(j)]
Ex == [g \in Goroutines |-> [job |-> gor[g].job, end |-> EndOf(gor[g].pc)]]
Ro == [j \in Jobs |-> db[j].status]

\* A step of Delivery, or none.
Simulated == Promise!DeliveryNext \/ UNCHANGED Promise!deliveryVars

\* An owed job is deliverable, so that "gone" never happens.
Stage(j) ==
    IF Excused(j) THEN "excused"
    ELSE IF j \notin enqueued THEN "new"
    ELSE IF j \in settled THEN "settled" ELSE "owed"

\* The invariants that the simulation rests on.
SimInv == TerminalSafe /\ DeliveryInv /\ EnteredInv /\ BornInv

\* The mapping, with at-least-once delivery put in.
LEMMA StageIs == SimInv => St = [j \in Jobs |-> Stage(j)]
<1> SUFFICES ASSUME SimInv, NEW j \in Jobs PROVE StateOf(j) = Stage(j)
  BY DEF St
<1>0. settled \subseteq enqueued
  BY DEF SimInv, EnteredInv
<1>1. CASE Excused(j)
  BY <1>1 DEF StateOf, Stage
<1>2. CASE ~Excused(j) /\ j \notin enqueued
  BY <1>0, <1>2 DEF StateOf, Stage
<1>3. CASE ~Excused(j) /\ j \in settled
  BY <1>0, <1>3 DEF StateOf, Stage
<1>4. CASE ~Excused(j) /\ j \in enqueued \ settled
  <2>1. j \in Unsettled
    BY <1>4 DEF Excused, Unsettled
  <2>2. Deliverable(j)
    BY <2>1 DEF SimInv, DeliveryInv, Tracked, Safe, Deliverable
  <2> QED BY <1>4, <2>2 DEF StateOf, Stage
<1> QED BY <1>1, <1>2, <1>3, <1>4

\* How an execution has ended, by where its goroutine is.
LEMMA EndOfPc ==
  /\ EndOf("idle") = "none"
  /\ \A pc \in {"begin", "run"} : EndOf(pc) = "open"
  /\ \A pc \in {"ackDel", "ackRem", "dbDone"} : EndOf(pc) = "success"
  /\ \A pc \in {"nackSet", "nackPush", "nackRem", "dbFail"} : EndOf(pc) = "failure"
BY DEF EndOf, AckPcs, NackPcs

-----------------------------------------------------------------------------
(* The steps of Delivery, on the mapped state.                             *)

\* Nothing that Delivery knows of changes.
LEMMA SimStutter ==
  ASSUME St' = St, Ex' = Ex, Ro' = Ro
  PROVE  Simulated
BY DEF Simulated, Promise!deliveryVars, St, Ex, Ro

\* The promise ends for some jobs.
LEMMA SimExcuse ==
  ASSUME NEW S \in SUBSET Jobs, St' = [j \in Jobs |-> IF j \in S THEN "excused" ELSE St[j]],
         Ex' = Ex, Ro' = Ro
  PROVE  Simulated
BY DEF Simulated, Promise!DeliveryNext, Promise!Excuse, St, Ex, Ro

\* A goroutine begins to execute a job.
LEMMA SimHandOut ==
  ASSUME NEW g \in Goroutines, NEW j \in Jobs, Ex[g] = [job |-> NoJob, end |-> "none"],
         St[j] # "new", Ex' = [Ex EXCEPT ![g] = [job |-> j, end |-> "open"]],
         St' = St \/ St' = [St EXCEPT ![j] = "excused"], Ro' = Ro
  PROVE  Simulated
BY DEF Simulated, Promise!DeliveryNext, Promise!HandOut, Promise!Resting, St, Ex, Ro

\* A handler succeeds.
LEMMA SimSucceed ==
  ASSUME NEW g \in Goroutines, Ex[g].end = "open", Ex' = [Ex EXCEPT ![g].end = "success"],
         St' = IF St[Ex[g].job] = "owed" THEN [St EXCEPT ![Ex[g].job] = "settled"] ELSE St, Ro' = Ro
  PROVE  Simulated
BY DEF Simulated, Promise!DeliveryNext, Promise!Succeed, Promise!Settle, St, Ex, Ro

\* A handler fails or times out.
LEMMA SimFail ==
  ASSUME NEW g \in Goroutines, Ex[g].end = "open", Ex' = [Ex EXCEPT ![g].end = "failure"],
         St' = St, Ro' = Ro
  PROVE  Simulated
BY DEF Simulated, Promise!DeliveryNext, Promise!Fail, St, Ex, Ro

\* A failed job reaches the DLQ.
LEMMA SimBury ==
  ASSUME NEW g \in Goroutines, Ex[g].end = "failure", Ex' = Ex,
         St' = IF St[Ex[g].job] = "owed" THEN [St EXCEPT ![Ex[g].job] = "settled"] ELSE St, Ro' = Ro
  PROVE  Simulated
BY DEF Simulated, Promise!DeliveryNext, Promise!Bury, Promise!Settle, St, Ex, Ro

\* A goroutine writes the row of its job.
LEMMA SimWrite ==
  ASSUME NEW g \in Goroutines, Ex[g].end # "none", NEW status,
         status \in Promise!Writes(Ex[g].end),
         Ro' = IF Ro[Ex[g].job] = "none" THEN Ro ELSE [Ro EXCEPT ![Ex[g].job] = status],
         Ex' = IF Ex[g].end = "open" THEN Ex
               ELSE [Ex EXCEPT ![g] = [job |-> NoJob, end |-> "none"]],
         St' = St
  PROVE  Simulated
BY DEF Simulated, Promise!DeliveryNext, Promise!Write, Promise!Resting, St, Ex, Ro

\* Goroutines die, or give up writing the row.
LEMMA SimDie ==
  ASSUME NEW G \in SUBSET Goroutines,
         Ex' = [g \in Goroutines |-> IF g \in G THEN [job |-> NoJob, end |-> "none"] ELSE Ex[g]],
         St' = St, Ro' = Ro
  PROVE  Simulated
BY DEF Simulated, Promise!DeliveryNext, Promise!Die, Promise!Resting, St, Ex, Ro

\* A client submits a job.
LEMMA SimAccept ==
  ASSUME NEW j \in Jobs, Ro[j] = "none", Ro' = [Ro EXCEPT ![j] = "pending"], St' = St, Ex' = Ex
  PROVE  Simulated
BY DEF Simulated, Promise!DeliveryNext, Promise!Accept, St, Ex, Ro

\* A job enters the queue.
LEMMA SimEnter ==
  ASSUME NEW j \in Jobs, St[j] \in {"new", "settled"}, St' = [St EXCEPT ![j] = "owed"],
         Ex' = Ex, Ro' = Ro
  PROVE  Simulated
BY DEF Simulated, Promise!DeliveryNext, Promise!Enter, St, Ex, Ro

\* A client retries a job.
LEMMA SimReopen ==
  ASSUME NEW j \in Jobs, Ro[j] # "none", Ro' = [Ro EXCEPT ![j] = "pending"], St' = St, Ex' = Ex
  PROVE  Simulated
BY DEF Simulated, Promise!DeliveryNext, Promise!Reopen, St, Ex, Ro

\* A client deletes a job.
LEMMA SimWithdraw ==
  ASSUME NEW j \in Jobs, Ro[j] # "none", Ro' = [Ro EXCEPT ![j] = "none"],
         St' = IF St[j] = "new" THEN St ELSE [St EXCEPT ![j] = "excused"], Ex' = Ex
  PROVE  Simulated
BY DEF Simulated, Promise!DeliveryNext, Promise!Withdraw, St, Ex, Ro

\* A job may be excused, and nothing else happens.
LEMMA SimMark ==
  ASSUME NEW j \in Jobs, St' = St \/ St' = [St EXCEPT ![j] = "excused"], Ex' = Ex, Ro' = Ro
  PROVE  Simulated
<1>1. CASE St' = [St EXCEPT ![j] = "excused"]
  <2>1. St' = [k \in Jobs |-> IF k \in {j} THEN "excused" ELSE St[k]]
    BY <1>1 DEF St
  <2>2. {j} \in SUBSET Jobs
    OBVIOUS
  <2> QED BY <2>1, <2>2, SimExcuse
<1> QED BY <1>1, SimStutter

\* What an execution may write.
LEMMA WritesAre ==
  /\ Promise!Writes("open") = {"running"}
  /\ Promise!Writes("success") = {"completed"}
  /\ Promise!Writes("failure") = {"failed", "dead_letter"}
BY DEF Promise!Writes

-----------------------------------------------------------------------------
(* What a step of the system does to the mapped state.                     *)

\* The mapped stages before and after a step.
Staged == St = [j \in Jobs |-> Stage(j)] /\ St' = [j \in Jobs |-> Stage(j)']

\* No row comes or goes.
RowsStay == \A j \in Jobs : Exists(j)' <=> Exists(j)

\* Not when the table is left alone, nor when a row is updated.
LEMMA RowsStayWhen ==
  /\ UNCHANGED db => RowsStay
  /\ StoreTypeOK => \A j \in Jobs, status \in Statuses, b \in BOOLEAN :
                       UpdateJobStatus(j, status, b) => RowsStay
<1>1. ASSUME UNCHANGED db PROVE RowsStay
  BY <1>1 DEF RowsStay, Exists
<1>2. ASSUME StoreTypeOK, NEW j \in Jobs, NEW status \in Statuses, NEW b \in BOOLEAN,
             UpdateJobStatus(j, status, b)
      PROVE  RowsStay
  <2>1. "none" \notin Statuses
    BY DEF Statuses
  <2> QED BY <1>2, <2>1, UpdateRow DEF RowsStay, Exists, NoRow
<1> QED BY <1>1, <1>2

\* No job changes its stage.
LEMMA StKept ==
  ASSUME Staged, RowsStay, UNCHANGED <<enqueued, settled, raced, lost>>
  PROVE  St' = St
<1>1. \A j \in Jobs : Stage(j)' = Stage(j)
  BY DEF RowsStay, Stage, Excused
<1> QED BY <1>1 DEF Staged

\* Nothing happens to the goroutines.
LEMMA ExKept ==
  ASSUME \A g \in Goroutines : gor'[g].job = gor[g].job /\ EndOf(gor'[g].pc) = EndOf(gor[g].pc)
  PROVE  Ex' = Ex
BY DEF Ex

\* One goroutine moves on.
LEMMA ExMoves ==
  ASSUME NEW g \in Goroutines, OtherGors(g), NEW j, NEW e, gor'[g].job = j, EndOf(gor'[g].pc) = e
  PROVE  Ex' = [Ex EXCEPT ![g] = [job |-> j, end |-> e]]
BY DEF Ex, OtherGors

\* An UPDATE changes the status of a row that is there.
LEMMA RoUpdate ==
  ASSUME StoreTypeOK, NEW j \in Jobs, NEW status, NEW b, UpdateJobStatus(j, status, b)
  PROVE  Ro' = IF Ro[j] = "none" THEN Ro ELSE [Ro EXCEPT ![j] = status]
<1>1. Exists(j) <=> Ro[j] # "none"
  BY DEF StoreTypeOK, Rows, NoRow, Statuses, Exists, Ro
<1>2. CASE Exists(j)
  <2>1. db'[j].status = status /\ \A k \in Jobs \ {j} : db'[k] = db[k]
    BY <1>2, UpdateRow
  <2> QED BY <1>1, <1>2, <2>1 DEF Ro
<1>3. CASE ~Exists(j)
  BY <1>1, <1>3 DEF UpdateJobStatus, Ro
<1> QED BY <1>2, <1>3

\* A job that is owed becomes settled, any other stays as it is.
LEMMA StSettles ==
  ASSUME Staged, RowsStay, NEW j \in Jobs, j \in enqueued, settled' = settled \cup {j},
         UNCHANGED <<enqueued, raced, lost>>
  PROVE  St' = IF St[j] = "owed" THEN [St EXCEPT ![j] = "settled"] ELSE St
<1>1. \A k \in Jobs \ {j} : Stage(k)' = Stage(k)
  BY DEF Stage, Excused, RowsStay
<1>2. Stage(j)' = IF Stage(j) = "owed" THEN "settled" ELSE Stage(j)
  BY DEF Stage, Excused, RowsStay
<1> QED BY <1>1, <1>2 DEF Staged

\* A race excuses its job.
LEMMA StRaces ==
  ASSUME Staged, RowsStay, NEW j \in Jobs, raced' = raced \/ raced' = raced \cup {j},
         UNCHANGED <<enqueued, settled, lost>>
  PROVE  St' = St \/ St' = [St EXCEPT ![j] = "excused"]
<1>1. CASE raced' = raced \cup {j}
  <2>1. \A k \in Jobs \ {j} : Stage(k)' = Stage(k)
    BY <1>1 DEF Stage, Excused, RowsStay
  <2>2. Stage(j)' = "excused"
    BY <1>1 DEF Stage, Excused
  <2> QED BY <2>1, <2>2 DEF Staged
<1> QED BY <1>1, StKept

-----------------------------------------------------------------------------
(* The simulation, action by action.                                       *)

\* A Dequeue hands out a job that entered, unless its record or its reply is lost.
LEMMA DequeueSim ==
  ASSUME SimInv, Staged, NEW g \in Goroutines, NEW j \in Jobs, WDequeue(g, j) \/ WDequeueLost(g, j)
  PROVE  Simulated
<1>0. QueueTypeOK /\ Home /\ gor \in [Goroutines -> GorStates] /\ PoolOf[g] \in Workers
  BY StateTypes, PoolAssumption DEF SimInv, TerminalSafe, TypeInv, TypeOK, WaitInv
<1>1. gor[g].pc = "idle" /\ DequeueScript(PoolOf[g], j)
  BY DEF WDequeue, WDequeueLost, Dequeue, DequeueLost
<1>2. Ex[g] = [job |-> NoJob, end |-> "none"]
  BY <1>1, EndOfPc DEF Ex, SimInv, EnteredInv
<1>3. St[j] # "new"
  <2>1. ReadyAt(j) # {}
    BY <1>0, <1>1, PopReady, InReadyAt
  <2>2. j \in enqueued
    BY <2>1 DEF SimInv, EnteredInv, Quiet, QuietQueue
  <2> QED BY <2>2 DEF Staged, Stage
<1>4. St' = St \/ St' = [St EXCEPT ![j] = "excused"]
  <2>1. RowsStay
    BY RowsStayWhen DEF WDequeue, WDequeueLost, Dequeue, DequeueLost
  <2> QED BY <2>1, StRaces DEF WDequeue, WDequeueLost
<1>5. Ro' = Ro
  BY DEF WDequeue, WDequeueLost, Dequeue, DequeueLost, Ro
<1>6. CASE UNCHANGED gor
  BY <1>4, <1>5, <1>6, ExKept, SimMark
<1>7. CASE gor' = [gor EXCEPT ![g] = [pc |-> "begin", job |-> j, rec |-> data[j],
                                      due |-> due[j], left |-> Timeout[j]]]
  <2>1. OtherGors(g) /\ gor'[g].job = j /\ EndOf(gor'[g].pc) = "open"
    BY <1>0, <1>7, EndOfPc DEF OtherGors
  <2>2. Ex' = [Ex EXCEPT ![g] = [job |-> j, end |-> "open"]]
    BY <2>1, ExMoves
  <2> QED BY <1>2, <1>3, <1>4, <1>5, <2>2, SimHandOut
<1> QED BY <1>6, <1>7 DEF WDequeue, WDequeueLost, Dequeue, DequeueLost

\* A goroutine that has a job has one that entered.
LEMMA BusyEntered ==
  ASSUME SimInv, NEW g \in Goroutines, gor[g].pc # "idle"
  PROVE  /\ gor[g].job \in Jobs /\ gor[g].job \in enqueued /\ gor[g] \in GorStates
         /\ Ex[g] = [job |-> gor[g].job, end |-> EndOf(gor[g].pc)]
<1>1. gor[g].job \in Jobs /\ gor[g] \in GorStates
  BY StateTypes DEF SimInv, TerminalSafe, TypeInv, BusyPool
<1> QED BY <1>1 DEF SimInv, EnteredInv, Quiet, QuietPool, Ex

\* Moving on without an outcome.
LEMMA GotoSim ==
  ASSUME SimInv, Staged, NEW g \in Goroutines, NEW pc, Goto(g, pc), EndOf(pc) = EndOf(gor[g].pc)
  PROVE  Ex' = Ex
<1>1. gor \in [Goroutines -> GorStates]
  BY StateTypes DEF SimInv, TerminalSafe
<1>2. gor'[g].job = gor[g].job /\ gor'[g].pc = pc /\ OtherGors(g)
  BY <1>1 DEF Goto, GorStates, OtherGors
<1> QED BY <1>2, ExKept DEF OtherGors

\* Success, failure and timeout end an execution; the DLQ settles its job.
LEMMA OutcomeSim ==
  ASSUME SimInv, Staged, NEW g \in Goroutines,
         WSucceed(g) \/ WFail(g) \/ WNackPush(g) \/ (WStep(g) /\ TimesOut(g))
  PROVE  Simulated
<1>0. gor[g].pc \in {"run", "nackPush"}
  BY DEF WSucceed, WFail, WNackPush, WStep, HandlerSucceeds, HandlerFails, NackPush, TimesOut
<1>1. /\ gor[g].job \in Jobs /\ gor[g].job \in enqueued /\ gor[g] \in GorStates
      /\ Ex[g] = [job |-> gor[g].job, end |-> EndOf(gor[g].pc)]
      /\ gor \in [Goroutines -> GorStates]
  BY <1>0, BusyEntered, StateTypes DEF SimInv, TerminalSafe
<1>2. Ro' = Ro /\ RowsStay
  <2>1. UNCHANGED db
    BY DEF WSucceed, WFail, WNackPush, WStep, HandlerSucceeds, HandlerFails, NackPush, TimesOut
  <2> QED BY <2>1, RowsStayWhen DEF Ro
<1>3. CASE WSucceed(g)
  <2>1. gor[g].pc = "run" /\ OtherGors(g) /\ gor'[g].job = gor[g].job /\ gor'[g].pc = "ackDel"
    BY <1>1, <1>3 DEF WSucceed, HandlerSucceeds, OtherGors, Idle
  <2>2. Ex[g].end = "open" /\ EndOf(gor'[g].pc) = "success"
    BY <1>1, <2>1, EndOfPc
  <2>3. Ex' = [Ex EXCEPT ![g] = [job |-> gor[g].job, end |-> "success"]]
    BY <2>1, <2>2, ExMoves
  <2>4. Ex' = [Ex EXCEPT ![g].end = "success"] /\ Ex[g].job = gor[g].job
    BY <1>1, <2>3 DEF Ex
  <2>5. St' = IF St[gor[g].job] = "owed" THEN [St EXCEPT ![gor[g].job] = "settled"] ELSE St
    BY <1>1, <1>2, <1>3, StSettles DEF WSucceed
  <2> QED BY <1>2, <2>2, <2>4, <2>5, SimSucceed
<1>4. CASE WFail(g) \/ (WStep(g) /\ TimesOut(g))
  <2>1. gor[g].pc = "run" /\ gor' = [gor EXCEPT ![g] = Nacked(@)] /\ UNCHANGED history
    BY <1>4 DEF WFail, WStep, HandlerFails, TimesOut
  <2>2. OtherGors(g) /\ gor'[g].job = gor[g].job /\ gor'[g].pc = "nackSet"
    BY <1>1, <2>1 DEF OtherGors, Nacked, GorStates
  <2>3. Ex[g].end = "open" /\ EndOf(gor'[g].pc) = "failure"
    BY <1>1, <2>1, <2>2, EndOfPc
  <2>4. Ex' = [Ex EXCEPT ![g] = [job |-> gor[g].job, end |-> "failure"]]
    BY <2>2, <2>3, ExMoves
  <2>5. Ex' = [Ex EXCEPT ![g].end = "failure"]
    BY <1>1, <2>4 DEF Ex
  <2>6. St' = St
    BY <1>2, <2>1, StKept DEF history
  <2> QED BY <1>2, <2>3, <2>5, <2>6, SimFail
<1>5. CASE WNackPush(g)
  <2>1. gor[g].pc = "nackPush" /\ (Goto(g, "dbFail") \/ Goto(g, "nackRem"))
    BY <1>5 DEF WNackPush, NackPush
  <2>2. Ex' = Ex
    BY <2>1, GotoSim, EndOfPc
  <2>3. Ex[g].end = "failure" /\ Ex[g].job = gor[g].job
    BY <1>1, <2>1, EndOfPc
  <2>4. CASE settled' = settled \cup {gor[g].job}
    <3>1. St' = IF St[gor[g].job] = "owed" THEN [St EXCEPT ![gor[g].job] = "settled"] ELSE St
      BY <1>1, <1>2, <1>5, <2>4, StSettles DEF WNackPush
    <3> QED BY <1>2, <2>2, <2>3, <3>1, SimBury
  <2>5. CASE settled' = settled
    <3>1. St' = St
      BY <1>2, <1>5, <2>5, StKept DEF WNackPush
    <3> QED BY <1>2, <2>2, <3>1, SimStutter
  <2> QED BY <1>5, <2>4, <2>5 DEF WNackPush
<1> QED BY <1>3, <1>4, <1>5

\* The row says what the execution came to.
LEMMA WriteSim ==
  ASSUME SimInv, Staged, NEW g \in Goroutines, WStep(g),
         BeginExecution(g) \/ MarkCompleted(g) \/ MarkFailed(g)
  PROVE  Simulated
<1>0. gor[g].pc \in {"begin", "dbDone", "dbFail"} /\ StoreTypeOK /\ UNCHANGED history
  BY DEF BeginExecution, MarkCompleted, MarkFailed, WStep, SimInv, TerminalSafe, TypeInv, TypeOK
<1>1. /\ gor[g].job \in Jobs
      /\ Ex[g] = [job |-> gor[g].job, end |-> EndOf(gor[g].pc)]
      /\ gor \in [Goroutines -> GorStates]
  BY <1>0, BusyEntered, StateTypes DEF SimInv, TerminalSafe
<1>2. St' = St
  <2>1. PICK status \in Statuses, b \in BOOLEAN : UpdateJobStatus(gor[g].job, status, b)
    BY DEF BeginExecution, MarkCompleted, MarkFailed, Statuses
  <2> QED BY <1>0, <1>1, <2>1, RowsStayWhen, StKept DEF history
<1>3. CASE BeginExecution(g)
  <2>1. gor[g].pc = "begin" /\ UpdateJobStatus(gor[g].job, "running", TRUE) /\ Goto(g, "run")
    BY <1>3 DEF BeginExecution
  <2>2. Ex' = Ex /\ Ex[g].end = "open" /\ Ex[g].job = gor[g].job
    BY <1>1, <2>1, GotoSim, EndOfPc
  <2>3. Ro' = IF Ro[gor[g].job] = "none" THEN Ro ELSE [Ro EXCEPT ![gor[g].job] = "running"]
    BY <1>0, <1>1, <2>1, RoUpdate
  <2> QED BY <1>2, <2>2, <2>3, SimWrite, WritesAre
<1>4. ASSUME gor' = [gor EXCEPT ![g] = Idle]
      PROVE  Ex' = [Ex EXCEPT ![g] = [job |-> NoJob, end |-> "none"]]
  <2>1. OtherGors(g) /\ gor'[g].job = NoJob /\ EndOf(gor'[g].pc) = "none"
    BY <1>1, <1>4, EndOfPc DEF OtherGors, Idle
  <2> QED BY <2>1, ExMoves
<1>5. CASE MarkCompleted(g)
  <2>1. Ex[g].end = "success" /\ Ex[g].job = gor[g].job
    BY <1>1, <1>5, EndOfPc DEF MarkCompleted
  <2>2. Ex' = [Ex EXCEPT ![g] = [job |-> NoJob, end |-> "none"]]
    BY <1>4, <1>5 DEF MarkCompleted
  <2>3. Ro' = IF Ro[gor[g].job] = "none" THEN Ro ELSE [Ro EXCEPT ![gor[g].job] = "completed"]
    BY <1>0, <1>1, <1>5, RoUpdate DEF MarkCompleted
  <2> QED BY <1>2, <2>1, <2>2, <2>3, SimWrite, WritesAre
<1>6. CASE MarkFailed(g)
  <2>1. Ex[g].end = "failure" /\ Ex[g].job = gor[g].job
    BY <1>1, <1>6, EndOfPc DEF MarkFailed
  <2>2. Ex' = [Ex EXCEPT ![g] = [job |-> NoJob, end |-> "none"]]
    BY <1>4, <1>6 DEF MarkFailed
  <2>3. PICK status \in {"failed", "dead_letter"} : UpdateJobStatus(gor[g].job, status, FALSE)
    BY <1>6 DEF MarkFailed
  <2>4. Ro' = IF Ro[gor[g].job] = "none" THEN Ro ELSE [Ro EXCEPT ![gor[g].job] = status]
    BY <1>0, <1>1, <2>3, RoUpdate
  <2> QED BY <1>2, <2>1, <2>2, <2>4, SimWrite, WritesAre
<1> QED BY <1>3, <1>5, <1>6

\* Pipelines change nothing that Delivery knows of, whole or broken off.
LEMMA PipelineSim ==
  ASSUME SimInv, Staged, NEW g \in Goroutines, UNCHANGED <<enqueued, settled, raced, lost>>,
         AckDel(g) \/ AckRem(g) \/ NackSet(g) \/ NackRem(g) \/ PipelineAborts(g)
  PROVE  Simulated
<1>1. Ro' = Ro /\ RowsStay
  <2>1. UNCHANGED db
    BY DEF AckDel, AckRem, NackSet, NackRem, PipelineAborts
  <2> QED BY <2>1, RowsStayWhen DEF Ro
<1>2. Ex' = Ex
  <2>1. CASE AckDel(g) \/ AckRem(g) \/ NackSet(g) \/ NackRem(g)
    BY <2>1, GotoSim, EndOfPc DEF AckDel, AckRem, NackSet, NackRem
  <2>2. CASE PipelineAborts(g)
    BY <2>2, GotoSim, EndOfPc DEF PipelineAborts, AckPcs, NackPcs
  <2> QED BY <2>1, <2>2
<1> QED BY <1>1, <1>2, StKept, SimStutter

\* A failed UPDATE: the goroutine goes on to run the job, or gives up the row.
LEMMA UpdateFailsSim ==
  ASSUME SimInv, Staged, NEW g \in Goroutines, UNCHANGED <<enqueued, settled, raced, lost>>,
         UpdateFails(g)
  PROVE  Simulated
<1>0. gor \in [Goroutines -> GorStates]
  BY StateTypes DEF SimInv, TerminalSafe
<1>1. Ro' = Ro /\ St' = St
  <2>1. UNCHANGED db
    BY DEF UpdateFails
  <2> QED BY <2>1, RowsStayWhen, StKept DEF Ro
<1>2. CASE gor[g].pc = "begin"
  <2>1. OtherGors(g) /\ gor'[g].job = gor[g].job /\ gor'[g].pc = "run"
    BY <1>0, <1>2 DEF UpdateFails, OtherGors, GorStates
  <2>2. Ex' = Ex
    BY <1>2, <2>1, ExKept, EndOfPc DEF OtherGors
  <2> QED BY <1>1, <2>2, SimStutter
<1>3. CASE gor[g].pc # "begin"
  <2>1. OtherGors(g) /\ gor'[g].job = NoJob /\ EndOf(gor'[g].pc) = "none"
    BY <1>0, <1>3, EndOfPc DEF UpdateFails, OtherGors, Idle
  <2>2. Ex' = [Ex EXCEPT ![g] = [job |-> NoJob, end |-> "none"]]
    BY <2>1, ExMoves
  <2>3. Ex' = [h \in Goroutines |-> IF h \in {g} THEN [job |-> NoJob, end |-> "none"] ELSE Ex[h]]
    BY <2>2 DEF Ex
  <2>4. {g} \in SUBSET Goroutines
    OBVIOUS
  <2> QED BY <1>1, <2>3, <2>4, SimDie
<1> QED BY <1>2, <1>3

\* Every step of a goroutine is a step of Delivery.
LEMMA WorkerSim ==
  ASSUME SimInv, Staged, NEW g \in Goroutines, WorkerNext(g)
  PROVE  Simulated
<1>1. CASE WStep(g)
  <2>1. UNCHANGED <<enqueued, settled, raced, lost>>
    BY <1>1 DEF WStep, history
  <2> QED BY <1>1, <2>1, OutcomeSim, WriteSim, PipelineSim DEF WStep
<1>2. CASE WFault(g)
  BY <1>2, PipelineSim, UpdateFailsSim DEF WFault
<1> QED BY <1>1, <1>2, DequeueSim, OutcomeSim DEF WorkerNext

\* What an Enqueue that has run does to the stage of its job.
LEMMA StEnters ==
  ASSUME SimInv, Staged, RowsStay, NEW r \in Requests, NEW j \in Jobs, api[r].job = j, Entered(r)
  PROVE  \/ St' = St
         \/ St' = [St EXCEPT ![j] = "excused"]
         \/ St[j] \in {"new", "settled"} /\ St' = [St EXCEPT ![j] = "owed"]
<1>0. settled \subseteq enqueued
  BY DEF SimInv, EnteredInv
<1>1. /\ enqueued' = enqueued \cup {j} /\ UNCHANGED lost
      /\ raced' = raced \/ raced' = raced \cup {j}
      /\ settled' = settled \/ settled' = settled \ {j}
  BY DEF Entered
<1>2. \A k \in Jobs \ {j} : Stage(k)' = Stage(k)
  BY <1>1 DEF Stage, Excused, RowsStay
<1>3. \/ Stage(j)' = Stage(j)
      \/ Stage(j)' = "excused"
      \/ Stage(j) \in {"new", "settled"} /\ Stage(j)' = "owed"
  BY <1>0, <1>1 DEF Stage, Excused, RowsStay
<1>4. CASE Stage(j)' = Stage(j)
  BY <1>2, <1>4 DEF Staged
<1>5. CASE Stage(j)' = "excused"
  BY <1>2, <1>5 DEF Staged
<1>6. CASE Stage(j) \in {"new", "settled"} /\ Stage(j)' = "owed"
  BY <1>2, <1>6 DEF Staged
<1> QED BY <1>3, <1>4, <1>5, <1>6

\* Every step of a request is a step of Delivery.
LEMMA RequestSim ==
  ASSUME SimInv, Staged, NEW r \in Requests, RequestNext(r)
  PROVE  Simulated
<1>0. StoreTypeOK /\ TypeInv /\ RowInv /\ (api[r].pc # "idle" => api[r].job \in Jobs)
  BY DEF SimInv, TerminalSafe, TypeInv, TypeOK, BusyCore
<1>1. Ex' = Ex
  BY RequestFrames, ExKept
<1>2. CASE AEnqueue(r) \/ AEnqueueReplyLost(r)
  <2>1. Entered(r) /\ UNCHANGED db /\ api[r].job \in Jobs
    BY <1>0, <1>2 DEF AEnqueue, AEnqueueReplyLost, Enqueue, EnqueueReplyLost, EnqueuePcs
  <2>2. Ro' = Ro /\ RowsStay
    BY <2>1, RowsStayWhen DEF Ro
  <2>3. PICK j \in Jobs : j = api[r].job
    BY <2>1
  <2>4. CASE St[j] \in {"new", "settled"} /\ St' = [St EXCEPT ![j] = "owed"]
    BY <1>1, <2>2, <2>4, SimEnter
  <2> QED BY <1>1, <2>1, <2>2, <2>3, <2>4, StEnters, SimMark
<1>3. ASSUME UNCHANGED <<enqueued, settled, raced, lost>>, UNCHANGED db PROVE Simulated
  BY <1>1, <1>3, RowsStayWhen, StKept, SimStutter DEF Ro
<1>4. ASSUME NEW j \in Jobs, NEW wait \in Delays, ASubmit(r, j, wait) PROVE Simulated
  <2>1. St' = St
    <3>1. UNCHANGED <<enqueued, settled, raced, lost>> /\ j \notin enqueued
      BY <1>4 DEF ASubmit, SimInv, BornInv
    <3>2. \A k \in Jobs \ {j} : Exists(k)' <=> Exists(k)
      BY <1>0, <1>4 DEF ASubmit, Submit, CreateJob, StoreTypeOK, Exists
    <3>3. \A k \in Jobs : Stage(k)' = Stage(k)
      BY <3>1, <3>2 DEF Stage, Excused
    <3> QED BY <3>3 DEF Staged
  <2>2. Ro[j] = "none"
    BY <1>0, <1>4 DEF ASubmit, RowInv, NoRow, Ro
  <2>3. Ro' = [Ro EXCEPT ![j] = "pending"]
    BY <1>0, <1>4 DEF ASubmit, Submit, CreateJob, NewJob, StoreTypeOK, Ro
  <2> QED BY <1>1, <2>1, <2>2, <2>3, SimAccept
<1>5. CASE AStep(r)
  <2>1. UNCHANGED <<enqueued, settled, raced, lost>>
    BY <1>5 DEF AStep, history
  <2>2. CASE RetryUpdate(r)
    <3>1. api[r].job \in Jobs /\ UpdateJobStatus(api[r].job, "pending", FALSE)
      BY <1>0, <2>2 DEF RetryUpdate
    <3>2. PICK j \in Jobs : j = api[r].job
      BY <3>1
    <3>3. Ro' = IF Ro[j] = "none" THEN Ro ELSE [Ro EXCEPT ![j] = "pending"]
      BY <1>0, <3>1, <3>2, RoUpdate
    <3>4. St' = St
      BY <1>0, <2>1, <3>1, RowsStayWhen, StKept DEF Statuses
    <3> QED BY <1>1, <3>3, <3>4, SimStutter, SimReopen
  <2>3. CASE DeleteJob(r)
    <3>1. api[r].job \in Jobs /\ DeleteRow(api[r].job)
      BY <1>0, <2>3 DEF DeleteJob
    <3>2. PICK j \in Jobs : j = api[r].job
      BY <3>1
    <3>3. Ro' = [Ro EXCEPT ![j] = "none"]
      BY <1>0, <3>1, <3>2 DEF DeleteRow, StoreTypeOK, NoRow, Ro
    <3>4. CASE Ro[j] = "none"
      <4>1. Ro' = Ro
        BY <3>3, <3>4 DEF Ro
      <4>2. RowsStay
        BY <1>0, <3>1, <3>2, <3>4 DEF DeleteRow, StoreTypeOK, Rows, NoRow, Statuses, Exists, RowsStay, Ro
      <4> QED BY <1>1, <2>1, <4>1, <4>2, StKept, SimStutter
    <3>5. CASE Ro[j] # "none"
      <4>1. ~Exists(j)' /\ \A k \in Jobs \ {j} : Exists(k)' <=> Exists(k)
        BY <1>0, <3>1, <3>2 DEF DeleteRow, StoreTypeOK, Exists
      <4>2. \A k \in Jobs \ {j} : Stage(k)' = Stage(k)
        BY <2>1, <4>1 DEF Stage, Excused
      <4>3. Stage(j)' = IF Stage(j) = "new" THEN Stage(j) ELSE "excused"
        BY <2>1, <4>1 DEF Stage, Excused
      <4>4. St' = IF St[j] = "new" THEN St ELSE [St EXCEPT ![j] = "excused"]
        BY <4>2, <4>3 DEF Staged
      <4> QED BY <1>1, <3>3, <3>5, <4>4, SimWithdraw
    <3> QED BY <3>4, <3>5
  <2>4. ASSUME NEW j \in Jobs, Delete(r, j) PROVE Simulated
    BY <1>3, <1>5, <2>4 DEF Delete, AStep, history
  <2> QED BY <1>5, <2>2, <2>3, <2>4 DEF AStep
<1>6. ASSUME AFault(r) \/ \E j \in Jobs : ARetry(r, j) PROVE Simulated
  BY <1>3, <1>6 DEF AFault, ARetry, EnqueueFails, StatementFails, Retry
<1> QED BY <1>2, <1>4, <1>5, <1>6 DEF RequestNext

\* A step that only loses jobs ends the promise for them.
LEMMA LossSim ==
  ASSUME Staged, RowsStay, UNCHANGED <<enqueued, settled, raced>>, lost \subseteq lost',
         Ex' = Ex, Ro' = Ro
  PROVE  Simulated
<1> DEFINE S == {j \in Jobs : j \in lost'}
<1>1. \A j \in Jobs : Stage(j)' = IF j \in S THEN "excused" ELSE Stage(j)
  BY DEF Stage, Excused, RowsStay
<1>2. St' = [j \in Jobs |-> IF j \in S THEN "excused" ELSE St[j]]
  BY <1>1 DEF Staged
<1>3. S \in SUBSET Jobs
  OBVIOUS
<1> HIDE DEF S
<1> QED BY <1>2, <1>3, SimExcuse

\* The loops, time and crashes: jobs move where Delivery does not look.
LEMMA LoopSim ==
  ASSUME Staged, NEW s \in Schedulers, LoopNext(s)
  PROVE  Simulated
<1>1. UNCHANGED <<gor, db, enqueued, settled, raced>> /\ lost \subseteq lost'
  BY LoopLeaves
     DEF LoopNext, LMove, LReclaim, LReclaimPush, LGetFails, LCardFails, LFault, LCrash, history
<1>2. Ex' = Ex /\ Ro' = Ro /\ RowsStay
  BY <1>1, RowsStayWhen DEF Ex, Ro
<1> QED BY <1>1, <1>2, LossSim

\* A tick may let records expire.
LEMMA TickSim ==
  ASSUME SimInv, Staged, Tick
  PROVE  Simulated
<1>0. gor \in [Goroutines -> GorStates]
  BY StateTypes DEF SimInv, TerminalSafe
<1>1. ASSUME NEW g \in Goroutines PROVE gor'[g].job = gor[g].job /\ gor'[g].pc = gor[g].pc
  <2>1. gor'[g] = [gor[g] EXCEPT !.left = Earlier(gor[g].left), !.due = Earlier(gor[g].due)]
    BY DEF Tick, PoolTick
  <2> QED BY <1>0, <2>1 DEF GorStates
<1>2. Ex' = Ex
  BY <1>1, ExKept
<1>3. Ro' = Ro /\ RowsStay
  BY RowsStayWhen DEF Tick, Ro
<1> QED BY <1>2, <1>3, LossSim DEF Tick

\* A crash ends the executions of one worker process.
LEMMA CrashSim ==
  ASSUME Staged, NEW w \in Workers, WCrash(w)
  PROVE  Simulated
<1> DEFINE G == {g \in Goroutines : PoolOf[g] = w}
<1>1. ASSUME NEW g \in Goroutines
      PROVE  [job |-> gor'[g].job, end |-> EndOf(gor'[g].pc)]
               = IF g \in G THEN [job |-> NoJob, end |-> "none"] ELSE Ex[g]
  BY EndOfPc DEF WCrash, CrashPool, Idle, Ex
<1>2. Ex' = [g \in Goroutines |-> IF g \in G THEN [job |-> NoJob, end |-> "none"] ELSE Ex[g]]
  BY <1>1 DEF Ex
<1>3. St' = St /\ Ro' = Ro
  <2>1. UNCHANGED db
    BY DEF WCrash, CrashPool
  <2> QED BY <2>1, RowsStayWhen, StKept DEF WCrash, Ro
<1>4. G \in SUBSET Goroutines
  OBVIOUS
<1> HIDE DEF G
<1> QED BY <1>2, <1>3, <1>4, SimDie

\* The mapped initial state.
LEMMA InitSim == Init => Promise!DeliveryInit
<1> SUFFICES ASSUME Init PROVE Promise!DeliveryInit
  OBVIOUS
<1>1. \A j \in Jobs : StateOf(j) = "new"
  BY DEF Init, StateOf, Excused
<1>2. Ex = [g \in Goroutines |-> [job |-> NoJob, end |-> "none"]]
  BY EndOfPc DEF Init, PoolInit, Idle, Ex
<1>3. Ro = [j \in Jobs |-> "none"]
  BY DEF Init, StoreInit, NoRow, Ro
<1> QED BY <1>1, <1>2, <1>3 DEF Promise!DeliveryInit, Promise!Resting, Ex, Ro

\* The invariants of the simulation hold together.
LEMMA SimInvariant == Spec => []SimInv
<1>1. Init => DeliveryInv /\ EnteredInv /\ BornInv
  BY InitDelivery, InitEntered DEF Init, CoreInit, IdleApi, BornInv
<1>2. TerminalSafe /\ DeliveryInv /\ EnteredInv /\ BornInv /\ [Next]_vars
        => DeliveryInv' /\ EnteredInv' /\ BornInv'
  BY NextDelivery, NextEntered, NextBorn DEF TerminalSafe
<1> QED BY <1>1, <1>2, TerminalInvariant, PTL DEF Spec, SimInv

\* A step of the system is a step of Delivery or none.
LEMMA NextSim ==
  ASSUME SimInv, Staged, [Next]_vars
  PROVE  Simulated
<1>1. CASE UNCHANGED vars
  <2>1. St' = St
    BY <1>1, RowsStayWhen, StKept DEF vars, history
  <2> QED BY <1>1, <2>1, SimStutter DEF vars, Ex, Ro
<1> QED BY <1>1, WorkerSim, RequestSim, LoopSim, TickSim, CrashSim DEF Next

\* TaskScheduler implements Delivery: whatever crashes, failing calls, reclaims and
\* client requests interleave, an enqueued job stays deliverable until it is settled,
\* excused or deleted, only jobs that entered are executed, and every status in the table was
\* written by a client or by an execution that ended accordingly.
THEOREM ImplementsDeliveryHolds == Spec => ImplementsDelivery
<1>1. SimInv /\ SimInv' => Staged
  <2>1. SimInv' => (St = [j \in Jobs |-> Stage(j)])'
    BY StageIs, PTL
  <2> QED BY <2>1, StageIs DEF Staged
<1>2. SimInv /\ SimInv' /\ [Next]_vars => [Promise!DeliveryNext]_(Promise!deliveryVars)
  BY <1>1, NextSim DEF Simulated
<1> QED BY <1>2, InitSim, SimInvariant, PTL DEF Spec, ImplementsDelivery, Promise!DeliverySpec
=============================================================================
