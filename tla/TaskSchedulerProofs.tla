------------------------- MODULE TaskSchedulerProofs ------------------------
(***************************************************************************)
(* Proofs about TaskScheduler, for every number of jobs, workers,          *)
(* goroutines, schedulers and requests, every delay and timeout, every set *)
(* of faults and any number of mishaps.                                    *)
(***************************************************************************)
EXTENDS TaskScheduler, TLAPS

\* A thread that is not idle holds the job, key and record its next call needs.
BusyPool ==
    \A g \in Goroutines :
        /\ gor[g].pc # "idle" => gor[g].job \in Jobs
        /\ gor[g].pc \in {"begin", "run", "dbFail"} \cup NackPcs => gor[g].rec \in Records

BusyCore ==
    /\ \A r \in Requests : api[r].pc # "idle" => api[r].job \in Jobs
    /\ \A s \in Schedulers :
         /\ mover[s].pc = "rem" => mover[s].job \in Jobs
         /\ reclaimer[s].pc \notin {"idle", "scan"} => reclaimer[s].key \in Workers
         /\ reclaimer[s].pc \in {"set", "push", "rem", "drop"} => reclaimer[s].job \in Jobs
         /\ reclaimer[s].pc = "set" => reclaimer[s].rec \in Records

TypeInv == TypeOK /\ BusyPool /\ BusyCore

-----------------------------------------------------------------------------
(* The job record *)

\* No stored record looks like a missing one.
LEMMA NoDataIsNoRecord == NoData \notin Records
  BY DEF NoData, Records, Statuses

\* Retried yields a record, and the backoff of a record is a number of ticks.
LEMMA RetriedType ==
  ASSUME NEW rec \in Records
  PROVE  Retried(rec) \in Records /\ NextRetryTime(rec) \in Nat
  BY RetryAssumption DEF Records, Statuses, Retried, Increment, NextRetryTime

\* The record that Enqueue stores for a new or retried job.
LEMMA NewJobType == NewJob \in Records
  BY RetryAssumption DEF NewJob, Records, Statuses

\* Timers count down within their type.
LEMMA EarlierType ==
  /\ \A t \in Nat : Earlier(t) \in Nat
  /\ \A t \in Nat \cup {Absent} :
       Earlier(t) \in Nat \cup {Absent} /\ (Earlier(t) = Absent <=> t = Absent)
  BY DEF Earlier, Absent

-----------------------------------------------------------------------------
(* What a Redis command does to the types *)

\* SET of a record, as in Requeue and Nack, keeps the type of the queue.
LEMMA StoreType ==
  ASSUME QueueTypeOK, NEW j \in Jobs, NEW rec \in Records, NEW n \in Nat, NEW life \in Nat,
         Store(j, rec, n, life)
  PROVE  QueueTypeOK'
  BY DEF QueueTypeOK, Store, Set

\* An LPUSH leaves the ready lists lists of jobs: it puts j in one and keeps the rest.
LEMMA LPushType ==
  ASSUME QueueTypeOK, NEW j \in Jobs, LPush(j)
  PROVE  /\ ready' \in [Priorities -> Seq(Jobs)]
         /\ InReady(j)'
         /\ \A k \in Jobs : InReady(k) => InReady(k)'
<1> DEFINE p == Priority[j]
<1>1. p \in Priorities /\ ready \in [Priorities -> Seq(Jobs)]
  BY PriorityAssumption DEF Priorities, QueueTypeOK
<1>2. ready' = [ready EXCEPT ![p] = Append(ready[p], j)]
  BY DEF LPush
<1> HIDE DEF p
<1>3. /\ ready[p] \in Seq(Jobs)
      /\ Append(ready[p], j) \in Seq(Jobs)
      /\ \A i \in 1 .. Len(ready[p]) : /\ i \in 1 .. Len(Append(ready[p], j))
                                       /\ Append(ready[p], j)[i] = ready[p][i]
      /\ Len(ready[p]) + 1 \in 1 .. Len(Append(ready[p], j))
      /\ Append(ready[p], j)[Len(ready[p]) + 1] = j
  BY <1>1
<1>4. ready'[p] = Append(ready[p], j) /\ \A q \in Priorities : q # p => ready'[q] = ready[q]
  BY <1>1, <1>2
<1>5. ready' \in [Priorities -> Seq(Jobs)]
  BY <1>1, <1>2, <1>3
<1>6. InReady(j)'
  BY <1>3, <1>4 DEF InReady, p
<1>7. ASSUME NEW k \in Jobs, InReady(k) PROVE InReady(k)'
  <2>1. Priority[k] \in Priorities
    BY PriorityAssumption DEF Priorities
  <2> QED
    BY <1>3, <1>4, <1>7, <2>1 DEF InReady
<1> QED
  BY <1>5, <1>6, <1>7

\* LPUSH on a ready list keeps the type of the queue.
LEMMA PushType ==
  ASSUME QueueTypeOK, NEW j \in Jobs, Push(j)
  PROVE  QueueTypeOK'
  BY LPushType DEF QueueTypeOK, Push

\* LPUSH on the DLQ, as in Nack, keeps the type of the queue.
LEMMA PushDLQType ==
  ASSUME QueueTypeOK, NEW j \in Jobs, PushDLQ(j)
  PROVE  QueueTypeOK'
  BY DEF QueueTypeOK, PushDLQ

\* DEL of a record, as in Acknowledge, keeps the type of the queue.
LEMMA DelDataType ==
  ASSUME QueueTypeOK, NEW j \in Jobs, DelData(j)
  PROVE  QueueTypeOK'
  BY DEF QueueTypeOK, DelData

\* ZREM from the delayed set, as in MoveDelayed, keeps the type of the queue.
LEMMA ZRemDelayedType ==
  ASSUME QueueTypeOK, NEW j \in Jobs, ZRemDelayed(j)
  PROVE  QueueTypeOK'
  BY DEF QueueTypeOK, ZRemDelayed

\* ZREM from an in-flight set keeps the type of the queue.
LEMMA ZRemInflightType ==
  ASSUME QueueTypeOK, NEW w \in Workers, NEW j \in Jobs, ZRemInflight(w, j)
  PROVE  QueueTypeOK'
  BY DEF QueueTypeOK, ZRemInflight

\* DEL of an in-flight set, as in ReclaimOrphaned, keeps the type of the queue.
LEMMA DelInflightType ==
  ASSUME QueueTypeOK, NEW w \in Workers, DelInflight(w)
  PROVE  QueueTypeOK'
  BY DEF QueueTypeOK, DelInflight

\* enqueueScript keeps the type of the queue, whichever way it routes.
LEMMA EnqueueScriptType ==
  ASSUME QueueTypeOK, NEW j \in Jobs, NEW n \in Nat, NEW toReady \in BOOLEAN,
         EnqueueScript(j, NewJob, n, toReady)
  PROVE  QueueTypeOK'
<1>1. CASE toReady
  BY <1>1, LPushType, NewJobType, QueueAssumption DEF QueueTypeOK, EnqueueScript, Set
<1>2. CASE ~toReady
  BY <1>2, NewJobType, QueueAssumption DEF QueueTypeOK, EnqueueScript, Set
<1> QED
  BY <1>1, <1>2

\* dequeueScript keeps the type of the queue.
LEMMA DequeueScriptType ==
  ASSUME QueueTypeOK, NEW w \in Workers, NEW j \in Jobs, DequeueScript(w, j)
  PROVE  QueueTypeOK'
  BY QueueAssumption DEF QueueTypeOK, DequeueScript

\* A tick, expiring keys included, keeps the type of the queue.
LEMMA QueueTickType ==
  ASSUME QueueTypeOK, QueueTick
  PROVE  QueueTypeOK'
  BY EarlierType DEF QueueTypeOK, QueueTick

\* A step that does not touch Redis keeps the type of the queue.
LEMMA QueueUnchanged ==
  ASSUME QueueTypeOK, UNCHANGED queueVars
  PROVE  QueueTypeOK'
  BY DEF QueueTypeOK, queueVars

-----------------------------------------------------------------------------
(* Types: the worker goroutines *)

CoreFrame == UNCHANGED <<lock, coreVars>>

\* A step of a worker leaves lock, requests and loops as they are.
LEMMA CoreFrameType ==
  ASSUME TypeInv, CoreFrame
  PROVE  LockTypeOK' /\ CoreTypeOK' /\ BusyCore'
  BY DEF TypeInv, TypeOK, CoreFrame, coreVars, LockTypeOK, CoreTypeOK, BusyCore

\* UpdateJobStatus keeps the type of the table, whether or not the row exists.
LEMMA UpdateType ==
  ASSUME StoreTypeOK, NEW j \in Jobs, NEW status \in Statuses, NEW b \in BOOLEAN,
         UpdateJobStatus(j, status, b)
  PROVE  StoreTypeOK'
  BY DEF StoreTypeOK, UpdateJobStatus, Exists, Rows, NoRow, Statuses

\* A step that only moves the program counter, where the new place needs no more.
LEMMA GotoType ==
  ASSUME PoolTypeOK, BusyPool, NEW g \in Goroutines, NEW pc \in GorPcs, Goto(g, pc),
         gor[g].pc # "idle",
         pc \in {"begin", "run", "dbFail"} \cup NackPcs => gor[g].rec \in Records
  PROVE  PoolTypeOK' /\ BusyPool'
  BY DEF PoolTypeOK, BusyPool, Goto

\* A goroutine that goes back to polling keeps the type of the pool.
LEMMA IdleType ==
  ASSUME PoolTypeOK, BusyPool, NEW g \in Goroutines, gor' = [gor EXCEPT ![g] = Idle]
  PROVE  PoolTypeOK' /\ BusyPool'
  BY DEF PoolTypeOK, BusyPool, Idle, GorPcs, NackPcs

\* The decision of Nack, on a record in memory, keeps the type of the pool.
LEMMA NackedType ==
  ASSUME PoolTypeOK, BusyPool, NEW g \in Goroutines, gor[g].pc = "run",
         gor' = [gor EXCEPT ![g] = Nacked(@)]
  PROVE  PoolTypeOK' /\ BusyPool'
<1> DEFINE h == gor[g]
<1>1. /\ h \in [pc : GorPcs, job : Jobs \cup {NoJob}, rec : Records \cup {NoData},
                due : Nat, left : Nat]
      /\ h.job \in Jobs /\ h.rec \in Records
  BY DEF PoolTypeOK, BusyPool
<1>2. Retried(h.rec) \in Records /\ NextRetryTime(Retried(h.rec)) \in Nat
  BY <1>1, RetriedType
<1>3. [h.rec EXCEPT !.status = "dead_letter"] \in Records
  BY <1>1 DEF Records, Statuses
<1>4. /\ Nacked(h) \in [pc : GorPcs, job : Jobs \cup {NoJob}, rec : Records \cup {NoData},
                        due : Nat, left : Nat]
      /\ Nacked(h).job \in Jobs /\ Nacked(h).rec \in Records
  BY <1>1, <1>2, <1>3 DEF Nacked, GorPcs, NackPcs
<1> QED
  BY <1>4 DEF PoolTypeOK, BusyPool

\* Every step of a goroutine, its faults included, keeps the types.
LEMMA WorkerType ==
  ASSUME TypeInv, NEW g \in Goroutines, WorkerNext(g)
  PROVE  TypeInv'
<1> USE DEF TypeInv, TypeOK
<1>0. PoolOf[g] \in Workers /\ gor[g].pc \in GorPcs /\ gor[g].due \in Nat
  BY PoolAssumption DEF PoolTypeOK
<1>1. ASSUME NEW j \in Jobs, WDequeue(g, j) PROVE TypeInv'
  <2>1. QueueTypeOK' /\ StoreTypeOK'
    BY <1>0, <1>1, DequeueScriptType DEF WDequeue, Dequeue, StoreTypeOK
  <2>2. PoolTypeOK' /\ BusyPool'
    BY <1>1, PoolAssumption
       DEF WDequeue, Dequeue, PoolTypeOK, BusyPool, QueueTypeOK, GorPcs, AckPcs, NackPcs
  <2>3. HistoryTypeOK'
    BY <1>1 DEF WDequeue, HistoryTypeOK
  <2> QED
    BY <1>1, <2>1, <2>2, <2>3, CoreFrameType DEF WDequeue, CoreFrame
<1>2. ASSUME NEW j \in Jobs, WDequeueLost(g, j) PROVE TypeInv'
  <2>1. QueueTypeOK' /\ StoreTypeOK'
    BY <1>0, <1>2, DequeueScriptType DEF WDequeueLost, DequeueLost, StoreTypeOK
  <2>2. PoolTypeOK' /\ BusyPool'
    BY <1>2 DEF WDequeueLost, DequeueLost, PoolTypeOK, BusyPool
  <2>3. HistoryTypeOK'
    BY <1>2, MishapAssumption DEF WDequeueLost, HistoryTypeOK, Mishap
  <2> QED
    BY <1>2, <2>1, <2>2, <2>3, CoreFrameType DEF WDequeueLost, CoreFrame
<1>3. CASE WSucceed(g)
  <2>1. QueueTypeOK' /\ StoreTypeOK'
    BY <1>3, QueueUnchanged DEF WSucceed, HandlerSucceeds, StoreTypeOK
  <2>2. PoolTypeOK' /\ BusyPool'
    BY <1>3 DEF WSucceed, HandlerSucceeds, PoolTypeOK, BusyPool, Idle, GorPcs, AckPcs, NackPcs
  <2>3. HistoryTypeOK'
    BY <1>3 DEF WSucceed, HandlerSucceeds, HistoryTypeOK, BusyPool
  <2> QED
    BY <1>3, <2>1, <2>2, <2>3, CoreFrameType DEF WSucceed, CoreFrame
<1>4. CASE WFail(g)
  <2>1. QueueTypeOK' /\ StoreTypeOK' /\ HistoryTypeOK'
    BY <1>4, QueueUnchanged DEF WFail, HandlerFails, StoreTypeOK, HistoryTypeOK, history
  <2> QED
    BY <1>4, <2>1, NackedType, CoreFrameType DEF WFail, HandlerFails, CoreFrame
<1>5. CASE WNackPush(g)
  <2>1. gor[g].job \in Jobs /\ gor[g].rec \in Records
    BY <1>5 DEF WNackPush, NackPush, BusyPool, NackPcs
  <2>2. QueueTypeOK' /\ StoreTypeOK' /\ HistoryTypeOK'
    BY <1>5, <2>1, PushType, PushDLQType DEF WNackPush, NackPush, StoreTypeOK, HistoryTypeOK
  <2>3. PoolTypeOK' /\ BusyPool'
    BY <1>5, <2>1, GotoType DEF WNackPush, NackPush, GorPcs, NackPcs
  <2> QED
    BY <1>5, <2>2, <2>3, CoreFrameType DEF WNackPush, CoreFrame
<1>6. CASE WStep(g)
  <2>1. HistoryTypeOK' /\ LockTypeOK' /\ CoreTypeOK' /\ BusyCore'
    BY <1>6, CoreFrameType DEF WStep, CoreFrame, HistoryTypeOK, history
  <2>2. gor[g].pc # "idle" => gor[g].job \in Jobs
    BY DEF BusyPool
  <2>3. CASE BeginExecution(g)
    <3>1. QueueTypeOK' /\ StoreTypeOK'
      BY <2>2, <2>3, QueueUnchanged, UpdateType DEF BeginExecution, Statuses
    <3>2. PoolTypeOK' /\ BusyPool'
      BY <2>3, GotoType DEF BeginExecution, BusyPool, GorPcs
    <3> QED BY <2>1, <3>1, <3>2
  <2>4. CASE TimesOut(g)
    BY <2>1, <2>4, QueueUnchanged, NackedType DEF TimesOut, StoreTypeOK
  <2>5. CASE AckDel(g)
    <3>1. QueueTypeOK' /\ StoreTypeOK'
      BY <2>2, <2>5, DelDataType DEF AckDel, StoreTypeOK
    <3>2. PoolTypeOK' /\ BusyPool'
      BY <2>5, GotoType DEF AckDel, GorPcs, AckPcs, NackPcs
    <3> QED BY <2>1, <3>1, <3>2
  <2>6. CASE AckRem(g)
    <3>1. QueueTypeOK' /\ StoreTypeOK'
      BY <1>0, <2>2, <2>6, ZRemInflightType DEF AckRem, StoreTypeOK
    <3>2. PoolTypeOK' /\ BusyPool'
      BY <2>6, GotoType DEF AckRem, GorPcs, AckPcs, NackPcs
    <3> QED BY <2>1, <3>1, <3>2
  <2>7. CASE MarkCompleted(g)
    BY <2>1, <2>2, <2>7, QueueUnchanged, UpdateType, IdleType DEF MarkCompleted, Statuses
  <2>8. CASE NackSet(g)
    <3>1. gor[g].rec \in Records
      BY <2>8 DEF NackSet, BusyPool, NackPcs
    <3>2. QueueTypeOK' /\ StoreTypeOK'
      BY <1>0, <2>2, <2>8, <3>1, StoreType, QueueAssumption DEF NackSet, StoreTypeOK
    <3>3. PoolTypeOK' /\ BusyPool'
      BY <2>8, <3>1, GotoType DEF NackSet, GorPcs, NackPcs
    <3> QED BY <2>1, <3>2, <3>3
  <2>9. CASE NackRem(g)
    <3>1. QueueTypeOK' /\ StoreTypeOK'
      BY <1>0, <2>2, <2>9, ZRemInflightType DEF NackRem, StoreTypeOK
    <3>2. PoolTypeOK' /\ BusyPool'
      BY <2>9, GotoType DEF NackRem, BusyPool, GorPcs, NackPcs
    <3> QED BY <2>1, <3>1, <3>2
  <2>10. CASE MarkFailed(g)
    BY <2>1, <2>2, <2>10, QueueUnchanged, UpdateType, IdleType DEF MarkFailed, Statuses
  <2> QED
    BY <1>6, <2>3, <2>4, <2>5, <2>6, <2>7, <2>8, <2>9, <2>10 DEF WStep
<1>7. CASE WFault(g)
  <2>1. /\ QueueTypeOK' /\ StoreTypeOK' /\ HistoryTypeOK'
        /\ LockTypeOK' /\ CoreTypeOK' /\ BusyCore'
    <3>1. HistoryTypeOK'
      BY <1>7, MishapAssumption DEF WFault, HistoryTypeOK, Mishap, BusyPool
    <3> QED BY <1>7, <3>1, QueueUnchanged, CoreFrameType
            DEF WFault, PipelineAborts, UpdateFails, StoreTypeOK, CoreFrame
  <2>2. CASE PipelineAborts(g)
    BY <2>1, <2>2, GotoType DEF PipelineAborts, BusyPool, GorPcs, AckPcs, NackPcs
  <2>3. CASE UpdateFails(g)
    <3>1. CASE gor[g].pc = "begin"
      <4>1. Goto(g, "run")
        BY <2>3, <3>1 DEF UpdateFails, Goto, PoolTypeOK
      <4> QED
        BY <2>1, <3>1, <4>1, GotoType DEF BusyPool, GorPcs
    <3>2. CASE gor[g].pc # "begin"
      BY <2>1, <2>3, <3>2, IdleType DEF UpdateFails
    <3> QED BY <3>1, <3>2
  <2> QED
    BY <1>7, <2>2, <2>3 DEF WFault
<1> QED
  BY <1>1, <1>2, <1>3, <1>4, <1>5, <1>6, <1>7 DEF WorkerNext

-----------------------------------------------------------------------------
(* Types: API requests, background loops, crashes, the clock *)

PoolFrame == UNCHANGED gor

\* A step of a request or loop leaves the goroutines as they are.
LEMMA PoolFrameType ==
  ASSUME TypeInv, PoolFrame
  PROVE  PoolTypeOK' /\ BusyPool'
  BY DEF TypeInv, TypeOK, PoolFrame, PoolTypeOK, BusyPool

\* Every step of an API request, its faults included, keeps the types.
LEMMA RequestType ==
  ASSUME TypeInv, NEW r \in Requests, RequestNext(r)
  PROVE  TypeInv'
<1> USE DEF TypeInv, TypeOK
<1>0. /\ api[r] \in [pc : ApiPcs, op : {"none", "submit", "retry", "delete"},
                     job : Jobs \cup {NoJob}, wait : Nat]
      /\ api[r].pc # "idle" => api[r].job \in Jobs
      /\ ToReady(api[r]) \in BOOLEAN
  BY DEF CoreTypeOK, BusyCore, ToReady
<1>1. ASSUME NEW j \in Jobs, NEW wait \in Delays, ASubmit(r, j, wait) PROVE TypeInv'
  <2>1. QueueTypeOK' /\ StoreTypeOK' /\ LockTypeOK' /\ HistoryTypeOK'
    BY <1>1, QueueUnchanged
       DEF ASubmit, Submit, CreateJob, NewJob, StoreTypeOK, Rows, Statuses, LockTypeOK, HistoryTypeOK
  <2>2. CoreTypeOK' /\ BusyCore'
    BY <1>1, CoreAssumption DEF ASubmit, Submit, CoreTypeOK, BusyCore, ApiPcs
  <2> QED
    BY <1>1, <2>1, <2>2, PoolFrameType DEF ASubmit, PoolFrame
<1>2. CASE AEnqueue(r)
  <2>1. api[r].job \in Jobs
    BY <1>0, <1>2 DEF AEnqueue, Enqueue, EnqueuePcs
  <2>2. QueueTypeOK' /\ StoreTypeOK' /\ LockTypeOK'
    BY <1>0, <1>2, <2>1, EnqueueScriptType DEF AEnqueue, Enqueue, StoreTypeOK, LockTypeOK
  <2>3. HistoryTypeOK'
    BY <1>2, <2>1 DEF AEnqueue, Entered, HistoryTypeOK
  <2>4. CoreTypeOK' /\ BusyCore'
    BY <1>2 DEF AEnqueue, Enqueue, CoreTypeOK, BusyCore, IdleApi, ApiPcs
  <2> QED
    BY <1>2, <2>2, <2>3, <2>4, PoolFrameType DEF AEnqueue, Entered, PoolFrame
<1>3. CASE AEnqueueReplyLost(r)
  <2>1. api[r].job \in Jobs
    BY <1>0, <1>3 DEF AEnqueueReplyLost, EnqueueReplyLost, EnqueuePcs
  <2>2. QueueTypeOK' /\ StoreTypeOK' /\ LockTypeOK'
    BY <1>0, <1>3, <2>1, EnqueueScriptType
       DEF AEnqueueReplyLost, EnqueueReplyLost, StoreTypeOK, LockTypeOK
  <2>3. HistoryTypeOK'
    BY <1>3, <2>1, MishapAssumption DEF AEnqueueReplyLost, Entered, HistoryTypeOK, Mishap
  <2>4. CoreTypeOK' /\ BusyCore'
    BY <1>0, <1>3, <2>1
       DEF AEnqueueReplyLost, EnqueueReplyLost, AfterError, CoreTypeOK, BusyCore, IdleApi, ApiPcs
  <2> QED
    BY <1>3, <2>2, <2>3, <2>4, PoolFrameType DEF AEnqueueReplyLost, Entered, PoolFrame
<1>4. ASSUME NEW j \in Jobs, ARetry(r, j) PROVE TypeInv'
  <2>1. QueueTypeOK' /\ StoreTypeOK' /\ LockTypeOK' /\ HistoryTypeOK'
    BY <1>4, QueueUnchanged, MishapAssumption
       DEF ARetry, Retry, StoreTypeOK, LockTypeOK, HistoryTypeOK, Mishap
  <2>2. CoreTypeOK' /\ BusyCore'
    BY <1>4 DEF ARetry, Retry, CoreTypeOK, BusyCore, ApiPcs
  <2> QED
    BY <1>4, <2>1, <2>2, PoolFrameType DEF ARetry, PoolFrame
<1>5. CASE AStep(r)
  <2>1. HistoryTypeOK' /\ PoolTypeOK' /\ BusyPool'
    BY <1>5, PoolFrameType DEF AStep, HistoryTypeOK, history, PoolFrame
  <2>2. CASE RetryUpdate(r)
    <3>1. QueueTypeOK' /\ StoreTypeOK' /\ LockTypeOK'
      BY <1>0, <2>2, QueueUnchanged, UpdateType DEF RetryUpdate, LockTypeOK, Statuses
    <3>2. CoreTypeOK' /\ BusyCore'
      BY <1>0, <2>2 DEF RetryUpdate, CoreTypeOK, BusyCore, IdleApi, ApiPcs
    <3> QED BY <2>1, <3>1, <3>2
  <2>3. CASE DeleteJob(r)
    <3>1. QueueTypeOK' /\ StoreTypeOK' /\ LockTypeOK'
      BY <1>0, <2>3, QueueUnchanged DEF DeleteJob, DeleteRow, StoreTypeOK, LockTypeOK
    <3>2. CoreTypeOK' /\ BusyCore'
      BY <2>3 DEF DeleteJob, CoreTypeOK, BusyCore, IdleApi, ApiPcs
    <3> QED BY <2>1, <3>1, <3>2
  <2>4. ASSUME NEW j \in Jobs, Delete(r, j) PROVE TypeInv'
    <3>1. QueueTypeOK' /\ StoreTypeOK' /\ LockTypeOK'
      BY <2>4, QueueUnchanged DEF Delete, StoreTypeOK, LockTypeOK
    <3>2. CoreTypeOK' /\ BusyCore'
      BY <2>4 DEF Delete, CoreTypeOK, BusyCore, ApiPcs
    <3> QED BY <2>1, <3>1, <3>2
  <2> QED
    BY <1>5, <2>2, <2>3, <2>4 DEF AStep
<1>6. CASE AFault(r)
  <2>1. /\ QueueTypeOK' /\ StoreTypeOK' /\ LockTypeOK' /\ HistoryTypeOK'
        /\ PoolTypeOK' /\ BusyPool'
    BY <1>6, QueueUnchanged, PoolFrameType, MishapAssumption
       DEF AFault, EnqueueFails, StatementFails, StoreTypeOK, LockTypeOK, HistoryTypeOK,
           Mishap, PoolFrame
  <2>2. CoreTypeOK' /\ BusyCore'
    <3>1. CASE EnqueueFails(r)
      BY <1>0, <3>1 DEF EnqueueFails, AfterError, CoreTypeOK, BusyCore, IdleApi, ApiPcs, EnqueuePcs
    <3>2. CASE StatementFails(r)
      BY <1>0, <3>2 DEF StatementFails, CoreTypeOK, BusyCore, IdleApi, ApiPcs
    <3> QED BY <1>6, <3>1, <3>2 DEF AFault
  <2> QED
    BY <2>1, <2>2
<1> QED
  BY <1>1, <1>2, <1>3, <1>4, <1>5, <1>6 DEF RequestNext

LockFrame == UNCHANGED <<db, lock>>

\* A step that touches neither table nor lock keeps their types.
LEMMA LockFrameType ==
  ASSUME TypeInv, LockFrame
  PROVE  StoreTypeOK' /\ LockTypeOK'
  BY DEF TypeInv, TypeOK, LockFrame, StoreTypeOK, LockTypeOK

MoverStates == [pc : MoverPcs, todo : SUBSET Jobs, moves : SUBSET Jobs,
                drops : SUBSET Jobs, job : Jobs \cup {NoJob}]
ReclaimerStates == [pc : ReclaimerPcs, keys : SUBSET Workers, key : Workers \cup {NoWorker},
                    todo : SUBSET Jobs, job : Jobs \cup {NoJob}, rec : Records \cup {NoData}]

\* A loop whose new state is well formed keeps the types of the scheduler.
LEMMA MoverUpdate ==
  ASSUME CoreTypeOK, BusyCore, NEW s \in Schedulers, NEW m \in MoverStates,
         m.pc = "rem" => m.job \in Jobs,
         mover' = [mover EXCEPT ![s] = m], UNCHANGED <<api, reclaimer>>
  PROVE  CoreTypeOK' /\ BusyCore'
  BY DEF CoreTypeOK, BusyCore, MoverStates

\* A new state of one reclaim loop keeps the type of the loops.
LEMMA ReclaimerUpdate ==
  ASSUME CoreTypeOK, BusyCore, NEW s \in Schedulers, NEW m \in ReclaimerStates,
         m.pc \notin {"idle", "scan"} => m.key \in Workers,
         m.pc \in {"set", "push", "rem", "drop"} => m.job \in Jobs,
         m.pc = "set" => m.rec \in Records,
         reclaimer' = [reclaimer EXCEPT ![s] = m], UNCHANGED <<api, mover>>
  PROVE  CoreTypeOK' /\ BusyCore'
  BY DEF CoreTypeOK, BusyCore, ReclaimerStates

\* The reclaimer after its last job of a key: idle, or at the next key.
LEMMA FinishType ==
  ASSUME NEW m \in ReclaimerStates
  PROVE  Finish(m) \in ReclaimerStates /\ Finish(m).pc \in {"idle", "scan"}
  BY DEF Finish, IdleReclaimer, ReclaimerStates, ReclaimerPcs

\* Every step of the delayed-job loop keeps the types.
LEMMA MoverType ==
  ASSUME TypeInv, NEW s \in Schedulers, LMove(s)
  PROVE  TypeInv'
<1> USE DEF TypeInv, TypeOK
<1>0. HistoryTypeOK' /\ PoolTypeOK' /\ BusyPool'
  BY PoolFrameType DEF LMove, HistoryTypeOK, history, PoolFrame
<1>1. /\ mover[s] \in MoverStates
      /\ mover[s].pc = "rem" => mover[s].job \in Jobs
  BY DEF CoreTypeOK, BusyCore, MoverStates
<1>2. CASE MoverAcquire(s)
  <2>1. QueueTypeOK' /\ StoreTypeOK' /\ LockTypeOK'
    BY <1>2, QueueUnchanged, LockAssumption
       DEF MoverAcquire, moverFrame, Acquire, StoreTypeOK, LockTypeOK
  <2>2. CoreTypeOK' /\ BusyCore'
    <3> DEFINE m == [mover[s] EXCEPT !.pc = "scan"]
    <3>1. m \in MoverStates /\ m.pc = "scan"
      BY <1>1 DEF MoverStates, MoverPcs
    <3>2. mover' = [mover EXCEPT ![s] = m] /\ UNCHANGED <<api, reclaimer>>
      BY <1>2 DEF MoverAcquire, moverFrame
    <3> QED BY <3>1, <3>2, MoverUpdate
  <2> QED BY <1>0, <2>1, <2>2
<1>3. ASSUME NEW B \in Batches, MoverScan(s, B) PROVE TypeInv'
  <2>1. QueueTypeOK' /\ StoreTypeOK' /\ LockTypeOK'
    BY <1>3, QueueUnchanged, LockFrameType DEF MoverScan, moverFrame, LockFrame
  <2>2. B \subseteq Jobs
    BY DEF Batches, DueJobs
  <2>3. CoreTypeOK' /\ BusyCore'
    <3> DEFINE m == [mover[s] EXCEPT !.pc = IF B = {} THEN "release" ELSE "get", !.todo = B]
    <3>1. m \in MoverStates /\ m.pc # "rem"
      BY <1>1, <2>2 DEF MoverStates, MoverPcs
    <3>2. mover' = [mover EXCEPT ![s] = m] /\ UNCHANGED <<api, reclaimer>>
      BY <1>3 DEF MoverScan, moverFrame
    <3> QED BY <3>1, <3>2, MoverUpdate
  <2> QED BY <1>0, <2>1, <2>3
<1>4. ASSUME NEW j \in Jobs, MoverGet(s, j, data[j] # NoData) PROVE TypeInv'
  <2>1. QueueTypeOK' /\ StoreTypeOK' /\ LockTypeOK'
    BY <1>4, QueueUnchanged, LockFrameType DEF MoverGet, moverFrame, LockFrame
  <2>2. CoreTypeOK' /\ BusyCore'
    <3> DEFINE found == data[j] # NoData
               m == [mover[s] EXCEPT !.pc = IF mover[s].todo = {j} THEN "exec" ELSE "get",
                                     !.todo = mover[s].todo \ {j},
                                     !.moves = mover[s].moves \cup (IF found THEN {j} ELSE {}),
                                     !.drops = mover[s].drops \cup (IF found THEN {} ELSE {j})]
    <3>1. m \in MoverStates /\ m.pc # "rem"
      BY <1>1 DEF MoverStates, MoverPcs
    <3>2. mover' = [mover EXCEPT ![s] = m] /\ UNCHANGED <<api, reclaimer>>
      BY <1>4 DEF MoverGet, moverFrame
    <3> QED BY <3>1, <3>2, MoverUpdate
  <2> QED BY <1>0, <2>1, <2>2
<1>5. ASSUME NEW j \in Jobs, MoverPush(s, j) PROVE TypeInv'
  <2>1. QueueTypeOK' /\ StoreTypeOK' /\ LockTypeOK'
    BY <1>5, PushType, LockFrameType DEF MoverPush, moverFrame, LockFrame
  <2>2. CoreTypeOK' /\ BusyCore'
    <3> DEFINE m == [mover[s] EXCEPT !.pc = "rem", !.job = j, !.moves = mover[s].moves \ {j}]
    <3>1. m \in MoverStates /\ m.job \in Jobs
      BY <1>1 DEF MoverStates, MoverPcs
    <3>2. mover' = [mover EXCEPT ![s] = m] /\ UNCHANGED <<api, reclaimer>>
      BY <1>5 DEF MoverPush, moverFrame
    <3> QED BY <3>1, <3>2, MoverUpdate
  <2> QED BY <1>0, <2>1, <2>2
<1>6. ASSUME NEW j \in Jobs, MoverDrop(s, j) PROVE TypeInv'
  <2>1. QueueTypeOK' /\ StoreTypeOK' /\ LockTypeOK'
    BY <1>6, ZRemDelayedType, LockFrameType DEF MoverDrop, moverFrame, LockFrame
  <2>2. CoreTypeOK' /\ BusyCore'
    <3> DEFINE m == [mover[s] EXCEPT !.drops = @ \ {j}]
    <3>1. m \in MoverStates /\ m.pc # "rem"
      BY <1>1, <1>6 DEF MoverStates, MoverDrop
    <3>2. mover' = [mover EXCEPT ![s] = m] /\ UNCHANGED <<api, reclaimer>>
      BY <1>6 DEF MoverDrop, moverFrame
    <3> QED BY <3>1, <3>2, MoverUpdate
  <2> QED BY <1>0, <2>1, <2>2
<1>7. CASE MoverRem(s)
  <2>1. QueueTypeOK' /\ StoreTypeOK' /\ LockTypeOK'
    BY <1>1, <1>7, ZRemDelayedType, LockFrameType DEF MoverRem, moverFrame, LockFrame
  <2>2. CoreTypeOK' /\ BusyCore'
    <3> DEFINE m == [mover[s] EXCEPT !.pc = "exec", !.job = NoJob]
    <3>1. m \in MoverStates /\ m.pc # "rem"
      BY <1>1 DEF MoverStates, MoverPcs
    <3>2. mover' = [mover EXCEPT ![s] = m] /\ UNCHANGED <<api, reclaimer>>
      BY <1>7 DEF MoverRem, moverFrame
    <3> QED BY <3>1, <3>2, MoverUpdate
  <2> QED BY <1>0, <2>1, <2>2
<1>8. CASE MoverRelease(s)
  <2>1. QueueTypeOK' /\ StoreTypeOK' /\ LockTypeOK'
    BY <1>8, QueueUnchanged
       DEF MoverRelease, moverFrame, Release, Unlocked, StoreTypeOK, LockTypeOK
  <2>2. CoreTypeOK' /\ BusyCore'
    <3>1. IdleMover \in MoverStates /\ IdleMover.pc # "rem"
      BY DEF IdleMover, MoverStates, MoverPcs
    <3> QED
      BY <1>8, <3>1, MoverUpdate DEF MoverRelease, moverFrame
  <2> QED BY <1>0, <2>1, <2>2
<1> QED
  BY <1>2, <1>3, <1>4, <1>5, <1>6, <1>7, <1>8 DEF LMove

\* Every step of the reclaim loop keeps the types.
LEMMA ReclaimerType ==
  ASSUME TypeInv, NEW s \in Schedulers, LReclaim(s) \/ LReclaimPush(s)
  PROVE  TypeInv'
<1> USE DEF TypeInv, TypeOK
<1>1. /\ reclaimer[s] \in ReclaimerStates
      /\ reclaimer[s].pc \notin {"idle", "scan"} => reclaimer[s].key \in Workers
      /\ reclaimer[s].pc \in {"set", "push", "rem", "drop"} => reclaimer[s].job \in Jobs
      /\ reclaimer[s].pc = "set" => reclaimer[s].rec \in Records
  BY DEF CoreTypeOK, BusyCore, ReclaimerStates
<1>2. ASSUME LReclaim(s) PROVE HistoryTypeOK' /\ PoolTypeOK' /\ BusyPool'
  BY <1>2, PoolFrameType DEF LReclaim, HistoryTypeOK, history, PoolFrame
<1>3. ASSUME UNCHANGED reclaimFrame PROVE StoreTypeOK' /\ LockTypeOK' /\ UNCHANGED <<api, mover>>
  BY <1>3, LockFrameType DEF reclaimFrame, LockFrame
<1>4. CASE LReclaim(s) /\ ReclaimStart(s)
  <2>1. QueueTypeOK'
    BY <1>4, QueueUnchanged DEF ReclaimStart
  <2>2. CoreTypeOK' /\ BusyCore'
    BY <1>1, <1>3, <1>4 DEF ReclaimStart, CoreTypeOK, BusyCore, ReclaimerPcs
  <2> QED BY <1>2, <1>3, <1>4, <2>1, <2>2 DEF ReclaimStart
<1>5. ASSUME LReclaim(s), NEW w \in Workers, ReclaimKey(s, w) PROVE TypeInv'
  <2>1. QueueTypeOK'
    BY <1>5, QueueUnchanged DEF ReclaimKey
  <2>2. CoreTypeOK' /\ BusyCore'
    <3> DEFINE m == [reclaimer[s] EXCEPT !.pc = "next", !.keys = reclaimer[s].keys \ {w},
                                         !.key = w, !.todo = Stale(w)]
    <3>1. m \in ReclaimerStates /\ m.pc = "next" /\ m.key \in Workers
      BY <1>1 DEF Stale, ReclaimerStates, ReclaimerPcs
    <3>2. reclaimer' = [reclaimer EXCEPT ![s] = m] /\ UNCHANGED <<api, mover>>
      BY <1>3, <1>5 DEF ReclaimKey
    <3> HIDE DEF m
    <3> QED BY <3>1, <3>2, ReclaimerUpdate
  <2> QED BY <1>2, <1>3, <1>5, <2>1, <2>2 DEF ReclaimKey
<1>6. ASSUME LReclaim(s), NEW j \in Jobs, ReclaimGet(s, j, data[j] # NoData) PROVE TypeInv'
  <2>1. QueueTypeOK'
    BY <1>6, QueueUnchanged DEF ReclaimGet
  <2>2. data[j] # NoData => Retried(data[j]) \in Records
    BY RetriedType DEF QueueTypeOK
  <2>3. CoreTypeOK' /\ BusyCore'
    <3> DEFINE found == data[j] # NoData
               m == [reclaimer[s] EXCEPT !.pc = IF found THEN "set" ELSE "drop",
                                         !.todo = reclaimer[s].todo \ {j}, !.job = j,
                                         !.rec = IF found THEN Retried(data[j]) ELSE NoData]
    <3>1. /\ m \in ReclaimerStates /\ m.pc \in {"set", "drop"}
          /\ m.key \in Workers /\ m.job \in Jobs
          /\ m.pc = "set" => m.rec \in Records
      BY <1>1, <1>6, <2>2 DEF ReclaimGet, ReclaimerStates, ReclaimerPcs
    <3>2. reclaimer' = [reclaimer EXCEPT ![s] = m] /\ UNCHANGED <<api, mover>>
      BY <1>3, <1>6 DEF ReclaimGet
    <3> HIDE DEF m
    <3> QED BY <3>1, <3>2, ReclaimerUpdate
  <2> QED BY <1>2, <1>3, <1>6, <2>1, <2>3 DEF ReclaimGet
<1>7. CASE LReclaim(s) /\ ReclaimSet(s)
  <2>1. QueueTypeOK'
    BY <1>1, <1>7, StoreType, RetriedType, QueueAssumption DEF ReclaimSet
  <2>2. CoreTypeOK' /\ BusyCore'
    BY <1>1, <1>3, <1>7 DEF ReclaimSet, CoreTypeOK, BusyCore, ReclaimerPcs
  <2> QED BY <1>2, <1>3, <1>7, <2>1, <2>2 DEF ReclaimSet
<1>8. CASE LReclaim(s) /\ ReclaimRem(s)
  <2>1. QueueTypeOK'
    BY <1>1, <1>8, ZRemInflightType DEF ReclaimRem
  <2>2. CoreTypeOK' /\ BusyCore'
    BY <1>1, <1>3, <1>8 DEF ReclaimRem, Continue, CoreTypeOK, BusyCore, ReclaimerPcs
  <2> QED BY <1>2, <1>3, <1>8, <2>1, <2>2 DEF ReclaimRem
<1>9. CASE LReclaim(s) /\ ReclaimCard(s)
  <2>1. QueueTypeOK'
    BY <1>9, QueueUnchanged DEF ReclaimCard
  <2>2. CoreTypeOK' /\ BusyCore'
    <3> DEFINE m == IF InFlight(reclaimer[s].key) = {}
                      THEN [reclaimer[s] EXCEPT !.pc = "del"] ELSE Finish(reclaimer[s])
    <3>1. [reclaimer[s] EXCEPT !.pc = "del"] \in ReclaimerStates
      BY <1>1 DEF ReclaimerStates, ReclaimerPcs
    <3>2. /\ m \in ReclaimerStates /\ m.pc \in {"idle", "scan", "del"}
          /\ m.pc = "del" => m.key \in Workers
      BY <1>1, <1>9, <3>1, FinishType DEF ReclaimCard, ReclaimerStates
    <3>3. reclaimer' = [reclaimer EXCEPT ![s] = m] /\ UNCHANGED <<api, mover>>
      BY <1>3, <1>9 DEF ReclaimCard
    <3> HIDE DEF m
    <3> QED BY <3>2, <3>3, ReclaimerUpdate
  <2> QED BY <1>2, <1>3, <1>9, <2>1, <2>2 DEF ReclaimCard
<1>10. CASE LReclaim(s) /\ ReclaimDel(s)
  <2>1. QueueTypeOK'
    BY <1>1, <1>10, DelInflightType DEF ReclaimDel
  <2>2. CoreTypeOK' /\ BusyCore'
    BY <1>1, <1>3, <1>10, FinishType, ReclaimerUpdate DEF ReclaimDel
  <2> QED BY <1>2, <1>3, <1>10, <2>1, <2>2 DEF ReclaimDel
<1>11. CASE LReclaimPush(s)
  <2>1. QueueTypeOK' /\ PoolTypeOK' /\ BusyPool'
    BY <1>1, <1>11, PushType, PoolFrameType DEF LReclaimPush, ReclaimPush, PoolFrame
  <2>2. CoreTypeOK' /\ BusyCore'
    BY <1>1, <1>3, <1>11 DEF LReclaimPush, ReclaimPush, CoreTypeOK, BusyCore, ReclaimerPcs
  <2>3. HistoryTypeOK'
    BY <1>1, <1>11 DEF LReclaimPush, ReclaimPush, HistoryTypeOK
  <2> QED BY <1>3, <1>11, <2>1, <2>2, <2>3 DEF LReclaimPush, ReclaimPush
<1> QED
  BY <1>4, <1>5, <1>6, <1>7, <1>8, <1>9, <1>10, <1>11 DEF LReclaim

\* A failing call of a background loop keeps the types.
LEMMA LoopFaultType ==
  ASSUME TypeInv, NEW s \in Schedulers,
         (\E j \in Jobs : LGetFails(s, j)) \/ LCardFails(s) \/ LFault(s)
  PROVE  TypeInv'
<1> USE DEF TypeInv, TypeOK
<1>1. /\ mover[s] \in MoverStates
      /\ reclaimer[s] \in ReclaimerStates
      /\ reclaimer[s].pc \notin {"idle", "scan"} => reclaimer[s].key \in Workers
  BY DEF CoreTypeOK, BusyCore, MoverStates, ReclaimerStates
<1>2. ASSUME NEW j \in Jobs, LGetFails(s, j) PROVE TypeInv'
  <2>1. /\ StoreTypeOK' /\ LockTypeOK' /\ QueueTypeOK'
        /\ PoolTypeOK' /\ BusyPool' /\ HistoryTypeOK'
    <3>1. UNCHANGED queueVars /\ LockFrame /\ PoolFrame
      BY <1>2, Zenon
         DEF LGetFails, MoverGet, ReclaimGet, moverFrame, reclaimFrame, LockFrame, PoolFrame
    <3>2. HistoryTypeOK'
      BY <1>2, MishapAssumption DEF LGetFails, HistoryTypeOK, Mishap
    <3> QED
      BY <3>1, <3>2, QueueUnchanged, PoolFrameType, LockFrameType
  <2>2. CASE MoverGet(s, j, FALSE)
    <3> DEFINE m == [mover[s] EXCEPT !.pc = IF mover[s].todo = {j} THEN "exec" ELSE "get",
                                     !.todo = mover[s].todo \ {j},
                                     !.moves = mover[s].moves \cup (IF FALSE THEN {j} ELSE {}),
                                     !.drops = mover[s].drops \cup (IF FALSE THEN {} ELSE {j})]
    <3>1. m \in MoverStates /\ m.pc # "rem"
      BY <1>1 DEF MoverStates, MoverPcs
    <3>2. mover' = [mover EXCEPT ![s] = m] /\ UNCHANGED <<api, reclaimer>>
      BY <2>2 DEF MoverGet, moverFrame
    <3> HIDE DEF m
    <3> QED BY <2>1, <3>1, <3>2, MoverUpdate
  <2>3. CASE ReclaimGet(s, j, FALSE)
    <3> DEFINE m == [reclaimer[s] EXCEPT !.pc = IF FALSE THEN "set" ELSE "drop",
                                         !.todo = reclaimer[s].todo \ {j}, !.job = j,
                                         !.rec = IF FALSE THEN Retried(data[j]) ELSE NoData]
    <3>1. /\ m \in ReclaimerStates /\ m.pc = "drop" /\ m.job \in Jobs /\ m.key \in Workers
      BY <1>1, <2>3 DEF ReclaimGet, ReclaimerStates, ReclaimerPcs
    <3>2. reclaimer' = [reclaimer EXCEPT ![s] = m] /\ UNCHANGED <<api, mover>>
      BY <2>3 DEF ReclaimGet, reclaimFrame
    <3> HIDE DEF m
    <3> QED BY <2>1, <3>1, <3>2, ReclaimerUpdate
  <2> QED
    BY <1>2, <2>2, <2>3 DEF LGetFails
<1>3. CASE LCardFails(s)
  <2>1. /\ StoreTypeOK' /\ LockTypeOK' /\ QueueTypeOK'
        /\ PoolTypeOK' /\ BusyPool' /\ HistoryTypeOK'
    BY <1>3, QueueUnchanged, PoolFrameType, LockFrameType, MishapAssumption
       DEF LCardFails, ReclaimCardFails, reclaimFrame, LockFrame, PoolFrame, HistoryTypeOK,
           Mishap, InFlight
  <2>2. CoreTypeOK' /\ BusyCore'
    <3> DEFINE m == [reclaimer[s] EXCEPT !.pc = "del"]
    <3>1. m \in ReclaimerStates /\ m.pc = "del" /\ m.key \in Workers
      BY <1>1, <1>3 DEF LCardFails, ReclaimCardFails, ReclaimerStates, ReclaimerPcs
    <3>2. reclaimer' = [reclaimer EXCEPT ![s] = m] /\ UNCHANGED <<api, mover>>
      BY <1>3 DEF LCardFails, ReclaimCardFails, reclaimFrame
    <3> HIDE DEF m
    <3> QED BY <3>1, <3>2, ReclaimerUpdate
  <2> QED BY <2>1, <2>2
<1>4. CASE LFault(s)
  <2>1. QueueTypeOK' /\ PoolTypeOK' /\ BusyPool' /\ HistoryTypeOK' /\ StoreTypeOK'
    BY <1>4, QueueUnchanged, PoolFrameType, MishapAssumption
       DEF LFault, MoverAborts, MoverAcquireLost, ReclaimAborts, moverFrame, reclaimFrame,
           PoolFrame, HistoryTypeOK, Mishap, HalfMoved, StoreTypeOK
  <2>2. CASE MoverAborts(s)
    <3> DEFINE m == [IdleMover EXCEPT
                       !.pc = IF mover[s].pc = "release" THEN "idle" ELSE "release"]
    <3>1. m \in MoverStates /\ m.pc # "rem"
      BY DEF IdleMover, MoverStates, MoverPcs
    <3>2. mover' = [mover EXCEPT ![s] = m] /\ UNCHANGED <<api, reclaimer>> /\ LockTypeOK'
      BY <2>2 DEF MoverAborts, moverFrame, LockTypeOK
    <3> HIDE DEF m
    <3> QED BY <2>1, <3>1, <3>2, MoverUpdate
  <2>3. CASE MoverAcquireLost(s)
    <3>1. LockTypeOK' /\ CoreTypeOK' /\ BusyCore'
      BY <2>3, LockAssumption
         DEF MoverAcquireLost, Acquire, moverFrame, LockTypeOK, CoreTypeOK, BusyCore
    <3> QED BY <2>1, <3>1
  <2>4. CASE ReclaimAborts(s)
    <3>1. LockTypeOK' /\ UNCHANGED <<api, mover>>
      BY <2>4 DEF ReclaimAborts, reclaimFrame, LockTypeOK
    <3>2. CASE reclaimer[s].pc \in {"set", "push", "rem", "drop"} /\ Continue(s)
      <4> DEFINE m == [reclaimer[s] EXCEPT !.pc = "next", !.job = NoJob, !.rec = NoData]
      <4>1. m \in ReclaimerStates /\ m.pc = "next" /\ m.key \in Workers
        BY <1>1, <3>2 DEF ReclaimerStates, ReclaimerPcs
      <4>2. reclaimer' = [reclaimer EXCEPT ![s] = m]
        BY <3>2 DEF Continue
      <4> HIDE DEF m
      <4> QED BY <2>1, <3>1, <4>1, <4>2, ReclaimerUpdate
    <3>3. CASE reclaimer' = [reclaimer EXCEPT ![s] = Finish(@)]
      BY <1>1, <2>1, <3>1, <3>3, FinishType, ReclaimerUpdate
    <3>4. ASSUME NEW w \in reclaimer[s].keys,
                 reclaimer' = [reclaimer EXCEPT ![s] =
                                 Finish([@ EXCEPT !.keys = reclaimer[s].keys \ {w}])]
          PROVE  TypeInv'
      <4> DEFINE m == [reclaimer[s] EXCEPT !.keys = reclaimer[s].keys \ {w}]
      <4>1. m \in ReclaimerStates
        BY <1>1 DEF ReclaimerStates
      <4>2. reclaimer' = [reclaimer EXCEPT ![s] = Finish(m)]
        BY <3>4
      <4> HIDE DEF m
      <4> QED BY <2>1, <3>1, <4>1, <4>2, FinishType, ReclaimerUpdate
    <3> QED
      BY <2>4, <3>2, <3>3, <3>4 DEF ReclaimAborts
  <2> QED
    BY <1>4, <2>2, <2>3, <2>4 DEF LFault
<1> QED
  BY <1>2, <1>3, <1>4

\* A crash, of a worker process or of a scheduler, keeps the types.
LEMMA CrashType ==
  ASSUME TypeInv, (\E w \in Workers : WCrash(w)) \/ (\E s \in Schedulers : LCrash(s))
  PROVE  TypeInv'
<1> USE DEF TypeInv, TypeOK
<1>1. ASSUME NEW w \in Workers, WCrash(w) PROVE TypeInv'
  <2>1. QueueTypeOK' /\ StoreTypeOK' /\ HistoryTypeOK'
    BY <1>1, QueueUnchanged, MishapAssumption
       DEF WCrash, CrashPool, StoreTypeOK, HistoryTypeOK, Mishap
  <2>2. PoolTypeOK' /\ BusyPool'
    BY <1>1 DEF WCrash, CrashPool, PoolTypeOK, BusyPool, Idle, GorPcs, AckPcs, NackPcs
  <2> QED
    BY <1>1, <2>1, <2>2, CoreFrameType DEF WCrash, CoreFrame
<1>2. ASSUME NEW s \in Schedulers, LCrash(s) PROVE TypeInv'
  <2>1. QueueTypeOK' /\ StoreTypeOK' /\ LockTypeOK' /\ HistoryTypeOK'
    BY <1>2, QueueUnchanged, LockFrameType, MishapAssumption
       DEF LCrash, CrashScheduler, LockFrame, HistoryTypeOK, Mishap, HalfMoved
  <2>2. CoreTypeOK' /\ BusyCore'
    BY <1>2
       DEF LCrash, CrashScheduler, CoreTypeOK, BusyCore, IdleApi, IdleMover, IdleReclaimer,
           ApiPcs, MoverPcs, ReclaimerPcs
  <2> QED
    BY <1>2, <2>1, <2>2, PoolFrameType DEF LCrash, PoolFrame
<1> QED
  BY <1>1, <1>2

\* The clock keeps the types.
LEMMA TickType ==
  ASSUME TypeInv, Tick
  PROVE  TypeInv'
<1> USE DEF TypeInv, TypeOK
<1>1. QueueTypeOK' /\ StoreTypeOK'
  BY QueueTickType DEF Tick, StoreTypeOK
<1>2. LockTypeOK'
  BY DEF Tick, LockTick, LockTypeOK, Unlocked
<1>3. PoolTypeOK' /\ BusyPool'
  BY EarlierType DEF Tick, PoolTick, PoolTypeOK, BusyPool
<1>4. CoreTypeOK' /\ BusyCore'
  <2>1. \A r \in Requests :
          /\ api'[r] = [api[r] EXCEPT !.wait = Earlier(api[r].wait)]
          /\ Earlier(api[r].wait) \in Nat
    BY EarlierType DEF Tick, CoreTick, CoreTypeOK
  <2>2. api' = [r \in Requests |-> [api[r] EXCEPT !.wait = Earlier(api[r].wait)]]
    BY DEF Tick, CoreTick
  <2>3. UNCHANGED <<mover, reclaimer>>
    BY DEF Tick, CoreTick
  <2> DEFINE T == [pc : ApiPcs, op : {"none", "submit", "retry", "delete"},
                   job : Jobs \cup {NoJob}, wait : Nat]
  <2>4. ASSUME NEW r \in Requests
        PROVE  /\ [api[r] EXCEPT !.wait = Earlier(api[r].wait)] \in T
               /\ api'[r].pc = api[r].pc /\ api'[r].job = api[r].job
    <3>1. api[r] \in T
      BY DEF CoreTypeOK
    <3> QED BY <2>1, <3>1
  <2>5. api' \in [Requests -> T]
    BY <2>2, <2>4
  <2>6. CoreTypeOK'
    BY <2>3, <2>5 DEF CoreTypeOK
  <2>7. BusyCore'
    BY <2>3, <2>4 DEF BusyCore
  <2> QED
    BY <2>6, <2>7
<1>5. HistoryTypeOK'
  BY DEF Tick, HistoryTypeOK, Expired
<1> QED
  BY <1>1, <1>2, <1>3, <1>4, <1>5

\* The initial state satisfies the type invariant.
LEMMA InitType == Init => TypeInv
<1> SUFFICES ASSUME Init PROVE TypeInv
  OBVIOUS
<1> USE DEF Init, TypeInv, TypeOK
<1>1. QueueTypeOK
  BY DEF QueueInit, QueueTypeOK, Priorities
<1>2. StoreTypeOK /\ LockTypeOK
  BY DEF StoreInit, StoreTypeOK, LockInit, LockTypeOK, Unlocked
<1>3. PoolTypeOK /\ BusyPool
  BY DEF PoolInit, PoolTypeOK, BusyPool, Idle, GorPcs, AckPcs, NackPcs
<1>4. CoreTypeOK /\ BusyCore
  BY DEF CoreInit, CoreTypeOK, BusyCore, IdleApi, IdleMover, IdleReclaimer, ApiPcs, MoverPcs,
         ReclaimerPcs
<1>5. HistoryTypeOK
  BY MishapAssumption DEF HistoryTypeOK
<1> QED
  BY <1>1, <1>2, <1>3, <1>4, <1>5

\* Every step of the system preserves the type invariant.
LEMMA NextType == TypeInv /\ [Next]_vars => TypeInv'
<1> SUFFICES ASSUME TypeInv, [Next]_vars PROVE TypeInv'
  OBVIOUS
<1>1. CASE UNCHANGED vars
  BY <1>1, QueueUnchanged, CoreFrameType, PoolFrameType
     DEF TypeInv, TypeOK, vars, history, CoreFrame, PoolFrame, StoreTypeOK, HistoryTypeOK
<1>2. ASSUME NEW s \in Schedulers, LoopNext(s) PROVE TypeInv'
  BY <1>2, MoverType, ReclaimerType, LoopFaultType, CrashType DEF LoopNext
<1> QED
  BY <1>1, <1>2, WorkerType, RequestType, CrashType, TickType DEF Next

\* Every variable keeps its type: what Redis, PostgreSQL and the threads hold is
\* always a job, a record, a list of jobs or a time of the kinds the code declares,
\* in particular no thread that is about to act on a job holds none.
THEOREM TypeCorrect == Spec => []TypeOK
<1>1. Spec => []TypeInv
  BY InitType, NextType, PTL DEF Spec
<1>2. TypeInv => TypeOK
  BY DEF TypeInv
<1> QED
  BY <1>1, <1>2, PTL

-----------------------------------------------------------------------------
(* At-least-once delivery.  AtLeastOnce is not inductive: an entry of the  *)
(* delayed set or of an in-flight set is no safe place for a job once some *)
(* thread has decided to remove it.                                        *)

\* A mover is about to remove j from the delayed set.
BeingUndelayed(j) ==
    \E s \in Schedulers : \/ mover[s].pc = "rem" /\ mover[s].job = j
                          \/ j \in mover[s].drops

\* j is in a place from which no thread is about to take it away.
Safe(j) ==
    \/ InReady(j)
    \/ delayed[j] # Absent /\ ~BeingUndelayed(j)
    \/ \E w \in Workers : inflight[w][j] # Absent /\ ~BeingRemoved(w, j)

Tracked == \A j \in Unsettled : data[j] # NoData /\ Safe(j)

\* Acknowledge, and the ZREM of Nack, come after the job is settled.
FinishedSettled ==
    \A g \in Goroutines :
        gor[g].pc \in {"ackDel", "ackRem", "nackRem"} => gor[g].job \in settled \cup raced

\* The delayed set, and what a mover has read of it, are jobs Enqueue put there.
DelayedEnqueued ==
    /\ \A j \in Jobs : delayed[j] # Absent => j \in enqueued
    /\ \A s \in Schedulers :
         /\ mover[s].todo \cup mover[s].moves \cup mover[s].drops \subseteq enqueued
         /\ mover[s].pc = "rem" => mover[s].job \in enqueued

\* A retry goes to a ready list, never to the delayed set.
RetryIsReady ==
    \A r \in Requests : api[r].op = "retry" => api[r].wait = 0 /\ api[r].pc # "evalDelayed"

DeliveryInv == Tracked /\ FinishedSettled /\ DelayedEnqueued /\ RetryIsReady

\* Only jobs can be unsettled.
LEMMA JobsUnsettled == TypeInv => Unsettled \subseteq Jobs
  BY DEF TypeInv, TypeOK, HistoryTypeOK, Unsettled

\* A job stays safe when each place that made it safe still does.
LEMMA SafeKept ==
  ASSUME NEW j \in Jobs, Safe(j),
         InReady(j) => InReady(j)',
         delayed[j] # Absent /\ ~BeingUndelayed(j)
           => delayed'[j] # Absent /\ ~BeingUndelayed(j)',
         \A w \in Workers : inflight[w][j] # Absent /\ ~BeingRemoved(w, j)
                              => inflight'[w][j] # Absent /\ ~BeingRemoved(w, j)'
  PROVE  Safe(j)'
  BY DEF Safe

\* A job is in a ready list after a step that changes no list iff it was before.
LEMMA ReadyFrame ==
  ASSUME UNCHANGED ready, NEW j \in Jobs
  PROVE  InReady(j)' <=> InReady(j)
  BY DEF InReady

\* What the loops are about to remove changes only with the loops.
LEMMA LoopFrame ==
  /\ UNCHANGED mover => \A j \in Jobs : BeingUndelayed(j)' <=> BeingUndelayed(j)
  /\ UNCHANGED reclaimer
       => \A j \in Jobs, w \in Workers : BeingRemoved(w, j)' <=> BeingRemoved(w, j)
  BY DEF BeingUndelayed, BeingRemoved

\* A step that changes no list, set or loop changes no job's safety.
LEMMA SafeFrame ==
  ASSUME NEW j \in Jobs, UNCHANGED <<ready, delayed, inflight, mover, reclaimer>>
  PROVE  Safe(j)' <=> Safe(j)
  BY ReadyFrame, LoopFrame DEF Safe

\* A step that pushes a job and leaves the loops alone makes it safe, and keeps
\* every safe job safe.
LEMMA PushSafe ==
  ASSUME QueueTypeOK, NEW j \in Jobs, LPush(j),
         UNCHANGED <<delayed, inflight, mover, reclaimer>>
  PROVE  Safe(j)' /\ \A k \in Jobs : Safe(k) => Safe(k)'
  BY LPushType, LoopFrame DEF Safe

\* dequeueScript pops one job and leaves the others in their list.
LEMMA DequeueReady ==
  ASSUME QueueTypeOK, NEW w \in Workers, NEW j \in Jobs, DequeueScript(w, j)
  PROVE  \A k \in Jobs \ {j} : InReady(k) => InReady(k)'
<1> SUFFICES ASSUME NEW k \in Jobs \ {j}, InReady(k) PROVE InReady(k)'
  OBVIOUS
<1>1. PICK p \in Priorities : /\ ready[p] # <<>> /\ j = Head(ready[p])
                              /\ ready' = [ready EXCEPT ![p] = Tail(@)]
  BY DEF DequeueScript
<1>2. ready[p] \in Seq(Jobs) /\ Priority[k] \in Priorities /\ ready \in [Priorities -> Seq(Jobs)]
  BY PriorityAssumption DEF QueueTypeOK, Priorities
<1>3. CASE Priority[k] # p
  BY <1>1, <1>2, <1>3 DEF InReady
<1>4. CASE Priority[k] = p
  <2>1. PICK i \in 1 .. Len(ready[p]) : ready[p][i] = k
    BY <1>4 DEF InReady
  <2>2. i # 1
    BY <1>1, <1>2, <2>1
  <2>3. i - 1 \in 1 .. Len(Tail(ready[p])) /\ Tail(ready[p])[i - 1] = k
    BY <1>1, <1>2, <2>1, <2>2
  <2>4. ready'[p] = Tail(ready[p])
    BY <1>1, <1>2
  <2> QED
    BY <1>4, <2>3, <2>4 DEF InReady
<1> QED
  BY <1>3, <1>4

-----------------------------------------------------------------------------
(* At-least-once: the worker goroutines *)

\* A step of a goroutine that leaves the delayed set alone.
LEMMA WorkerFrame ==
  ASSUME DeliveryInv, UNCHANGED <<coreVars, enqueued, delayed>>
  PROVE  DelayedEnqueued' /\ RetryIsReady'
  BY DEF DeliveryInv, DelayedEnqueued, RetryIsReady, coreVars

\* Popping a job puts it in the in-flight set: it is safe there, or raced.
LEMMA DequeueDelivery ==
  ASSUME TypeInv, DeliveryInv, NEW g \in Goroutines, NEW j \in Jobs,
         DequeueScript(PoolOf[g], j),
         raced' = IF BeingRemoved(PoolOf[g], j) THEN raced \cup {j} ELSE raced,
         UNCHANGED <<coreVars, enqueued, settled, lost>>
  PROVE  Tracked' /\ DelayedEnqueued' /\ RetryIsReady'
<1>1. DelayedEnqueued' /\ RetryIsReady'
  BY WorkerFrame DEF DequeueScript
<1> SUFFICES ASSUME NEW k \in Unsettled' PROVE data'[k] # NoData /\ Safe(k)'
  BY <1>1 DEF Tracked
<1> DEFINE w == PoolOf[g]
<1>2. k \in Unsettled /\ k \in Jobs /\ w \in Workers
  BY JobsUnsettled, PoolAssumption DEF Unsettled
<1>3. data'[k] # NoData /\ Safe(k)
  BY <1>2 DEF DeliveryInv, Tracked, DequeueScript
<1>4. /\ inflight' = [inflight EXCEPT ![w][j] = StaleAge]
      /\ inflight \in [Workers -> [Jobs -> Nat \cup {Absent}]]
      /\ StaleAge # Absent
      /\ UNCHANGED <<delayed, mover, reclaimer>>
  BY QueueAssumption DEF DequeueScript, coreVars, TypeInv, TypeOK, QueueTypeOK, Absent
<1> HIDE DEF w
<1>5. CASE k = j
  <2>1. ~BeingRemoved(w, j)
    BY <1>5 DEF Unsettled, w
  <2>2. inflight'[w][j] # Absent
    BY <1>2, <1>4
  <2> QED
    BY <1>2, <1>3, <1>4, <1>5, <2>1, <2>2, LoopFrame DEF Safe
<1>6. CASE k # j
  <2>1. InReady(k) => InReady(k)'
    BY <1>2, <1>6, DequeueReady DEF TypeInv, TypeOK, w
  <2>2. \A v \in Workers : inflight'[v][k] = inflight[v][k]
    BY <1>2, <1>4, <1>6
  <2> QED
    BY <1>2, <1>3, <1>4, <2>1, <2>2, LoopFrame, SafeKept
<1> QED
  BY <1>5, <1>6

\* A goroutine that removes the in-flight entry or the record of a finished job
\* disturbs no job that is not settled.
LEMMA FinishDelivery ==
  ASSUME TypeInv, DeliveryInv, NEW g \in Goroutines,
         gor[g].pc \in {"ackDel", "ackRem", "nackRem"},
         DelData(gor[g].job) \/ ZRemInflight(PoolOf[g], gor[g].job),
         UNCHANGED <<coreVars, history>>
  PROVE  Tracked' /\ DelayedEnqueued' /\ RetryIsReady'
<1> DEFINE j == gor[g].job
           w == PoolOf[g]
<1>1. /\ j \in Jobs /\ j \notin Unsettled /\ w \in Workers
      /\ Unsettled' = Unsettled
  BY PoolAssumption
     DEF TypeInv, BusyPool, DeliveryInv, FinishedSettled, Unsettled, history
<1>2. DelayedEnqueued' /\ RetryIsReady'
  BY WorkerFrame DEF DelData, ZRemInflight, history
<1> SUFFICES ASSUME NEW k \in Unsettled PROVE data'[k] # NoData /\ Safe(k)'
  BY <1>1, <1>2 DEF Tracked
<1>3. k \in Jobs /\ k # j /\ data[k] # NoData /\ Safe(k)
  BY <1>1, JobsUnsettled DEF DeliveryInv, Tracked
<1>4. /\ inflight \in [Workers -> [Jobs -> Nat \cup {Absent}]]
      /\ data \in [Jobs -> Records \cup {NoData}]
  BY DEF TypeInv, TypeOK, QueueTypeOK
<1> HIDE DEF j, w
<1>5. CASE DelData(j)
  BY <1>1, <1>3, <1>4, <1>5, SafeFrame DEF DelData, coreVars
<1>6. CASE ZRemInflight(w, j)
  <2>1. \A v \in Workers : inflight'[v][k] = inflight[v][k]
    BY <1>1, <1>3, <1>4, <1>6 DEF ZRemInflight
  <2>2. UNCHANGED <<data, ready, delayed, mover, reclaimer>>
    BY <1>6 DEF ZRemInflight, coreVars
  <2> QED
    BY <1>3, <2>1, <2>2, ReadyFrame, LoopFrame, SafeKept
<1> QED
  BY <1>5, <1>6 DEF j, w

\* A step that leaves Redis and the loops alone, and unsettles no job.
LEMMA IdleDelivery ==
  ASSUME TypeInv, DeliveryInv, UNCHANGED <<queueVars, mover, reclaimer>>,
         Unsettled' \subseteq Unsettled
  PROVE  Tracked'
<1> SUFFICES ASSUME NEW k \in Unsettled' PROVE data'[k] # NoData /\ Safe(k)'
  BY DEF Tracked
<1>1. k \in Unsettled /\ k \in Jobs
  BY JobsUnsettled
<1> QED
  BY <1>1, SafeFrame DEF DeliveryInv, Tracked, queueVars

\* A record that is written is there, and nothing else changes.
LEMMA StoreDelivery ==
  ASSUME TypeInv, DeliveryInv, NEW j \in Jobs, NEW rec \in Records, NEW n, NEW life,
         Store(j, rec, n, life), UNCHANGED <<mover, enqueued, settled, raced, lost>>,
         \A k \in Jobs, w \in Workers : BeingRemoved(w, k)' => BeingRemoved(w, k)
  PROVE  Tracked'
<1> SUFFICES ASSUME NEW k \in Unsettled' PROVE data'[k] # NoData /\ Safe(k)'
  BY DEF Tracked
<1>1. k \in Unsettled /\ k \in Jobs /\ data \in [Jobs -> Records \cup {NoData}]
  BY JobsUnsettled DEF Unsettled, TypeInv, TypeOK, QueueTypeOK
<1>2. data[k] # NoData /\ Safe(k)
  BY <1>1 DEF DeliveryInv, Tracked
<1>3. data'[k] # NoData
  BY <1>1, <1>2, NoDataIsNoRecord DEF Store, Set
<1>4. Safe(k)'
  BY <1>1, <1>2, ReadyFrame, LoopFrame, SafeKept DEF Store
<1> QED BY <1>3, <1>4

\* Every step of a goroutine, its faults included, keeps DeliveryInv.
LEMMA WorkerDelivery ==
  ASSUME TypeInv, DeliveryInv, NEW g \in Goroutines, WorkerNext(g)
  PROVE  DeliveryInv'
<1> DEFINE Fin == {"ackDel", "ackRem", "nackRem"}
<1>0. /\ PoolOf[g] \in Workers
      /\ gor \in [Goroutines -> [pc : GorPcs, job : Jobs \cup {NoJob},
                                 rec : Records \cup {NoData}, due : Nat, left : Nat]]
      /\ gor[g].pc # "idle" => gor[g].job \in Jobs
      /\ \A h \in Goroutines : gor[h].pc \in Fin => gor[h].job \in settled \cup raced
  BY PoolAssumption DEF TypeInv, TypeOK, PoolTypeOK, BusyPool, DeliveryInv, FinishedSettled
<1>1. ASSUME NEW j \in Jobs, WDequeue(g, j) PROVE DeliveryInv'
  <2>1. Tracked' /\ DelayedEnqueued' /\ RetryIsReady'
    BY <1>1, DequeueDelivery DEF WDequeue, Dequeue
  <2>2. FinishedSettled'
    BY <1>0, <1>1 DEF WDequeue, Dequeue, FinishedSettled
  <2> QED BY <2>1, <2>2 DEF DeliveryInv
<1>2. ASSUME NEW j \in Jobs, WDequeueLost(g, j) PROVE DeliveryInv'
  <2>1. Tracked' /\ DelayedEnqueued' /\ RetryIsReady'
    BY <1>2, DequeueDelivery DEF WDequeueLost, DequeueLost
  <2>2. FinishedSettled'
    BY <1>0, <1>2 DEF WDequeueLost, DequeueLost, FinishedSettled
  <2> QED BY <2>1, <2>2 DEF DeliveryInv
<1>3. CASE WSucceed(g)
  <2>1. DelayedEnqueued' /\ RetryIsReady'
    BY <1>3, WorkerFrame DEF WSucceed, HandlerSucceeds, queueVars
  <2>2. Tracked'
    BY <1>3, IdleDelivery DEF WSucceed, HandlerSucceeds, Unsettled, coreVars
  <2>3. FinishedSettled'
    BY <1>0, <1>3 DEF WSucceed, HandlerSucceeds, FinishedSettled, Idle
  <2> QED BY <2>1, <2>2, <2>3 DEF DeliveryInv
<1>4. CASE WFail(g) \/ (WStep(g) /\ (BeginExecution(g) \/ TimesOut(g) \/ MarkCompleted(g)
                                      \/ MarkFailed(g))) \/ WFault(g)
  <2>1. UNCHANGED <<queueVars, coreVars, enqueued, settled, raced, lost>>
    BY <1>4 DEF WFail, HandlerFails, WStep, BeginExecution, TimesOut, MarkCompleted,
                MarkFailed, WFault, PipelineAborts, UpdateFails, history
  <2>2. DelayedEnqueued' /\ RetryIsReady'
    BY <2>1, WorkerFrame DEF queueVars
  <2>3. Tracked'
    BY <2>1, IdleDelivery DEF Unsettled, coreVars
  <2>4. \A h \in Goroutines : gor'[h].pc \in Fin => gor'[h] = gor[h]
    <3>1. Nacked(gor[g]).pc = "nackSet"
      BY <1>0 DEF Nacked
    <3>2. CASE gor' = [gor EXCEPT ![g] = Nacked(@)]
      BY <1>0, <3>1, <3>2
    <3>3. CASE gor' = [gor EXCEPT ![g] = Idle]
      BY <1>0, <3>3 DEF Idle
    <3>4. CASE \E pc \in {"run", "dbDone", "dbFail"} : Goto(g, pc)
      BY <1>0, <3>4 DEF Goto
    <3>5. CASE UpdateFails(g)
      BY <1>0, <3>5 DEF UpdateFails, Idle
    <3> QED
      BY <1>4, <3>2, <3>3, <3>4, <3>5
         DEF WFail, HandlerFails, WStep, BeginExecution, TimesOut, MarkCompleted, MarkFailed,
             WFault, PipelineAborts
  <2>5. FinishedSettled'
    BY <1>0, <2>1, <2>4 DEF FinishedSettled
  <2> QED BY <2>2, <2>3, <2>5 DEF DeliveryInv
<1>5. CASE WNackPush(g)
  <2>1. DelayedEnqueued' /\ RetryIsReady'
    BY <1>5, WorkerFrame DEF WNackPush, NackPush, Push, PushDLQ
  <2>2. FinishedSettled'
    BY <1>0, <1>5 DEF WNackPush, NackPush, Goto, FinishedSettled
  <2>3. Tracked'
    <3> SUFFICES ASSUME NEW k \in Unsettled' PROVE data'[k] # NoData /\ Safe(k)'
      BY DEF Tracked
    <3>1. k \in Unsettled /\ k \in Jobs /\ data[k] # NoData /\ Safe(k) /\ QueueTypeOK
      BY <1>5, JobsUnsettled
         DEF WNackPush, Unsettled, DeliveryInv, Tracked, TypeInv, TypeOK
    <3>2. CASE Push(gor[g].job)
      BY <1>0, <1>5, <3>1, <3>2, PushSafe DEF WNackPush, NackPush, Push, coreVars
    <3>3. CASE PushDLQ(gor[g].job)
      BY <1>5, <3>1, <3>3, SafeFrame DEF WNackPush, PushDLQ, coreVars
    <3> QED BY <1>5, <3>2, <3>3 DEF WNackPush, NackPush
  <2> QED BY <2>1, <2>2, <2>3 DEF DeliveryInv
<1>6. CASE WStep(g) /\ (AckDel(g) \/ AckRem(g) \/ NackRem(g))
  <2>1. Tracked' /\ DelayedEnqueued' /\ RetryIsReady'
    BY <1>6, FinishDelivery DEF WStep, AckDel, AckRem, NackRem
  <2>2. FinishedSettled'
    BY <1>0, <1>6 DEF WStep, AckDel, AckRem, NackRem, Goto, FinishedSettled, history
  <2> QED BY <2>1, <2>2 DEF DeliveryInv
<1>7. CASE WStep(g) /\ NackSet(g)
  <2>1. gor[g].rec \in Records /\ gor[g].job \in Jobs
    BY <1>0, <1>7 DEF NackSet, TypeInv, BusyPool, NackPcs
  <2>2. DelayedEnqueued' /\ RetryIsReady'
    BY <1>7, WorkerFrame DEF WStep, NackSet, Store, history
  <2>3. Tracked'
    BY <1>7, <2>1, StoreDelivery, LoopFrame DEF WStep, NackSet, coreVars, history
  <2>4. FinishedSettled'
    BY <1>0, <1>7 DEF WStep, NackSet, Goto, FinishedSettled, history
  <2> QED BY <2>2, <2>3, <2>4 DEF DeliveryInv
<1> QED
  BY <1>1, <1>2, <1>3, <1>4, <1>5, <1>6, <1>7 DEF WorkerNext, WStep

-----------------------------------------------------------------------------
(* At-least-once: API requests *)

\* enqueueScript makes its job safe in a ready list, or puts a job that no mover
\* has seen yet in the delayed set.
LEMMA EnqueueDelivery ==
  ASSUME TypeInv, DeliveryInv, NEW r \in Requests, api[r].pc \in EnqueuePcs,
         EnqueueScript(api[r].job, NewJob, api[r].wait, ToReady(api[r])),
         Entered(r), UNCHANGED <<mover, reclaimer>>
  PROVE  Tracked' /\ FinishedSettled' /\ DelayedEnqueued'
<1>0. api[r].job \in Jobs /\ api[r].wait \in Nat /\ QueueTypeOK
  BY DEF EnqueuePcs, TypeInv, TypeOK, CoreTypeOK, BusyCore
<1>1. PICK j \in Jobs, n \in Nat : j = api[r].job /\ n = api[r].wait
  BY <1>0
<1>2. enqueued' = enqueued \cup {j} /\ UNCHANGED <<lost, gor>>
  BY <1>1 DEF Entered
<1>3. /\ Unsettled' \subseteq Unsettled \cup {j}
      /\ settled \subseteq settled' \cup {j} /\ raced \subseteq raced'
  BY <1>1, <1>2 DEF Entered, Unsettled
<1>4. /\ data \in [Jobs -> Records \cup {NoData}] /\ delayed \in [Jobs -> Nat \cup {Absent}]
      /\ data' = [data EXCEPT ![j] = NewJob] /\ UNCHANGED inflight
  BY <1>0, <1>1 DEF EnqueueScript, Set, QueueTypeOK
<1>5. FinishedSettled'
  <2> SUFFICES ASSUME NEW g \in Goroutines, gor[g].pc \in {"ackDel", "ackRem", "nackRem"}
               PROVE  gor[g].job \in settled' \cup raced'
    BY <1>2 DEF FinishedSettled
  <2>1. gor[g].job \in settled \cup raced
    BY DEF DeliveryInv, FinishedSettled
  <2>2. CASE gor[g].job # j
    BY <1>3, <2>1, <2>2
  <2>3. CASE gor[g].job = j
    BY <1>1, <2>1, <2>3 DEF Entered, Finishing
  <2> QED BY <2>2, <2>3
<1>6. data'[j] # NoData /\ \A k \in Jobs : data[k] # NoData => data'[k] # NoData
  BY <1>1, <1>4, NewJobType, NoDataIsNoRecord
<1>7. \A k \in Unsettled : data[k] # NoData /\ Safe(k) /\ k \in Jobs
  BY JobsUnsettled DEF DeliveryInv, Tracked
<1>8. CASE ToReady(api[r])
  <2>1. LPush(j) /\ UNCHANGED delayed
    BY <1>1, <1>8 DEF EnqueueScript
  <2>2. Safe(j)' /\ \A k \in Jobs : Safe(k) => Safe(k)'
    BY <1>0, <1>4, <2>1, PushSafe
  <2>3. Tracked'
    BY <1>3, <1>6, <1>7, <2>2 DEF Tracked
  <2>4. DelayedEnqueued'
    BY <1>2, <2>1 DEF DeliveryInv, DelayedEnqueued
  <2> QED BY <1>5, <2>3, <2>4
<1>9. CASE ~ToReady(api[r])
  <2>1. delayed' = [delayed EXCEPT ![j] = n] /\ UNCHANGED ready
    BY <1>1, <1>9 DEF EnqueueScript
  <2>2. delayed'[j] # Absent /\ \A k \in Jobs : delayed[k] # Absent => delayed'[k] # Absent
    BY <1>1, <1>4, <2>1 DEF Absent
  <2>3. DelayedEnqueued'
    <3>1. \A k \in Jobs : delayed'[k] # Absent => k \in enqueued'
      BY <1>1, <1>2, <1>4, <2>1 DEF DeliveryInv, DelayedEnqueued
    <3> QED BY <1>2, <3>1 DEF DeliveryInv, DelayedEnqueued
  <2>4. api[r].op # "retry"
    BY <1>9 DEF DeliveryInv, RetryIsReady, ToReady, EnqueuePcs
  <2>5. ASSUME NEW k \in Unsettled PROVE Safe(k)'
    BY <1>4, <1>7, <2>1, <2>2, ReadyFrame, LoopFrame, SafeKept
  <2>6. ASSUME j \in Unsettled', j \notin Unsettled PROVE Safe(j)'
    <3>1. j \notin enqueued
      BY <1>1, <1>2, <2>4, <2>6 DEF Entered, Unsettled
    <3>2. ~BeingUndelayed(j)
      BY <3>1 DEF DeliveryInv, DelayedEnqueued, BeingUndelayed
    <3> QED BY <1>1, <2>2, <3>2, LoopFrame DEF Safe
  <2>7. Tracked'
    BY <1>3, <1>6, <1>7, <2>5, <2>6 DEF Tracked
  <2> QED BY <1>5, <2>3, <2>7
<1> QED
  BY <1>8, <1>9

\* A request that ends, or goes on after an error, does not send a retry to the
\* delayed set.
LEMMA RetryKept ==
  ASSUME TypeInv, RetryIsReady, NEW r \in Requests,
         \/ api' = [api EXCEPT ![r] = IdleApi]
         \/ api' = [api EXCEPT ![r] = AfterError(@)]
  PROVE  RetryIsReady'
<1>0. api \in [Requests -> [pc : ApiPcs, op : {"none", "submit", "retry", "delete"},
                            job : Jobs \cup {NoJob}, wait : Nat]]
  BY DEF TypeInv, TypeOK, CoreTypeOK
<1>1. PICK a \in {IdleApi, AfterError(api[r])} : api' = [api EXCEPT ![r] = a]
  OBVIOUS
<1>2. a.op = "retry" => a.wait = 0 /\ a.pc # "evalDelayed"
  BY <1>0, <1>1 DEF AfterError, IdleApi, RetryIsReady
<1> QED
  BY <1>0, <1>1, <1>2 DEF RetryIsReady

\* Every step of a request, its faults included, keeps DeliveryInv.
LEMMA RequestDelivery ==
  ASSUME TypeInv, DeliveryInv, NEW r \in Requests, RequestNext(r)
  PROVE  DeliveryInv'
<1>0. api \in [Requests -> [pc : ApiPcs, op : {"none", "submit", "retry", "delete"},
                            job : Jobs \cup {NoJob}, wait : Nat]]
  BY DEF TypeInv, TypeOK, CoreTypeOK
<1>1. CASE AEnqueue(r) \/ AEnqueueReplyLost(r)
  <2>1. Tracked' /\ FinishedSettled' /\ DelayedEnqueued'
    BY <1>1, EnqueueDelivery
       DEF AEnqueue, AEnqueueReplyLost, Enqueue, EnqueueReplyLost
  <2>2. api' = [api EXCEPT ![r] = IdleApi] \/ api' = [api EXCEPT ![r] = AfterError(@)]
    BY <1>1 DEF AEnqueue, AEnqueueReplyLost, Enqueue, EnqueueReplyLost
  <2>3. RetryIsReady'
    BY <2>2, RetryKept DEF DeliveryInv
  <2> QED BY <2>1, <2>3 DEF DeliveryInv
<1>2. ASSUME UNCHANGED <<queueVars, mover, reclaimer, gor, enqueued, settled, raced, lost>>
      PROVE  Tracked' /\ FinishedSettled' /\ DelayedEnqueued'
  <2>1. Tracked'
    BY <1>2, IdleDelivery DEF Unsettled
  <2>2. FinishedSettled' /\ DelayedEnqueued'
    BY <1>2 DEF DeliveryInv, FinishedSettled, DelayedEnqueued, queueVars
  <2> QED BY <2>1, <2>2
<1>3. ASSUME NEW j \in Jobs, ARetry(r, j) \/ \E wait \in Delays : ASubmit(r, j, wait)
      PROVE  DeliveryInv'
  <2>1. RetryIsReady'
    BY <1>0, <1>3 DEF ARetry, Retry, ASubmit, Submit, DeliveryInv, RetryIsReady
  <2> QED BY <1>2, <1>3, <2>1 DEF ARetry, Retry, ASubmit, Submit, DeliveryInv
<1>4. CASE AStep(r) \/ AFault(r)
  <2>1. UNCHANGED <<queueVars, mover, reclaimer, gor, enqueued, settled, raced, lost>>
    BY <1>4 DEF AStep, RetryUpdate, DeleteJob, Delete, AFault, EnqueueFails, StatementFails,
                history
  <2>2. ASSUME RetryUpdate(r) \/ \E j \in Jobs : Delete(r, j) PROVE RetryIsReady'
    <3>1. RetryIsReady
      BY DEF DeliveryInv
    <3>2. CASE RetryUpdate(r)
      <4>1. PICK a \in {IdleApi, [api[r] EXCEPT !.pc = "enqueue"]} :
              api' = [api EXCEPT ![r] = a]
        BY <3>2 DEF RetryUpdate
      <4>2. a.op = "retry" => a.wait = 0 /\ a.pc # "evalDelayed"
        BY <1>0, <3>1, <4>1 DEF IdleApi, RetryIsReady
      <4> QED BY <1>0, <3>1, <4>1, <4>2 DEF RetryIsReady
    <3>3. CASE \E j \in Jobs : Delete(r, j)
      BY <1>0, <3>1, <3>3 DEF Delete, RetryIsReady
    <3> QED BY <2>2, <3>2, <3>3
  <2>3. ASSUME DeleteJob(r) \/ AFault(r) PROVE RetryIsReady'
    BY <2>3, RetryKept
       DEF DeleteJob, AFault, EnqueueFails, StatementFails, DeliveryInv
  <2> QED BY <1>2, <1>4, <2>1, <2>2, <2>3 DEF DeliveryInv, AStep
<1> QED
  BY <1>1, <1>3, <1>4 DEF RequestNext

-----------------------------------------------------------------------------
(* At-least-once: the delayed-job loop *)

\* A mover may decide to remove a job from the delayed set only when the job is
\* in a ready list or is not to be tracked, and may remove it only then.
LEMMA MoverStep ==
  ASSUME TypeInv, DeliveryInv, NEW s \in Schedulers, NEW m,
         mover' = [mover EXCEPT ![s] = m],
         m.todo \cup m.moves \cup m.drops \subseteq enqueued,
         m.pc = "rem" => m.job \in enqueued,
         UNCHANGED <<data, inflight, reclaimer, gor, api, enqueued, settled, raced>>,
         lost \subseteq lost',
         \A k \in Jobs : delayed'[k] # Absent => delayed[k] # Absent,
         \A k \in Jobs : InReady(k) => InReady(k)',
         \A k \in Unsettled' : (m.pc = "rem" /\ m.job = k) \/ k \in m.drops
                                 => InReady(k)' \/ BeingUndelayed(k),
         \A k \in Unsettled' : delayed[k] # Absent /\ ~BeingUndelayed(k) => delayed'[k] # Absent
  PROVE  DeliveryInv'
<1>1. FinishedSettled' /\ RetryIsReady'
  BY DEF DeliveryInv, FinishedSettled, RetryIsReady
<1>2. mover \in [Schedulers -> MoverStates]
  BY DEF TypeInv, TypeOK, CoreTypeOK, MoverStates
<1>3. mover'[s] = m /\ \A t \in Schedulers : t # s => mover'[t] = mover[t]
  BY <1>2
<1>4. DelayedEnqueued'
  BY <1>3 DEF DeliveryInv, DelayedEnqueued
<1>5. Tracked'
  <2> SUFFICES ASSUME NEW k \in Unsettled' PROVE data'[k] # NoData /\ Safe(k)'
    BY DEF Tracked
  <2>1. k \in Unsettled /\ k \in Jobs
    BY JobsUnsettled DEF Unsettled
  <2>2. data[k] # NoData /\ Safe(k)
    BY <2>1 DEF DeliveryInv, Tracked
  <2>3. BeingUndelayed(k)' => BeingUndelayed(k) \/ InReady(k)'
    BY <1>3 DEF BeingUndelayed
  <2> QED
    BY <2>1, <2>2, <2>3, LoopFrame DEF Safe
<1> QED
  BY <1>1, <1>4, <1>5 DEF DeliveryInv

\* Every step of the delayed-job loop keeps DeliveryInv.
LEMMA MoverDelivery ==
  ASSUME TypeInv, DeliveryInv, NEW s \in Schedulers, LMove(s)
  PROVE  DeliveryInv'
<1>1. /\ mover[s] \in MoverStates
      /\ mover[s].todo \cup mover[s].moves \cup mover[s].drops \subseteq enqueued
      /\ mover[s].pc = "rem" => mover[s].job \in enqueued
      /\ delayed \in [Jobs -> Nat \cup {Absent}]
  BY DEF TypeInv, TypeOK, CoreTypeOK, QueueTypeOK, MoverStates, DeliveryInv, DelayedEnqueued
<1>2. UNCHANGED <<gor, api, reclaimer, enqueued, settled, raced, lost, data, inflight>>
  BY DEF LMove, MoverAcquire, MoverScan, MoverGet, MoverPush, Push, MoverDrop, MoverRem,
         ZRemDelayed, MoverRelease, moverFrame, queueVars, history
<1>3. \A k \in mover[s].drops : BeingUndelayed(k)
  BY DEF BeingUndelayed
<1>4. UNCHANGED ready => \A k \in Jobs : InReady(k) => InReady(k)'
  BY ReadyFrame
<1>5. CASE MoverAcquire(s)
  <2> DEFINE m == [mover[s] EXCEPT !.pc = "scan"]
  <2>1. mover' = [mover EXCEPT ![s] = m] /\ UNCHANGED <<delayed, ready>>
    BY <1>5 DEF MoverAcquire, queueVars
  <2>2. m.pc = "scan" /\ m.todo \cup m.moves \cup m.drops \subseteq enqueued /\ m.drops = mover[s].drops
    BY <1>1 DEF MoverStates
  <2> HIDE DEF m
  <2> QED BY <1>2, <1>3, <1>4, <2>1, <2>2, MoverStep
<1>6. ASSUME NEW B \in Batches, MoverScan(s, B) PROVE DeliveryInv'
  <2> DEFINE m == [mover[s] EXCEPT !.pc = IF B = {} THEN "release" ELSE "get", !.todo = B]
  <2>1. mover' = [mover EXCEPT ![s] = m] /\ UNCHANGED <<delayed, ready>>
    BY <1>6 DEF MoverScan, queueVars
  <2>2. B \subseteq enqueued
    BY DEF Batches, DueJobs, Absent, DeliveryInv, DelayedEnqueued
  <2>3. m.pc # "rem" /\ m.todo \cup m.moves \cup m.drops \subseteq enqueued /\ m.drops = mover[s].drops
    BY <1>1, <2>2 DEF MoverStates
  <2> HIDE DEF m
  <2> QED BY <1>2, <1>3, <1>4, <2>1, <2>3, MoverStep
<1>7. ASSUME NEW j \in Jobs, MoverGet(s, j, data[j] # NoData) PROVE DeliveryInv'
  <2> DEFINE found == data[j] # NoData
             m == [mover[s] EXCEPT !.pc = IF mover[s].todo = {j} THEN "exec" ELSE "get",
                                   !.todo = mover[s].todo \ {j},
                                   !.moves = mover[s].moves \cup (IF found THEN {j} ELSE {}),
                                   !.drops = mover[s].drops \cup (IF found THEN {} ELSE {j})]
  <2>1. mover' = [mover EXCEPT ![s] = m] /\ UNCHANGED <<delayed, ready>>
    BY <1>7 DEF MoverGet, queueVars
  <2>2. m.pc # "rem" /\ m.todo \cup m.moves \cup m.drops \subseteq enqueued
    BY <1>1, <1>7 DEF MoverStates, MoverGet
  <2>3. m.drops = IF found THEN mover[s].drops ELSE mover[s].drops \cup {j}
    BY <1>1 DEF MoverStates
  <2>4. Unsettled' = Unsettled /\ (~found => j \notin Unsettled)
    BY <1>2 DEF Unsettled, DeliveryInv, Tracked
  <2> HIDE DEF m, found
  <2> QED BY <1>2, <1>3, <1>4, <2>1, <2>2, <2>3, <2>4, MoverStep
<1>8. ASSUME NEW j \in Jobs, MoverPush(s, j) PROVE DeliveryInv'
  <2> DEFINE m == [mover[s] EXCEPT !.pc = "rem", !.job = j, !.moves = mover[s].moves \ {j}]
  <2>1. mover' = [mover EXCEPT ![s] = m] /\ UNCHANGED delayed
    BY <1>8 DEF MoverPush, Push
  <2>2. /\ m.todo \cup m.moves \cup m.drops \subseteq enqueued
        /\ m.job = j /\ j \in enqueued /\ m.drops = mover[s].drops
    BY <1>1, <1>8 DEF MoverStates, MoverPush
  <2>3. InReady(j)' /\ \A k \in Jobs : InReady(k) => InReady(k)'
    BY <1>8, LPushType DEF MoverPush, Push, TypeInv, TypeOK
  <2> HIDE DEF m
  <2> QED BY <1>2, <1>3, <2>1, <2>2, <2>3, MoverStep
<1>9. ASSUME NEW j \in Jobs, MoverDrop(s, j) PROVE DeliveryInv'
  <2> DEFINE m == [mover[s] EXCEPT !.drops = mover[s].drops \ {j}]
  <2>1. /\ mover' = [mover EXCEPT ![s] = m]
        /\ delayed' = [delayed EXCEPT ![j] = Absent] /\ UNCHANGED ready
    BY <1>9 DEF MoverDrop, ZRemDelayed
  <2>2. /\ m.todo \cup m.moves \cup m.drops \subseteq enqueued /\ m.pc = "exec"
        /\ m.drops \subseteq mover[s].drops
    BY <1>1, <1>9 DEF MoverStates, MoverDrop
  <2>3. BeingUndelayed(j)
    BY <1>3, <1>9 DEF MoverDrop
  <2>4. \A k \in Jobs : k # j => delayed'[k] = delayed[k]
    BY <1>1, <2>1
  <2>5. delayed'[j] = Absent
    BY <1>1, <2>1
  <2>6. Unsettled' \subseteq Jobs
    BY <1>2, JobsUnsettled DEF Unsettled
  <2> HIDE DEF m
  <2> QED BY <1>2, <1>3, <1>4, <2>1, <2>2, <2>3, <2>4, <2>5, <2>6, MoverStep
<1>10. CASE MoverRem(s)
  <2> DEFINE m == [mover[s] EXCEPT !.pc = "exec", !.job = NoJob]
             j == mover[s].job
  <2>1. /\ mover' = [mover EXCEPT ![s] = m]
        /\ delayed' = [delayed EXCEPT ![j] = Absent] /\ UNCHANGED ready
    BY <1>10 DEF MoverRem, ZRemDelayed
  <2>2. /\ m.todo \cup m.moves \cup m.drops \subseteq enqueued /\ m.pc = "exec"
        /\ m.drops = mover[s].drops
    BY <1>1 DEF MoverStates
  <2>3. \A k \in Jobs : k = j => BeingUndelayed(k)
    BY <1>10 DEF MoverRem, BeingUndelayed
  <2>4. \A k \in Jobs : k # j => delayed'[k] = delayed[k]
    BY <1>1, <2>1
  <2>5. \A k \in Jobs : k = j => delayed'[k] = Absent
    BY <1>1, <2>1
  <2>6. Unsettled' \subseteq Jobs
    BY <1>2, JobsUnsettled DEF Unsettled
  <2> HIDE DEF m, j
  <2> QED BY <1>2, <1>3, <1>4, <2>1, <2>2, <2>3, <2>4, <2>5, <2>6, MoverStep
<1>11. CASE MoverRelease(s)
  <2>1. mover' = [mover EXCEPT ![s] = IdleMover] /\ UNCHANGED <<delayed, ready>>
    BY <1>11 DEF MoverRelease, queueVars
  <2>2. /\ IdleMover.todo \cup IdleMover.moves \cup IdleMover.drops \subseteq enqueued
        /\ IdleMover.pc = "idle" /\ IdleMover.drops = {}
    BY DEF IdleMover
  <2> HIDE DEF IdleMover
  <2> QED BY <1>2, <1>4, <2>1, <2>2, MoverStep
<1> QED
  BY <1>5, <1>6, <1>7, <1>8, <1>9, <1>10, <1>11 DEF LMove

-----------------------------------------------------------------------------
(* At-least-once: the reclaim loop *)

\* A reclaimer may decide to remove an in-flight entry only when the job is in a
\* ready list or is not to be tracked, and may remove it only then.
LEMMA ReclaimerStep ==
  ASSUME TypeInv, DeliveryInv, NEW s \in Schedulers, NEW m,
         reclaimer' = [reclaimer EXCEPT ![s] = m],
         UNCHANGED <<delayed, mover, gor, api, enqueued, settled, raced>>,
         lost \subseteq lost',
         \A k \in Unsettled' : data[k] # NoData => data'[k] # NoData,
         \A k \in Jobs : InReady(k) => InReady(k)',
         \A k \in Unsettled', w \in Workers :
             /\ inflight[w][k] # Absent /\ m.key = w
             /\ m.pc = "del" \/ (m.pc \in {"rem", "drop"} /\ m.job = k)
             => InReady(k)' \/ BeingRemoved(w, k),
         \A k \in Unsettled', w \in Workers :
             inflight[w][k] # Absent /\ ~BeingRemoved(w, k) => inflight'[w][k] # Absent
  PROVE  DeliveryInv'
<1>1. FinishedSettled' /\ RetryIsReady' /\ DelayedEnqueued'
  BY DEF DeliveryInv, FinishedSettled, RetryIsReady, DelayedEnqueued
<1>2. reclaimer \in [Schedulers -> ReclaimerStates]
  BY DEF TypeInv, TypeOK, CoreTypeOK, ReclaimerStates
<1>3. reclaimer'[s] = m /\ \A t \in Schedulers : t # s => reclaimer'[t] = reclaimer[t]
  BY <1>2
<1>4. Tracked'
  <2> SUFFICES ASSUME NEW k \in Unsettled' PROVE data'[k] # NoData /\ Safe(k)'
    BY DEF Tracked
  <2>1. k \in Unsettled /\ k \in Jobs
    BY JobsUnsettled DEF Unsettled
  <2>2. data[k] # NoData /\ Safe(k)
    BY <2>1 DEF DeliveryInv, Tracked
  <2>3. \A w \in Workers : inflight[w][k] # Absent /\ BeingRemoved(w, k)'
                             => BeingRemoved(w, k) \/ InReady(k)'
    <3> SUFFICES ASSUME NEW w \in Workers, inflight[w][k] # Absent, BeingRemoved(w, k)'
                 PROVE  BeingRemoved(w, k) \/ InReady(k)'
      OBVIOUS
    <3>1. PICK t \in Schedulers :
            /\ reclaimer'[t].key = w
            /\ \/ reclaimer'[t].pc = "del"
               \/ reclaimer'[t].pc \in {"rem", "drop"} /\ reclaimer'[t].job = k
      BY DEF BeingRemoved
    <3>2. CASE t = s
      BY <1>3, <3>1, <3>2
    <3>3. CASE t # s
      BY <1>3, <3>1, <3>3 DEF BeingRemoved
    <3> QED BY <3>2, <3>3
  <2> QED
    BY <2>1, <2>2, <2>3, LoopFrame DEF Safe
<1> QED
  BY <1>1, <1>4 DEF DeliveryInv

\* Every step of the reclaim loop keeps DeliveryInv.
LEMMA ReclaimerDelivery ==
  ASSUME TypeInv, DeliveryInv, NEW s \in Schedulers, LReclaim(s) \/ LReclaimPush(s)
  PROVE  DeliveryInv'
<1>1. /\ reclaimer[s] \in ReclaimerStates
      /\ reclaimer[s].pc \notin {"idle", "scan"} => reclaimer[s].key \in Workers
      /\ reclaimer[s].pc \in {"set", "push", "rem", "drop"} => reclaimer[s].job \in Jobs
      /\ reclaimer[s].pc = "set" => reclaimer[s].rec \in Records
      /\ inflight \in [Workers -> [Jobs -> Nat \cup {Absent}]]
      /\ data \in [Jobs -> Records \cup {NoData}]
  BY DEF TypeInv, TypeOK, CoreTypeOK, BusyCore, QueueTypeOK, ReclaimerStates
<1>2. /\ UNCHANGED <<delayed, mover, gor, api, enqueued, settled, raced, lost>>
      /\ Unsettled' = Unsettled
  BY DEF LReclaim, LReclaimPush, ReclaimStart, ReclaimKey, ReclaimGet, ReclaimSet, Store,
         ReclaimPush, Push, ReclaimRem, ZRemInflight, ReclaimCard, ReclaimDel, DelInflight,
         reclaimFrame, queueVars, history, Unsettled
<1>3. UNCHANGED ready => \A k \in Jobs : InReady(k) => InReady(k)'
  BY ReadyFrame
<1>4. Unsettled \subseteq Jobs
  BY JobsUnsettled
<1>5. CASE ReclaimStart(s)
  <2> DEFINE m == [reclaimer[s] EXCEPT !.pc = "scan",
                                       !.keys = {w \in Workers : InFlight(w) # {}}]
  <2>1. reclaimer' = [reclaimer EXCEPT ![s] = m] /\ UNCHANGED queueVars
    BY <1>5 DEF ReclaimStart
  <2>2. m.pc = "scan"
    BY <1>1 DEF ReclaimerStates
  <2> HIDE DEF m
  <2> QED BY <1>2, <1>3, <2>1, <2>2, ReclaimerStep DEF queueVars
<1>6. ASSUME NEW w \in Workers, ReclaimKey(s, w) PROVE DeliveryInv'
  <2> DEFINE m == [reclaimer[s] EXCEPT !.pc = "next", !.keys = reclaimer[s].keys \ {w},
                                       !.key = w, !.todo = Stale(w)]
  <2>1. reclaimer' = [reclaimer EXCEPT ![s] = m] /\ UNCHANGED queueVars
    BY <1>6 DEF ReclaimKey
  <2>2. m.pc = "next"
    BY <1>1 DEF ReclaimerStates
  <2> HIDE DEF m
  <2> QED BY <1>2, <1>3, <2>1, <2>2, ReclaimerStep DEF queueVars
<1>7. ASSUME NEW j \in Jobs, ReclaimGet(s, j, data[j] # NoData) PROVE DeliveryInv'
  <2> DEFINE found == data[j] # NoData
             m == [reclaimer[s] EXCEPT !.pc = IF found THEN "set" ELSE "drop",
                                       !.todo = reclaimer[s].todo \ {j}, !.job = j,
                                       !.rec = IF found THEN Retried(data[j]) ELSE NoData]
  <2>1. reclaimer' = [reclaimer EXCEPT ![s] = m] /\ UNCHANGED queueVars
    BY <1>7 DEF ReclaimGet
  <2>2. m.pc = (IF found THEN "set" ELSE "drop") /\ m.job = j
    BY <1>1 DEF ReclaimerStates
  <2>3. ~found => j \notin Unsettled
    BY DEF DeliveryInv, Tracked
  <2> HIDE DEF m, found
  <2> QED BY <1>2, <1>3, <2>1, <2>2, <2>3, ReclaimerStep DEF queueVars
<1>8. CASE ReclaimSet(s)
  <2> DEFINE m == [reclaimer[s] EXCEPT !.pc = "push"]
  <2>1. reclaimer' = [reclaimer EXCEPT ![s] = m] /\ UNCHANGED <<ready, inflight>>
    BY <1>8 DEF ReclaimSet, Store
  <2>2. m.pc = "push"
    BY <1>1 DEF ReclaimerStates
  <2>3. \A k \in Jobs : data[k] # NoData => data'[k] # NoData
    <3>1. reclaimer[s].job \in Jobs /\ reclaimer[s].rec # NoData
      BY <1>1, <1>8, NoDataIsNoRecord DEF ReclaimSet
    <3>2. data' = [data EXCEPT ![reclaimer[s].job] = reclaimer[s].rec]
      BY <1>8 DEF ReclaimSet, Store, Set
    <3> QED BY <1>1, <3>1, <3>2
  <2> HIDE DEF m
  <2> QED BY <1>2, <1>3, <1>4, <2>1, <2>2, <2>3, ReclaimerStep
<1>9. CASE LReclaimPush(s)
  <2> DEFINE m == [reclaimer[s] EXCEPT !.pc = "rem"]
  <2>1. reclaimer' = [reclaimer EXCEPT ![s] = m] /\ UNCHANGED <<data, inflight>>
    BY <1>9 DEF LReclaimPush, ReclaimPush, Push
  <2>2. m.job = reclaimer[s].job
    BY <1>1 DEF ReclaimerStates
  <2>3. PICK j \in Jobs : j = reclaimer[s].job
    BY <1>1, <1>9 DEF LReclaimPush, ReclaimPush
  <2>4. LPush(j) /\ QueueTypeOK
    BY <1>9, <2>3 DEF LReclaimPush, ReclaimPush, Push, TypeInv, TypeOK
  <2>5. InReady(j)' /\ \A k \in Jobs : InReady(k) => InReady(k)'
    BY <2>4, LPushType
  <2>6. m.pc = "rem"
    BY <1>1 DEF ReclaimerStates
  <2> HIDE DEF m
  <2> QED BY <1>2, <2>1, <2>2, <2>3, <2>5, <2>6, ReclaimerStep
<1>10. CASE ReclaimRem(s)
  <2> DEFINE m == [reclaimer[s] EXCEPT !.pc = "next", !.job = NoJob, !.rec = NoData]
             j == reclaimer[s].job
             v == reclaimer[s].key
  <2>1. /\ reclaimer' = [reclaimer EXCEPT ![s] = m] /\ UNCHANGED <<ready, data>>
        /\ inflight' = [inflight EXCEPT ![v][j] = Absent]
    BY <1>10 DEF ReclaimRem, Continue, ZRemInflight
  <2>2. m.pc = "next"
    BY <1>1 DEF ReclaimerStates
  <2>3. BeingRemoved(v, j) /\ v \in Workers /\ j \in Jobs
    BY <1>1, <1>10 DEF ReclaimRem, BeingRemoved
  <2> HIDE DEF m, j, v
  <2>4. \A k \in Jobs, w \in Workers : ~(k = j /\ w = v) => inflight'[w][k] = inflight[w][k]
    BY <1>1, <2>1, <2>3
  <2> QED BY <1>2, <1>3, <1>4, <2>1, <2>2, <2>3, <2>4, ReclaimerStep
<1>11. CASE ReclaimCard(s)
  <2> DEFINE v == reclaimer[s].key
             m == IF InFlight(v) = {} THEN [reclaimer[s] EXCEPT !.pc = "del"]
                                      ELSE Finish(reclaimer[s])
  <2>1. reclaimer' = [reclaimer EXCEPT ![s] = m] /\ UNCHANGED queueVars
    BY <1>11 DEF ReclaimCard
  <2>2. Finish(reclaimer[s]).pc \in {"idle", "scan"}
    BY <1>1, FinishType
  <2>3. /\ InFlight(v) = {} => m.key = v /\ m.pc = "del"
        /\ InFlight(v) # {} => m.pc \in {"idle", "scan"}
    BY <1>1, <2>2 DEF ReclaimerStates
  <2>4. InFlight(v) = {} => \A k \in Jobs : inflight[v][k] = Absent
    BY DEF InFlight
  <2> HIDE DEF m, v
  <2> QED BY <1>2, <1>3, <1>4, <2>1, <2>3, <2>4, ReclaimerStep DEF queueVars
<1>12. CASE ReclaimDel(s)
  <2> DEFINE v == reclaimer[s].key
  <2>1. /\ reclaimer' = [reclaimer EXCEPT ![s] = Finish(reclaimer[s])]
        /\ inflight' = [inflight EXCEPT ![v] = [j \in Jobs |-> Absent]]
        /\ UNCHANGED <<ready, data>>
    BY <1>12 DEF ReclaimDel, DelInflight
  <2>2. Finish(reclaimer[s]).pc \in {"idle", "scan"}
    BY <1>1, FinishType
  <2>3. \A k \in Jobs : BeingRemoved(v, k)
    BY <1>12 DEF ReclaimDel, BeingRemoved
  <2> HIDE DEF v
  <2>4. \A w \in Workers : w # v => inflight'[w] = inflight[w]
    BY <1>1, <2>1
  <2> QED BY <1>2, <1>3, <1>4, <2>1, <2>2, <2>3, <2>4, ReclaimerStep
<1> QED
  BY <1>5, <1>6, <1>7, <1>8, <1>9, <1>10, <1>11, <1>12 DEF LReclaim

-----------------------------------------------------------------------------
(* At-least-once: failing calls of the loops, crashes, the clock *)

\* A failing call of a background loop keeps DeliveryInv: a failed read makes the
\* job count as lost, any other failure leaves the entry where it is.
LEMMA LoopFaultDelivery ==
  ASSUME TypeInv, DeliveryInv, NEW s \in Schedulers,
         (\E j \in Jobs : LGetFails(s, j)) \/ LCardFails(s) \/ LFault(s)
  PROVE  DeliveryInv'
<1>1. /\ mover[s] \in MoverStates /\ reclaimer[s] \in ReclaimerStates
      /\ mover[s].todo \cup mover[s].moves \cup mover[s].drops \subseteq enqueued
  BY DEF TypeInv, TypeOK, CoreTypeOK, MoverStates, ReclaimerStates, DeliveryInv, DelayedEnqueued
<1>2. /\ UNCHANGED <<queueVars, gor, api, enqueued, settled, raced>> /\ lost \subseteq lost'
  BY DEF LGetFails, MoverGet, ReclaimGet, LCardFails, ReclaimCardFails, LFault, MoverAborts,
         MoverAcquireLost, ReclaimAborts, moverFrame, reclaimFrame
<1>3. \A k \in Jobs : InReady(k) => InReady(k)'
  BY <1>2, ReadyFrame DEF queueVars
<1>4. UNCHANGED <<data, ready, delayed, inflight>>
  BY <1>2 DEF queueVars
<1>5. Unsettled' \subseteq Unsettled /\ Unsettled \subseteq Jobs
  BY <1>2, JobsUnsettled DEF Unsettled
<1>6. ASSUME NEW j \in Jobs, LGetFails(s, j) PROVE DeliveryInv'
  <2>1. j \notin Unsettled'
    BY <1>6 DEF LGetFails, Unsettled
  <2>2. CASE MoverGet(s, j, FALSE)
    <3> DEFINE m == [mover[s] EXCEPT !.pc = IF mover[s].todo = {j} THEN "exec" ELSE "get",
                                     !.todo = mover[s].todo \ {j},
                                     !.moves = mover[s].moves \cup (IF FALSE THEN {j} ELSE {}),
                                     !.drops = mover[s].drops \cup (IF FALSE THEN {} ELSE {j})]
    <3>1. mover' = [mover EXCEPT ![s] = m] /\ UNCHANGED reclaimer
      BY <2>2 DEF MoverGet, moverFrame
    <3>2. m.pc # "rem" /\ m.todo \cup m.moves \cup m.drops \subseteq enqueued
      BY <1>1, <2>2 DEF MoverStates, MoverGet
    <3>3. m.drops = mover[s].drops \cup {j}
      BY <1>1 DEF MoverStates
    <3>4. \A k \in mover[s].drops : BeingUndelayed(k)
      BY DEF BeingUndelayed
    <3> HIDE DEF m
    <3> QED BY <1>2, <1>3, <1>4, <2>1, <3>1, <3>2, <3>3, <3>4, MoverStep
  <2>3. CASE ReclaimGet(s, j, FALSE)
    <3> DEFINE m == [reclaimer[s] EXCEPT !.pc = IF FALSE THEN "set" ELSE "drop",
                                         !.todo = reclaimer[s].todo \ {j}, !.job = j,
                                         !.rec = IF FALSE THEN Retried(data[j]) ELSE NoData]
    <3>1. reclaimer' = [reclaimer EXCEPT ![s] = m] /\ UNCHANGED mover
      BY <2>3 DEF ReclaimGet, reclaimFrame
    <3>2. m.pc = "drop" /\ m.job = j
      BY <1>1 DEF ReclaimerStates
    <3> HIDE DEF m
    <3> QED BY <1>2, <1>3, <1>4, <2>1, <3>1, <3>2, ReclaimerStep
  <2> QED BY <1>6, <2>2, <2>3 DEF LGetFails
<1>7. CASE LCardFails(s)
  <2> DEFINE m == [reclaimer[s] EXCEPT !.pc = "del"]
             v == reclaimer[s].key
  <2>1. /\ reclaimer' = [reclaimer EXCEPT ![s] = m] /\ UNCHANGED mover
        /\ lost' = lost \cup InFlight(v)
    BY <1>7 DEF LCardFails, ReclaimCardFails, reclaimFrame
  <2>2. m.pc = "del" /\ m.key = v
    BY <1>1 DEF ReclaimerStates
  <2>3. \A k \in Unsettled' : inflight[v][k] = Absent
    BY <1>5, <2>1 DEF Unsettled, InFlight
  <2> HIDE DEF m, v
  <2> QED BY <1>2, <1>3, <1>4, <2>1, <2>2, <2>3, ReclaimerStep
<1>8. CASE LFault(s) /\ MoverAborts(s)
  <2> DEFINE m == [IdleMover EXCEPT
                     !.pc = IF mover[s].pc = "release" THEN "idle" ELSE "release"]
  <2>1. mover' = [mover EXCEPT ![s] = m] /\ UNCHANGED reclaimer
    BY <1>8 DEF MoverAborts, moverFrame
  <2>2. m.pc # "rem" /\ m.todo \cup m.moves \cup m.drops \subseteq enqueued /\ m.drops = {}
    BY DEF IdleMover
  <2> HIDE DEF m
  <2> QED BY <1>2, <1>3, <1>4, <2>1, <2>2, MoverStep
<1>9. CASE LFault(s) /\ MoverAcquireLost(s)
  <2>1. UNCHANGED <<mover, reclaimer>>
    BY <1>9 DEF MoverAcquireLost, moverFrame
  <2>2. Tracked'
    BY <1>2, <1>5, <2>1, IdleDelivery
  <2>3. FinishedSettled' /\ DelayedEnqueued' /\ RetryIsReady'
    BY <1>2, <1>4, <2>1 DEF DeliveryInv, FinishedSettled, DelayedEnqueued, RetryIsReady
  <2> QED BY <2>2, <2>3 DEF DeliveryInv
<1>10. CASE LFault(s) /\ ReclaimAborts(s)
  <2>1. UNCHANGED mover
    BY <1>10 DEF ReclaimAborts, reclaimFrame
  <2>2. PICK m : reclaimer' = [reclaimer EXCEPT ![s] = m] /\ m.pc \in {"idle", "scan", "next"}
    <3>1. CASE Continue(s)
      <4>1. [reclaimer[s] EXCEPT !.pc = "next", !.job = NoJob, !.rec = NoData].pc = "next"
        BY <1>1 DEF ReclaimerStates
      <4> QED BY <3>1, <4>1 DEF Continue
    <3>2. CASE reclaimer' = [reclaimer EXCEPT ![s] = Finish(@)]
      BY <1>1, <3>2, FinishType
    <3>3. ASSUME NEW w \in reclaimer[s].keys,
                 reclaimer' = [reclaimer EXCEPT ![s] =
                                 Finish([@ EXCEPT !.keys = reclaimer[s].keys \ {w}])]
          PROVE  \E m : /\ reclaimer' = [reclaimer EXCEPT ![s] = m]
                        /\ m.pc \in {"idle", "scan", "next"}
      <4> DEFINE k == [reclaimer[s] EXCEPT !.keys = reclaimer[s].keys \ {w}]
      <4>1. k \in ReclaimerStates
        BY <1>1 DEF ReclaimerStates
      <4>2. reclaimer' = [reclaimer EXCEPT ![s] = Finish(k)]
        BY <3>3
      <4> HIDE DEF k
      <4> QED BY <4>1, <4>2, FinishType
    <3> QED BY <1>10, <3>1, <3>2, <3>3 DEF ReclaimAborts
  <2> QED BY <1>2, <1>3, <1>4, <2>1, <2>2, ReclaimerStep
<1> QED
  BY <1>6, <1>7, <1>8, <1>9, <1>10 DEF LFault

\* A crash forgets what threads were about to do; Redis keeps the job.
LEMMA CrashDelivery ==
  ASSUME TypeInv, DeliveryInv, (\E w \in Workers : WCrash(w)) \/ (\E s \in Schedulers : LCrash(s))
  PROVE  DeliveryInv'
<1>1. ASSUME NEW w \in Workers, WCrash(w) PROVE DeliveryInv'
  <2>1. UNCHANGED <<queueVars, coreVars, enqueued, settled, raced, lost>>
    BY <1>1 DEF WCrash, CrashPool
  <2>2. Tracked'
    BY <2>1, IdleDelivery DEF Unsettled, coreVars
  <2>3. DelayedEnqueued' /\ RetryIsReady'
    BY <2>1, WorkerFrame DEF queueVars
  <2>4. FinishedSettled'
    BY <1>1 DEF WCrash, CrashPool, Idle, DeliveryInv, FinishedSettled
  <2> QED BY <2>2, <2>3, <2>4 DEF DeliveryInv
<1>2. ASSUME NEW s \in Schedulers, LCrash(s) PROVE DeliveryInv'
  <2>1. /\ UNCHANGED <<data, ready, delayed, inflight, gor, enqueued, settled, raced, lost>>
        /\ mover' = [mover EXCEPT ![s] = IdleMover]
        /\ reclaimer' = [reclaimer EXCEPT ![s] = IdleReclaimer]
        /\ api' = [r \in Requests |-> IF HostOf[r] = s THEN IdleApi ELSE api[r]]
    BY <1>2 DEF LCrash, CrashScheduler, queueVars
  <2>2. /\ mover \in [Schedulers -> MoverStates] /\ reclaimer \in [Schedulers -> ReclaimerStates]
    BY DEF TypeInv, TypeOK, CoreTypeOK, MoverStates, ReclaimerStates
  <2>3. /\ mover'[s] = IdleMover /\ reclaimer'[s] = IdleReclaimer
        /\ \A t \in Schedulers : t # s => mover'[t] = mover[t] /\ reclaimer'[t] = reclaimer[t]
    BY <2>1, <2>2
  <2>4. \A k \in Jobs : BeingUndelayed(k)' => BeingUndelayed(k)
    BY <2>3 DEF BeingUndelayed, IdleMover
  <2>5. \A k \in Jobs, w \in Workers : BeingRemoved(w, k)' => BeingRemoved(w, k)
    BY <2>3 DEF BeingRemoved, IdleReclaimer
  <2>6. Tracked'
    <3> SUFFICES ASSUME NEW k \in Unsettled PROVE data'[k] # NoData /\ Safe(k)'
      BY <2>1 DEF Tracked, Unsettled
    <3>1. k \in Jobs /\ data[k] # NoData /\ Safe(k)
      BY JobsUnsettled DEF DeliveryInv, Tracked
    <3> QED BY <2>1, <2>4, <2>5, <3>1, ReadyFrame, SafeKept
  <2>7. FinishedSettled'
    BY <2>1 DEF DeliveryInv, FinishedSettled
  <2>8. DelayedEnqueued'
    BY <2>1, <2>3 DEF DeliveryInv, DelayedEnqueued, IdleMover
  <2>9. RetryIsReady'
    BY <2>1 DEF DeliveryInv, RetryIsReady, IdleApi
  <2> QED BY <2>6, <2>7, <2>8, <2>9 DEF DeliveryInv
<1> QED
  BY <1>1, <1>2

\* The clock keeps DeliveryInv: a record that expires makes its job count as lost.
LEMMA TickDelivery ==
  ASSUME TypeInv, DeliveryInv, Tick
  PROVE  DeliveryInv'
<1>1. /\ UNCHANGED <<ready, mover, reclaimer, enqueued, settled, raced>>
      /\ lost' = lost \cup Expired
  BY DEF Tick, QueueTick, CoreTick
<1>2. /\ \A k \in Jobs : delayed'[k] # Absent <=> delayed[k] # Absent
      /\ \A k \in Jobs, w \in Workers : inflight'[w][k] # Absent <=> inflight[w][k] # Absent
  BY EarlierType DEF Tick, QueueTick, TypeInv, TypeOK, QueueTypeOK
<1>3. Tracked'
  <2> SUFFICES ASSUME NEW k \in Unsettled' PROVE data'[k] # NoData /\ Safe(k)'
    BY DEF Tracked
  <2>1. k \in Unsettled /\ k \in Jobs /\ k \notin Expired
    BY <1>1, JobsUnsettled DEF Unsettled
  <2>2. data[k] # NoData /\ Safe(k)
    BY <2>1 DEF DeliveryInv, Tracked
  <2>3. data'[k] = data[k]
    BY <2>1 DEF Tick, QueueTick
  <2> QED BY <1>1, <1>2, <2>1, <2>2, <2>3, ReadyFrame, LoopFrame, SafeKept
<1>4. FinishedSettled'
  BY <1>1 DEF Tick, PoolTick, TypeInv, TypeOK, PoolTypeOK, DeliveryInv, FinishedSettled
<1>5. DelayedEnqueued'
  BY <1>1, <1>2 DEF DeliveryInv, DelayedEnqueued
<1>6. RetryIsReady'
  <2>1. ASSUME NEW r \in Requests
        PROVE  /\ api'[r].pc = api[r].pc /\ api'[r].op = api[r].op
               /\ api'[r].wait = Earlier(api[r].wait)
    <3>1. api[r] \in [pc : ApiPcs, op : {"none", "submit", "retry", "delete"},
                      job : Jobs \cup {NoJob}, wait : Nat]
      BY DEF TypeInv, TypeOK, CoreTypeOK
    <3>2. api'[r] = [api[r] EXCEPT !.wait = Earlier(api[r].wait)]
      BY DEF Tick, CoreTick
    <3> QED BY <3>1, <3>2
  <2>2. Earlier(0) = 0
    BY DEF Earlier
  <2> QED BY <2>1, <2>2 DEF DeliveryInv, RetryIsReady
<1> QED
  BY <1>3, <1>4, <1>5, <1>6 DEF DeliveryInv

\* Nothing is enqueued yet: the initial state satisfies the delivery invariant.
LEMMA InitDelivery == Init => DeliveryInv
<1> SUFFICES ASSUME Init PROVE DeliveryInv
  OBVIOUS
<1>1. Tracked
  BY DEF Init, Tracked, Unsettled
<1>2. FinishedSettled
  BY DEF Init, PoolInit, FinishedSettled, Idle
<1>3. DelayedEnqueued /\ RetryIsReady
  BY DEF Init, QueueInit, CoreInit, DelayedEnqueued, RetryIsReady, IdleMover, IdleApi
<1> QED
  BY <1>1, <1>2, <1>3 DEF DeliveryInv

\* Every step of the system preserves the delivery invariant.
LEMMA NextDelivery == TypeInv /\ DeliveryInv /\ [Next]_vars => DeliveryInv'
<1> SUFFICES ASSUME TypeInv, DeliveryInv, [Next]_vars PROVE DeliveryInv'
  OBVIOUS
<1>1. CASE UNCHANGED vars
  <2>1. Tracked'
    BY <1>1, IdleDelivery DEF vars, coreVars, history, Unsettled
  <2>2. FinishedSettled' /\ DelayedEnqueued' /\ RetryIsReady'
    BY <1>1 DEF vars, queueVars, coreVars, history, DeliveryInv, FinishedSettled,
                DelayedEnqueued, RetryIsReady
  <2> QED BY <2>1, <2>2 DEF DeliveryInv
<1>2. ASSUME NEW s \in Schedulers, LoopNext(s) PROVE DeliveryInv'
  BY <1>2, MoverDelivery, ReclaimerDelivery, LoopFaultDelivery, CrashDelivery DEF LoopNext
<1> QED
  BY <1>1, <1>2, WorkerDelivery, RequestDelivery, CrashDelivery, TickDelivery DEF Next

\* At-least-once delivery, for any number of jobs, worker pools, schedulers and
\* clients, any faults and any number of crashes: from its Enqueue until it is
\* settled a job is in Redis with its record, unless it met the race of
\* ReclaimOrphaned with Dequeue or of RetryJob with a late Acknowledge or Nack, or
\* its record expired or could not be read.
THEOREM AtLeastOnceHolds == Spec => []AtLeastOnce
<1>1. Spec => [](TypeInv /\ DeliveryInv)
  BY InitType, NextType, InitDelivery, NextDelivery, PTL DEF Spec
<1>2. DeliveryInv => AtLeastOnce
  BY DEF DeliveryInv, Tracked, Safe, AtLeastOnce
<1> QED
  BY <1>1, <1>2, PTL

-----------------------------------------------------------------------------
(* A row says completed only after a success.  The invariant also covers   *)
(* the goroutines on their way to write it.                                *)

Acknowledging ==
    \A g \in Goroutines :
        gor[g].pc \in {"ackDel", "ackRem", "dbDone"} => gor[g].job \in succeeded

CompletedInv == Acknowledging /\ CompletedOnlyIfSucceeded

\* An UPDATE to another status completes no job.
LEMMA UpdateKeeps ==
  ASSUME StoreTypeOK, CompletedOnlyIfSucceeded, NEW j \in Jobs, NEW status, NEW b,
         UpdateJobStatus(j, status, b), succeeded \subseteq succeeded',
         status = "completed" => j \in succeeded
  PROVE  CompletedOnlyIfSucceeded'
<1> SUFFICES ASSUME NEW k \in Jobs, db'[k].status = "completed" PROVE k \in succeeded
  BY DEF CompletedOnlyIfSucceeded
<1>1. CASE k = j /\ Exists(j)
  <2>1. db'[k] = [status |-> status, hasWorker |-> db[j].hasWorker \/ b]
    BY <1>1 DEF UpdateJobStatus, StoreTypeOK
  <2>2. db'[k].status = status
    BY <2>1
  <2> QED BY <1>1, <2>2
<1>2. CASE ~(k = j /\ Exists(j))
  <2>1. db'[k] = db[k]
    BY <1>2 DEF UpdateJobStatus, StoreTypeOK
  <2> QED BY <2>1 DEF CompletedOnlyIfSucceeded
<1> QED
  BY <1>1, <1>2

\* A step that changes neither goroutines nor rows preserves CompletedInv.
LEMMA CompletedFrame ==
  ASSUME CompletedInv, UNCHANGED <<gor, db, succeeded>>
  PROVE  CompletedInv'
  BY DEF CompletedInv, Acknowledging, CompletedOnlyIfSucceeded

\* A worker writes completed only after HandlerSucceeds: its steps preserve CompletedInv.
LEMMA WorkerCompleted ==
  ASSUME TypeInv, CompletedInv, NEW g \in Goroutines, WorkerNext(g)
  PROVE  CompletedInv'
<1> DEFINE Acks == {"ackDel", "ackRem", "dbDone"}
<1>0. /\ gor \in [Goroutines -> [pc : GorPcs, job : Jobs \cup {NoJob},
                                 rec : Records \cup {NoData}, due : Nat, left : Nat]]
      /\ gor[g].pc # "idle" => gor[g].job \in Jobs
      /\ StoreTypeOK /\ CompletedOnlyIfSucceeded
      /\ \A h \in Goroutines : gor[h].pc \in Acks => gor[h].job \in succeeded
  BY DEF TypeInv, TypeOK, PoolTypeOK, BusyPool, CompletedInv, Acknowledging
<1>1. UNCHANGED db => CompletedOnlyIfSucceeded' \/ ~(succeeded \subseteq succeeded')
  BY DEF CompletedInv, CompletedOnlyIfSucceeded
<1>2. ASSUME UNCHANGED succeeded,
             gor'[g].pc \in Acks => gor[g].pc \in Acks /\ gor'[g].job = gor[g].job,
             \A h \in Goroutines : h # g => gor'[h] = gor[h]
      PROVE  Acknowledging'
  BY <1>0, <1>2 DEF Acknowledging
<1>3. ASSUME NEW j \in Jobs, WDequeue(g, j) \/ WDequeueLost(g, j) PROVE CompletedInv'
  <2>1. UNCHANGED <<db, succeeded>>
    BY <1>3 DEF WDequeue, Dequeue, WDequeueLost, DequeueLost
  <2>2. Acknowledging'
    BY <1>0, <1>2, <1>3 DEF WDequeue, Dequeue, WDequeueLost, DequeueLost
  <2> QED BY <1>1, <2>1, <2>2 DEF CompletedInv
<1>4. CASE WSucceed(g)
  <2>1. UNCHANGED db /\ succeeded' = succeeded \cup {gor[g].job}
    BY <1>4 DEF WSucceed, HandlerSucceeds
  <2>2. Acknowledging'
    BY <1>0, <1>4, <2>1 DEF WSucceed, HandlerSucceeds, Idle, Acknowledging
  <2> QED BY <1>1, <2>1, <2>2 DEF CompletedInv
<1>5. ASSUME gor' = [gor EXCEPT ![g] = Nacked(@)], UNCHANGED <<db, succeeded>>
      PROVE  CompletedInv'
  <2>1. gor'[g].pc = "nackSet" /\ \A h \in Goroutines : h # g => gor'[h] = gor[h]
    BY <1>0, <1>5 DEF Nacked
  <2> QED BY <1>1, <1>2, <1>5, <2>1 DEF CompletedInv
<1>6. ASSUME gor' = [gor EXCEPT ![g] = Idle], UNCHANGED succeeded
      PROVE  Acknowledging'
  BY <1>0, <1>2, <1>6 DEF Idle
<1>7. ASSUME NEW pc, Goto(g, pc), pc \in Acks => gor[g].pc \in Acks, UNCHANGED succeeded
      PROVE  Acknowledging'
  BY <1>0, <1>2, <1>7 DEF Goto
<1>8. CASE WFail(g)
  BY <1>5, <1>8 DEF WFail, HandlerFails, history
<1>9. CASE WNackPush(g)
  BY <1>1, <1>7, <1>9 DEF WNackPush, NackPush, CompletedInv
<1>10. CASE WStep(g)
  <2>1. UNCHANGED succeeded
    BY <1>10 DEF WStep, history
  <2>2. CASE BeginExecution(g)
    BY <1>0, <1>7, <2>1, <2>2, UpdateKeeps DEF BeginExecution, CompletedInv
  <2>3. CASE TimesOut(g)
    BY <1>5, <2>1, <2>3 DEF TimesOut
  <2>4. CASE AckDel(g) \/ AckRem(g) \/ NackSet(g) \/ NackRem(g)
    BY <1>1, <1>7, <2>1, <2>4 DEF AckDel, AckRem, NackSet, NackRem, CompletedInv
  <2>5. CASE MarkCompleted(g)
    BY <1>0, <1>6, <2>1, <2>5, UpdateKeeps DEF MarkCompleted, CompletedInv
  <2>6. CASE MarkFailed(g)
    <3>1. (IF IsRetryable(gor[g].rec) THEN "failed" ELSE "dead_letter") # "completed"
      OBVIOUS
    <3> QED BY <1>0, <1>6, <2>1, <2>6, <3>1, UpdateKeeps DEF MarkFailed, CompletedInv
  <2> QED BY <1>10, <2>2, <2>3, <2>4, <2>5, <2>6 DEF WStep
<1>11. CASE WFault(g)
  <2>1. UNCHANGED <<db, succeeded>>
    BY <1>11 DEF WFault, PipelineAborts, UpdateFails
  <2>2. CASE PipelineAborts(g)
    BY <1>1, <1>7, <2>1, <2>2 DEF PipelineAborts, AckPcs, NackPcs, CompletedInv
  <2>3. CASE UpdateFails(g)
    <3>1. Acknowledging'
      BY <1>0, <1>2, <2>1, <2>3 DEF UpdateFails, Idle
    <3> QED BY <1>1, <2>1, <3>1 DEF CompletedInv
  <2> QED BY <1>11, <2>2, <2>3 DEF WFault
<1> QED
  BY <1>3, <1>4, <1>8, <1>9, <1>10, <1>11 DEF WorkerNext

\* No request writes completed: submit, retry and delete preserve CompletedInv.
LEMMA RequestCompleted ==
  ASSUME TypeInv, CompletedInv, NEW r \in Requests, RequestNext(r)
  PROVE  CompletedInv'
<1>0. /\ api[r].pc # "idle" => api[r].job \in Jobs
      /\ StoreTypeOK /\ CompletedOnlyIfSucceeded /\ Acknowledging
  BY DEF TypeInv, TypeOK, BusyCore, CompletedInv
<1>1. UNCHANGED <<gor, succeeded>>
  BY DEF RequestNext, ARetry, ASubmit, AEnqueue, AEnqueueReplyLost, Entered, AStep, AFault,
         history
<1>2. Acknowledging'
  BY <1>0, <1>1 DEF Acknowledging
<1>3. ASSUME NEW j \in Jobs, NEW wait \in Delays, ASubmit(r, j, wait)
      PROVE  CompletedOnlyIfSucceeded'
  BY <1>0, <1>1, <1>3
     DEF ASubmit, Submit, CreateJob, NewJob, StoreTypeOK, CompletedOnlyIfSucceeded
<1>4. ASSUME RetryUpdate(r) PROVE CompletedOnlyIfSucceeded'
  BY <1>0, <1>1, <1>4, UpdateKeeps DEF RetryUpdate
<1>5. ASSUME DeleteJob(r) PROVE CompletedOnlyIfSucceeded'
  BY <1>0, <1>1, <1>5
     DEF DeleteJob, DeleteRow, NoRow, StoreTypeOK, CompletedOnlyIfSucceeded
<1>6. ASSUME UNCHANGED db PROVE CompletedOnlyIfSucceeded'
  BY <1>0, <1>1, <1>6 DEF CompletedOnlyIfSucceeded
<1>7. \/ \E j \in Jobs : \E wait \in Delays : ASubmit(r, j, wait)
      \/ RetryUpdate(r) \/ DeleteJob(r) \/ UNCHANGED db
  BY DEF RequestNext, ARetry, Retry, AEnqueue, Enqueue, AEnqueueReplyLost, EnqueueReplyLost,
         AStep, Delete, AFault, EnqueueFails, StatementFails
<1> QED
  BY <1>2, <1>3, <1>4, <1>5, <1>6, <1>7 DEF CompletedInv

\* A row says completed only if an execution of the job succeeded, whatever
\* duplicates, crashes, failing calls and client retries come in between.
THEOREM CompletedHolds == Spec => []CompletedOnlyIfSucceeded
<1>1. Init => CompletedInv
  BY DEF Init, PoolInit, StoreInit, Idle, NoRow, CompletedInv, Acknowledging,
         CompletedOnlyIfSucceeded
<1>2. TypeInv /\ CompletedInv /\ [Next]_vars => CompletedInv'
  <2> SUFFICES ASSUME TypeInv, CompletedInv, [Next]_vars PROVE CompletedInv'
    OBVIOUS
  <2>1. CASE UNCHANGED vars
    BY <2>1, CompletedFrame DEF vars, history
  <2>2. ASSUME NEW w \in Workers, WCrash(w) PROVE CompletedInv'
    BY <2>2 DEF WCrash, CrashPool, Idle, CompletedInv, Acknowledging, CompletedOnlyIfSucceeded
  <2>3. ASSUME NEW s \in Schedulers, LoopNext(s) PROVE CompletedInv'
    <3>1. UNCHANGED <<gor, db, succeeded>>
      BY <2>3
         DEF LoopNext, LMove, LReclaim, LReclaimPush, LGetFails, LCardFails, LFault, LCrash,
             MoverAcquire, MoverScan, MoverGet, MoverPush, MoverDrop, MoverRem, MoverRelease,
             MoverAborts, MoverAcquireLost, ReclaimStart, ReclaimKey, ReclaimGet, ReclaimSet,
             ReclaimPush, ReclaimRem, ReclaimCard, ReclaimCardFails, ReclaimDel, ReclaimAborts,
             CrashScheduler, moverFrame, reclaimFrame, history
    <3> QED BY <3>1, CompletedFrame
  <2>4. CASE Tick
    <3>1. UNCHANGED <<db, succeeded>>
      BY <2>4 DEF Tick
    <3>2. Acknowledging'
      BY <2>4, <3>1 DEF Tick, PoolTick, TypeInv, TypeOK, PoolTypeOK, CompletedInv, Acknowledging
    <3> QED BY <3>1, <3>2 DEF CompletedInv, CompletedOnlyIfSucceeded
  <2> QED
    BY <2>1, <2>2, <2>3, <2>4, WorkerCompleted, RequestCompleted DEF Next
<1>3. CompletedInv => CompletedOnlyIfSucceeded
  BY DEF CompletedInv
<1> QED
  BY <1>1, <1>2, <1>3, InitType, NextType, PTL DEF Spec

-----------------------------------------------------------------------------
(* The lock *)

\* A live lock leaves its holder only when the holder's pass is over: no late
\* Release of another scheduler, no Acquire and no crash elsewhere takes it away.
THEOREM LockKeptHolds == Spec => LockKeptForItsHolder
<1> DEFINE Kept == \A s \in Schedulers :
                     lock.holder = s /\ lock.ttl > 1 /\ mover[s].pc # "idle" /\ lock'.holder # s
                       => mover'[s].pc = "idle"
<1>1. TypeInv /\ [Next]_vars => Kept
  <2> SUFFICES ASSUME TypeInv, [Next]_vars, NEW s \in Schedulers,
                      lock.holder = s, lock.ttl > 1, lock'.holder # s
               PROVE  mover'[s].pc = "idle"
    OBVIOUS
  <2>1. lock \in [holder : Schedulers \cup {Nobody}, ttl : Nat]
    BY DEF TypeInv, TypeOK, LockTypeOK
  <2>2. lock # Unlocked /\ lock' # lock
    BY <2>1 DEF Unlocked
  <2>3. ~Tick
    BY <2>1 DEF Tick, LockTick
  <2>4. PICK t \in Schedulers : LoopNext(t)
    <3>1. ~\E g \in Goroutines : WorkerNext(g)
      BY <2>2 DEF WorkerNext, WDequeue, WDequeueLost, WSucceed, WFail, WNackPush, WStep, WFault
    <3>2. ~\E w \in Workers : WCrash(w)
      BY <2>2 DEF WCrash
    <3>3. ~\E r \in Requests : RequestNext(r)
      BY <2>2 DEF RequestNext, ARetry, Retry, ASubmit, Submit, AEnqueue, Enqueue,
                  AEnqueueReplyLost, EnqueueReplyLost, AStep, RetryUpdate, DeleteJob, Delete,
                  AFault, EnqueueFails, StatementFails
    <3> QED BY <2>2, <2>3, <3>1, <3>2, <3>3 DEF Next, vars
  <2>5. MoverRelease(t)
    BY <2>2, <2>4
       DEF LoopNext, LMove, LReclaim, LReclaimPush, LGetFails, LCardFails, LFault, LCrash,
           MoverAcquire, Acquire, MoverScan, MoverGet, MoverPush, MoverDrop, MoverRem,
           MoverAborts, MoverAcquireLost, ReclaimStart, ReclaimKey, ReclaimGet, ReclaimSet,
           ReclaimPush, ReclaimRem, ReclaimCard, ReclaimCardFails, ReclaimDel, ReclaimAborts,
           CrashScheduler, moverFrame, reclaimFrame
  <2>6. t = s
    BY <2>2, <2>5 DEF MoverRelease, Release
  <2> QED
    BY <2>5, <2>6 DEF MoverRelease, IdleMover, TypeInv, TypeOK, CoreTypeOK
<1>2. Spec => []TypeInv
  BY InitType, NextType, PTL DEF Spec
<1>3. TypeInv /\ [Next]_vars => [Kept]_vars
  BY <1>1
<1> HIDE DEF Kept
<1>4. Spec => [][Kept]_vars
  BY <1>2, <1>3, PTL DEF Spec
<1> QED
  BY <1>4 DEF LockKeptForItsHolder, Kept
=============================================================================
