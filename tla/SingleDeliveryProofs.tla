------------------------ MODULE SingleDeliveryProofs ------------------------
(***************************************************************************)
(* More proofs about TaskScheduler: a row that says dead_letter is backed  *)
(* by the DLQ, no job starts before its ScheduledAt, and a job is          *)
(* delivered once at a time unless there is a reason.  For every value of  *)
(* the constants, as in TaskSchedulerProofs.                               *)
(***************************************************************************)
EXTENDS TaskSchedulerProofs, FiniteSetTheorems

-----------------------------------------------------------------------------
(* What a step of each kind of thread can change *)

GorStates == [pc : GorPcs, job : Jobs \cup {NoJob}, rec : Records \cup {NoData},
              due : Nat, left : Nat]
ApiStates == [pc : ApiPcs, op : {"none", "submit", "retry", "delete"},
              job : Jobs \cup {NoJob}, wait : Nat]

\* The types of the four families of actors, taken out of TypeInv.
LEMMA StateTypes ==
  ASSUME TypeInv
  PROVE  /\ gor \in [Goroutines -> GorStates]
         /\ api \in [Requests -> ApiStates]
         /\ mover \in [Schedulers -> MoverStates]
         /\ reclaimer \in [Schedulers -> ReclaimerStates]
BY DEF TypeInv, TypeOK, PoolTypeOK, CoreTypeOK, GorStates, ApiStates, MoverStates, ReclaimerStates

\* A record that Nack or ReclaimOrphaned sends back is pending and counts a retry.
LEMMA RetriedCounts ==
  ASSUME NEW rec \in Records
  PROVE  Retried(rec).status = "pending" /\ Retried(rec).retryCount > 0
BY RetryAssumption DEF Records, Retried, Increment

\* A background loop leaves goroutines, requests, rows and the DLQ alone; a crash
\* of its scheduler ends requests.
LEMMA LoopLeaves ==
  ASSUME NEW s \in Schedulers, LoopNext(s)
  PROVE  /\ UNCHANGED <<gor, db, dlq, born, brokenOff>>
         /\ UNCHANGED api \/ CrashScheduler(s)
BY DEF LoopNext, LMove, LReclaim, LReclaimPush, LGetFails, LCardFails, LFault, LCrash,
       MoverAcquire, MoverScan, MoverGet, MoverPush, MoverDrop, MoverRem, MoverRelease,
       MoverAborts, MoverAcquireLost, ReclaimStart, ReclaimKey, ReclaimGet, ReclaimSet,
       ReclaimPush, ReclaimRem, ReclaimCard, ReclaimCardFails, ReclaimDel, ReclaimAborts,
       CrashScheduler, moverFrame, reclaimFrame, history, queueVars, Push, Store, ZRemDelayed,
       ZRemInflight, DelInflight

\* The only record a background loop writes is the one of Requeue.
LEMMA LoopData ==
  ASSUME NEW s \in Schedulers, LoopNext(s)
  PROVE  UNCHANGED <<data, due>> \/ ReclaimSet(s)
BY DEF LoopNext, LMove, LReclaim, LReclaimPush, LGetFails, LCardFails, LFault, LCrash,
       MoverAcquire, MoverScan, MoverGet, MoverPush, MoverDrop, MoverRem, MoverRelease,
       MoverAborts, MoverAcquireLost, ReclaimStart, ReclaimKey, ReclaimGet,
       ReclaimPush, ReclaimRem, ReclaimCard, ReclaimCardFails, ReclaimDel, ReclaimAborts,
       CrashScheduler, queueVars, Push, ZRemDelayed, ZRemInflight, DelInflight

\* Jobs in some in-flight set.
Somewhere == {j \in Jobs : \E w \in Workers : inflight[w][j] # Absent}

\* What a reclaimer reads: stale entries, and records that are there.
ReclaimerMoves(s, m) ==
    /\ reclaimer' = [reclaimer EXCEPT ![s] = m]
    /\ m.todo \subseteq reclaimer[s].todo \cup Somewhere
    /\ m.job \in reclaimer[s].todo \cup {reclaimer[s].job, NoJob}
    /\ m.rec \in {reclaimer[s].rec, NoData} \cup {Retried(data[j]) : j \in {k \in Jobs : data[k] # NoData}}
    /\ m.pc = "set" => \E j \in Jobs : data[j] # NoData /\ m.rec = Retried(data[j])

\* Going idle is a move of the reclaimer.
LEMMA IdleReclaimerMoves ==
  ASSUME NEW s \in Schedulers, reclaimer' = [reclaimer EXCEPT ![s] = IdleReclaimer]
  PROVE  ReclaimerMoves(s, IdleReclaimer)
BY DEF ReclaimerMoves, IdleReclaimer

\* Finishing a job, or the pass with it, is a move of the reclaimer.
LEMMA FinishMoves ==
  ASSUME NEW s \in Schedulers, NEW m \in ReclaimerStates,
         reclaimer' = [reclaimer EXCEPT ![s] = Finish(m)]
  PROVE  ReclaimerMoves(s, Finish(m))
BY DEF ReclaimerMoves, Finish, IdleReclaimer

\* What any step of a scheduler's loops does to its reclaimer.
LEMMA ReclaimerShape ==
  ASSUME TypeInv, NEW s \in Schedulers, LoopNext(s)
  PROVE  UNCHANGED reclaimer \/ \E m : ReclaimerMoves(s, m)
<1> DEFINE rc == reclaimer[s]
<1>1. rc \in ReclaimerStates
  BY StateTypes
<1>2. ASSUME ReclaimStart(s) PROVE \E m : ReclaimerMoves(s, m)
  <2> DEFINE K == {w \in Workers : InFlight(w) # {}}
             m == [rc EXCEPT !.pc = "scan", !.keys = K]
  <2>1. reclaimer' = [reclaimer EXCEPT ![s] = m]
    BY <1>2 DEF ReclaimStart
  <2> HIDE DEF K
  <2>2. m.todo = rc.todo /\ m.job = rc.job /\ m.rec = rc.rec /\ m.pc = "scan"
    BY <1>1 DEF ReclaimerStates
  <2> HIDE DEF m
  <2> QED BY <2>1, <2>2 DEF ReclaimerMoves
<1>3. ASSUME NEW w \in Workers, ReclaimKey(s, w) PROVE \E m : ReclaimerMoves(s, m)
  <2> DEFINE m == [rc EXCEPT !.pc = "next", !.keys = rc.keys \ {w}, !.key = w, !.todo = Stale(w)]
  <2>1. reclaimer' = [reclaimer EXCEPT ![s] = m]
    BY <1>3 DEF ReclaimKey
  <2>2. m.todo = Stale(w) /\ m.job = rc.job /\ m.rec = rc.rec /\ m.pc = "next"
    BY <1>1 DEF ReclaimerStates
  <2>3. Stale(w) \subseteq Somewhere
    BY DEF Stale, Somewhere, Absent
  <2> HIDE DEF m
  <2> QED BY <2>1, <2>2, <2>3 DEF ReclaimerMoves
<1>4. ASSUME NEW j \in Jobs, NEW found \in BOOLEAN, found => data[j] # NoData, ReclaimGet(s, j, found)
      PROVE  \E m : ReclaimerMoves(s, m)
  <2> DEFINE R == IF found THEN Retried(data[j]) ELSE NoData
             m == [rc EXCEPT !.pc = IF found THEN "set" ELSE "drop",
                             !.todo = rc.todo \ {j}, !.job = j, !.rec = R]
  <2>1. reclaimer' = [reclaimer EXCEPT ![s] = m] /\ j \in rc.todo
    BY <1>4 DEF ReclaimGet
  <2>2. /\ m.todo = rc.todo \ {j} /\ m.job = j /\ m.rec = R
        /\ m.pc = "set" => found
    BY <1>1 DEF ReclaimerStates
  <2>3. found => R = Retried(data[j])
    OBVIOUS
  <2>4. R \in {NoData} \cup {Retried(data[k]) : k \in {i \in Jobs : data[i] # NoData}}
    BY <1>4
  <2> HIDE DEF m, R
  <2> QED BY <1>4, <2>1, <2>2, <2>3, <2>4 DEF ReclaimerMoves
<1>5. ASSUME NEW pc \in {"push", "rem", "del"}, reclaimer' = [reclaimer EXCEPT ![s].pc = pc]
      PROVE  \E m : ReclaimerMoves(s, m)
  <2> DEFINE m == [rc EXCEPT !.pc = pc]
  <2>1. reclaimer' = [reclaimer EXCEPT ![s] = m]
    BY <1>5
  <2>2. m.todo = rc.todo /\ m.job = rc.job /\ m.rec = rc.rec /\ m.pc = pc
    BY <1>1 DEF ReclaimerStates
  <2> HIDE DEF m
  <2> QED BY <2>1, <2>2 DEF ReclaimerMoves
<1>6. ASSUME Continue(s) PROVE \E m : ReclaimerMoves(s, m)
  <2> DEFINE m == [rc EXCEPT !.pc = "next", !.job = NoJob, !.rec = NoData]
  <2>1. reclaimer' = [reclaimer EXCEPT ![s] = m]
    BY <1>6 DEF Continue
  <2>2. m.todo = rc.todo /\ m.job = NoJob /\ m.rec = NoData /\ m.pc = "next"
    BY <1>1 DEF ReclaimerStates
  <2> HIDE DEF m
  <2> QED BY <2>1, <2>2 DEF ReclaimerMoves
<1>7. ASSUME ReclaimCard(s) PROVE \E m : ReclaimerMoves(s, m)
  <2>1. CASE InFlight(rc.key) = {}
    <3>1. reclaimer' = [reclaimer EXCEPT ![s].pc = "del"]
      BY <1>7, <2>1 DEF ReclaimCard
    <3> QED BY <1>5, <3>1
  <2>2. CASE InFlight(rc.key) # {}
    <3>1. reclaimer' = [reclaimer EXCEPT ![s] = Finish(rc)]
      BY <1>7, <2>2 DEF ReclaimCard
    <3> QED BY <1>1, <3>1, FinishMoves
  <2> QED BY <2>1, <2>2
<1>8. ASSUME ReclaimDel(s) PROVE \E m : ReclaimerMoves(s, m)
  BY <1>1, <1>8, FinishMoves DEF ReclaimDel
<1>9. ASSUME ReclaimAborts(s) PROVE \E m : ReclaimerMoves(s, m)
  <2>1. ASSUME NEW w, reclaimer' = [reclaimer EXCEPT ![s] =
                                      Finish([@ EXCEPT !.keys = reclaimer[s].keys \ {w}])]
        PROVE  \E m : ReclaimerMoves(s, m)
    <3> DEFINE m == [rc EXCEPT !.keys = rc.keys \ {w}]
    <3>1. m \in ReclaimerStates
      BY <1>1 DEF ReclaimerStates
    <3>2. reclaimer' = [reclaimer EXCEPT ![s] = Finish(m)]
      BY <2>1
    <3> HIDE DEF m
    <3> QED BY <3>1, <3>2, FinishMoves
  <2> QED BY <1>1, <1>6, <1>9, <2>1, FinishMoves DEF ReclaimAborts
<1>10. ASSUME NEW j \in Jobs, LGetFails(s, j)
       PROVE  UNCHANGED reclaimer \/ \E m : ReclaimerMoves(s, m)
  BY <1>4, <1>10 DEF LGetFails, MoverGet, moverFrame
<1>11. ASSUME LMove(s) PROVE UNCHANGED reclaimer
  BY <1>11 DEF LMove, MoverAcquire, MoverScan, MoverGet, MoverPush, MoverDrop, MoverRem,
               MoverRelease, moverFrame
<1>12. ASSUME LReclaim(s) PROVE \E m : ReclaimerMoves(s, m)
  <2>1. ASSUME NEW j \in Jobs, ReclaimGet(s, j, data[j] # NoData) PROVE \E m : ReclaimerMoves(s, m)
    <3>1. (data[j] # NoData) \in BOOLEAN
      OBVIOUS
    <3> QED BY <1>4, <2>1, <3>1
  <2>2. ASSUME ReclaimSet(s) PROVE \E m : ReclaimerMoves(s, m)
    BY <1>5, <2>2 DEF ReclaimSet
  <2>3. ASSUME ReclaimRem(s) PROVE \E m : ReclaimerMoves(s, m)
    BY <1>6, <2>3 DEF ReclaimRem
  <2> QED BY <1>2, <1>3, <1>7, <1>8, <1>12, <2>1, <2>2, <2>3 DEF LReclaim
<1>13. ASSUME LReclaimPush(s) \/ LCardFails(s) PROVE \E m : ReclaimerMoves(s, m)
  BY <1>5, <1>13 DEF LReclaimPush, ReclaimPush, LCardFails, ReclaimCardFails
<1>14. ASSUME LFault(s) PROVE UNCHANGED reclaimer \/ \E m : ReclaimerMoves(s, m)
  BY <1>9, <1>14 DEF LFault, MoverAborts, MoverAcquireLost, moverFrame
<1>15. ASSUME LCrash(s) PROVE \E m : ReclaimerMoves(s, m)
  BY <1>15, IdleReclaimerMoves DEF LCrash, CrashScheduler
<1> QED BY <1>10, <1>11, <1>12, <1>13, <1>14, <1>15 DEF LoopNext

-----------------------------------------------------------------------------
(* The ready lists *)

\* Every entry of a ready list is on the list of its priority.
Home == \A p \in Priorities : \A i \in 1 .. Len(ready[p]) : Priority[ready[p][i]] = p

\* A job is in the ready list iff some position holds it.
LEMMA InReadyAt ==
  ASSUME NEW j \in Jobs
  PROVE  InReady(j) <=> ReadyAt(j) # {}
BY DEF InReady, ReadyAt

\* LPUSH adds one entry.
LEMMA PushReady ==
  ASSUME QueueTypeOK, Home, NEW j \in Jobs, LPush(j)
  PROVE  /\ Home'
         /\ \A k \in Jobs \ {j} : ReadyAt(k)' = ReadyAt(k)
         /\ ReadyAt(j)' = ReadyAt(j) \cup {Len(ready[Priority[j]]) + 1}
<1> DEFINE p == Priority[j]
           S == ready[p]
<1>1. p \in Priorities /\ ready \in [Priorities -> Seq(Jobs)] /\ \A k \in Jobs : Priority[k] \in Priorities
  BY PriorityAssumption DEF Priorities, QueueTypeOK
<1>2. ready' = [ready EXCEPT ![p] = Append(S, j)] /\ S \in Seq(Jobs)
  BY <1>1 DEF LPush
<1>3. p = Priority[j]
  OBVIOUS
<1> HIDE DEF p
<1>4. /\ Len(Append(S, j)) = Len(S) + 1 /\ Len(S) \in Nat
      /\ \A i \in 1 .. Len(S) : Append(S, j)[i] = S[i]
      /\ Append(S, j)[Len(S) + 1] = j
  BY <1>2
<1>5. ready'[p] = Append(S, j) /\ \A q \in Priorities : q # p => ready'[q] = ready[q]
  BY <1>1, <1>2
<1>6. S = ready[p]
  OBVIOUS
<1> HIDE DEF S
<1>7. Home'
  <2> SUFFICES ASSUME NEW q \in Priorities, NEW i \in 1 .. Len(ready'[q]) PROVE Priority[ready'[q][i]] = q
    BY DEF Home
  <2>1. CASE q # p
    BY <1>5, <2>1 DEF Home
  <2>2. CASE q = p
    <3>1. i \in 1 .. Len(S) \/ i = Len(S) + 1
      BY <1>4, <1>5, <2>2
    <3>2. CASE i \in 1 .. Len(S)
      <4>1. ready'[q][i] = ready[p][i] /\ i \in 1 .. Len(ready[p])
        BY <1>4, <1>5, <1>6, <2>2, <3>2
      <4> QED BY <1>1, <2>2, <4>1 DEF Home
    <3>3. CASE i = Len(S) + 1
      <4>1. ready'[q][i] = j
        BY <1>4, <1>5, <2>2, <3>3
      <4> QED BY <1>3, <2>2, <4>1
    <3> QED BY <3>1, <3>2, <3>3
  <2> QED BY <2>1, <2>2
<1>8. ASSUME NEW k \in Jobs, Priority[k] # p PROVE ReadyAt(k)' = ReadyAt(k)
  BY <1>1, <1>5, <1>8 DEF ReadyAt
<1>9. ASSUME NEW k \in Jobs, Priority[k] = p
      PROVE  ReadyAt(k)' = ReadyAt(k) \cup (IF k = j THEN {Len(S) + 1} ELSE {})
  <2>1. ReadyAt(k)' = {i \in 1 .. Len(S) + 1 : Append(S, j)[i] = k}
    BY <1>4, <1>5, <1>9 DEF ReadyAt
  <2>2. ReadyAt(k) = {i \in 1 .. Len(S) : S[i] = k}
    BY <1>6, <1>9 DEF ReadyAt
  <2>3. 1 .. Len(S) + 1 = (1 .. Len(S)) \cup {Len(S) + 1} /\ Len(S) + 1 \notin 1 .. Len(S)
    BY <1>4
  <2>4. CASE k = j
    BY <1>4, <2>1, <2>2, <2>3, <2>4
  <2>5. CASE k # j
    BY <1>4, <2>1, <2>2, <2>3, <2>5
  <2> QED BY <2>4, <2>5
<1> QED BY <1>3, <1>6, <1>7, <1>8, <1>9

\* dequeueScript takes the first entry, whose job it hands out, and moves the rest up.
LEMMA PopReady ==
  ASSUME QueueTypeOK, Home, NEW w \in Workers, NEW j \in Jobs, DequeueScript(w, j)
  PROVE  /\ Home' /\ InReady(j)
         /\ \A k \in Jobs : ReadyAt(k) = {} => ReadyAt(k)' = {}
         /\ \A k \in Jobs : (\A a, b \in ReadyAt(k) : a = b) => \A a, b \in ReadyAt(k)' : a = b
         /\ (\A a, b \in ReadyAt(j) : a = b) => ReadyAt(j)' = {}
<1>1. PICK p \in Priorities : /\ ready[p] # <<>> /\ j = Head(ready[p])
                              /\ ready' = [ready EXCEPT ![p] = Tail(@)]
  BY DEF DequeueScript
<1> DEFINE S == ready[p]
           T == Tail(S)
<1>2. ready \in [Priorities -> Seq(Jobs)] /\ S \in Seq(Jobs) /\ \A k \in Jobs : Priority[k] \in Priorities
  BY PriorityAssumption DEF Priorities, QueueTypeOK
<1>3. /\ Len(S) \in Nat /\ Len(S) >= 1 /\ S[1] = j /\ Len(T) = Len(S) - 1
      /\ \A i \in 1 .. Len(T) : T[i] = S[i + 1]
  BY <1>1, <1>2
<1>4. ready'[p] = T /\ \A q \in Priorities : q # p => ready'[q] = ready[q]
  BY <1>1, <1>2
<1>5. S = ready[p]
  OBVIOUS
<1> HIDE DEF S, T
<1>6. Priority[j] = p /\ 1 \in ReadyAt(j) /\ InReady(j)
  BY <1>3, <1>5 DEF Home, ReadyAt, InReady
<1>7. Home'
  <2> SUFFICES ASSUME NEW q \in Priorities, NEW i \in 1 .. Len(ready'[q]) PROVE Priority[ready'[q][i]] = q
    BY DEF Home
  <2>1. CASE q # p
    BY <1>4, <2>1 DEF Home
  <2>2. CASE q = p
    <3>1. i \in 1 .. Len(T) /\ i + 1 \in 1 .. Len(S)
      BY <1>3, <1>4, <2>2
    <3> QED BY <1>3, <1>4, <1>5, <2>2, <3>1 DEF Home
  <2> QED BY <2>1, <2>2
<1>8. ASSUME NEW k \in Jobs, Priority[k] # p PROVE ReadyAt(k)' = ReadyAt(k)
  BY <1>2, <1>4, <1>8 DEF ReadyAt
<1>9. ASSUME NEW k \in Jobs, Priority[k] = p, NEW i \in ReadyAt(k)'
      PROVE  i \in Nat /\ i >= 1 /\ i + 1 \in ReadyAt(k)
  <2>1. i \in 1 .. Len(T) /\ T[i] = k
    BY <1>4, <1>9 DEF ReadyAt
  <2>2. i + 1 \in 1 .. Len(S) /\ S[i + 1] = k
    BY <1>3, <2>1
  <2> QED BY <1>3, <1>5, <1>9, <2>1, <2>2 DEF ReadyAt
<1>10. ASSUME NEW k \in Jobs, ReadyAt(k) = {} PROVE ReadyAt(k)' = {}
  BY <1>8, <1>9, <1>10
<1>11. ASSUME NEW k \in Jobs, \A a, b \in ReadyAt(k) : a = b,
              NEW a \in ReadyAt(k)', NEW b \in ReadyAt(k)'
       PROVE  a = b
  <2>1. CASE Priority[k] # p
    BY <1>8, <1>11, <2>1
  <2>2. CASE Priority[k] = p
    <3>1. a \in Nat /\ b \in Nat /\ a + 1 \in ReadyAt(k) /\ b + 1 \in ReadyAt(k)
      BY <1>9, <2>2
    <3>2. a + 1 = b + 1
      BY <1>11, <3>1
    <3> QED BY <3>1, <3>2
  <2> QED BY <2>1, <2>2
<1>12. ASSUME \A a, b \in ReadyAt(j) : a = b, NEW i \in ReadyAt(j)' PROVE FALSE
  <2>1. i \in Nat /\ i >= 1 /\ i + 1 \in ReadyAt(j)
    BY <1>6, <1>9
  <2>2. i + 1 = 1
    BY <1>6, <1>12, <2>1
  <2> QED BY <2>1, <2>2
<1> QED BY <1>6, <1>7, <1>10, <1>11, <1>12

-----------------------------------------------------------------------------
(* The dead letter queue *)

\* Of one goroutine: its record never says failed, past the decision of Nack it says
\* dead_letter, and before the row is written LPUSH on the DLQ has run or Nack has
\* broken off.
DeadGor(g) ==
    /\ gor[g].rec.status # "failed"
    /\ gor[g].pc \in NackPcs \cup {"dbFail"} => gor[g].rec.status = "dead_letter"
    /\ gor[g].pc \in {"nackRem", "dbFail"} => gor[g].job \in dlq \cup brokenOff

\* No record ever says failed: IsRetryable, which asks for that status, is never
\* true, and every Nack takes the DLQ branch.
DeadInv ==
    /\ \A j \in Jobs : data[j].status # "failed"
    /\ \A g \in Goroutines : DeadGor(g)
    /\ \A s \in Schedulers : reclaimer[s].rec.status # "failed"
    /\ DeadLetterIsInDLQ

\* A goroutine that is not touched keeps DeadGor while the DLQ grows.
LEMMA DeadGorKept ==
  ASSUME NEW g \in Goroutines, DeadGor(g), gor'[g].pc = gor[g].pc, gor'[g].job = gor[g].job,
         gor'[g].rec = gor[g].rec, dlq \subseteq dlq', brokenOff \subseteq brokenOff'
  PROVE  DeadGor(g)'
BY DEF DeadGor

\* An idle goroutine owes the DLQ nothing.
LEMMA DeadIdle ==
  ASSUME NEW g \in Goroutines, gor'[g] = Idle
  PROVE  DeadGor(g)'
BY DEF DeadGor, Idle, NoData, NackPcs

\* Only dead_letter has to be looked at when a row is written.
LEMMA DeadRow ==
  ASSUME StoreTypeOK, DeadLetterIsInDLQ, NEW j \in Jobs, NEW status, NEW b,
         UpdateJobStatus(j, status, b), dlq \subseteq dlq', brokenOff \subseteq brokenOff',
         status = "dead_letter" => j \in dlq \cup brokenOff
  PROVE  DeadLetterIsInDLQ'
<1> SUFFICES ASSUME NEW k \in Jobs \ brokenOff, db'[k].status = "dead_letter"
             PROVE  k \in dlq
  BY DEF DeadLetterIsInDLQ
<1>1. CASE k = j /\ Exists(j)
  <2>1. db'[k] = [status |-> status, hasWorker |-> db[j].hasWorker \/ b]
    BY <1>1 DEF UpdateJobStatus, StoreTypeOK
  <2>2. db'[k].status = status
    BY <2>1
  <2> QED BY <1>1, <2>2
<1>2. CASE ~(k = j /\ Exists(j))
  <2>1. db'[k] = db[k]
    BY <1>2 DEF UpdateJobStatus, StoreTypeOK
  <2> QED BY <2>1 DEF DeadLetterIsInDLQ
<1> QED BY <1>1, <1>2

\* Worker steps keep DeadInv.
LEMMA WorkerDead ==
  ASSUME TypeInv, DeadInv, NEW g \in Goroutines, WorkerNext(g)
  PROVE  DeadInv'
<1>0. /\ gor \in [Goroutines -> GorStates] /\ gor[g] \in GorStates
      /\ QueueTypeOK /\ StoreTypeOK
      /\ gor[g].pc # "idle" => gor[g].job \in Jobs
      /\ gor[g].pc \in {"begin", "run", "dbFail"} \cup NackPcs => gor[g].rec \in Records
  BY StateTypes DEF TypeInv, TypeOK, BusyPool
<1>a. /\ \A j \in Jobs : data[j].status # "failed"
      /\ \A h \in Goroutines : DeadGor(h)
      /\ \A s \in Schedulers : reclaimer[s].rec.status # "failed"
      /\ DeadLetterIsInDLQ
  BY DEF DeadInv
<1>b. UNCHANGED reclaimer /\ brokenOff \subseteq brokenOff'
  BY DEF WorkerNext, WDequeue, WDequeueLost, WSucceed, WFail, WNackPush, WStep, WFault, coreVars,
         history
<1>c. ASSUME \A j \in Jobs : data'[j].status # "failed",
             DeadGor(g)', \A h \in Goroutines \ {g} : gor'[h] = gor[h],
             dlq \subseteq dlq', DeadLetterIsInDLQ'
      PROVE  DeadInv'
  <2>1. ASSUME NEW h \in Goroutines PROVE DeadGor(h)'
    BY <1>a, <1>b, <1>c, DeadGorKept
  <2> QED BY <1>a, <1>b, <1>c, <2>1 DEF DeadInv
<1>d. UNCHANGED db /\ dlq \subseteq dlq' => DeadLetterIsInDLQ'
  BY <1>a, <1>b DEF DeadLetterIsInDLQ
<1>e. ASSUME NEW pc, Goto(g, pc) PROVE /\ gor'[g].pc = pc /\ gor'[g].job = gor[g].job
                                      /\ gor'[g].rec = gor[g].rec
                                      /\ \A h \in Goroutines \ {g} : gor'[h] = gor[h]
  BY <1>0, <1>e DEF Goto, GorStates
<1>1. ASSUME NEW j \in Jobs, WDequeue(g, j) PROVE DeadInv'
  <2>1. UNCHANGED <<data, dlq, db>>
    BY <1>1 DEF WDequeue, Dequeue, DequeueScript
  <2>2. CASE data[j] = NoData
    <3>1. UNCHANGED gor
      BY <1>1, <2>2 DEF WDequeue, Dequeue
    <3>2. DeadGor(g)'
      BY <1>a, <1>b, <2>1, <3>1, DeadGorKept
    <3> QED BY <1>a, <1>c, <1>d, <2>1, <3>1, <3>2
  <2>3. CASE data[j] # NoData
    <3> DEFINE h == [pc |-> "begin", job |-> j, rec |-> data[j], due |-> due[j], left |-> Timeout[j]]
    <3>1. gor' = [gor EXCEPT ![g] = h]
      BY <1>1, <2>3 DEF WDequeue, Dequeue
    <3>2. gor'[g] = h /\ \A k \in Goroutines \ {g} : gor'[k] = gor[k]
      BY <1>0, <3>1
    <3>3. gor'[g].pc = "begin" /\ gor'[g].rec = data[j]
      BY <3>2
    <3>4. DeadGor(g)'
      BY <1>a, <3>3 DEF DeadGor, NackPcs
    <3> QED BY <1>a, <1>c, <1>d, <2>1, <3>2, <3>4
  <2> QED BY <2>2, <2>3
<1>2. ASSUME NEW j \in Jobs, WDequeueLost(g, j) PROVE DeadInv'
  <2>1. UNCHANGED <<data, dlq, db, gor>>
    BY <1>2 DEF WDequeueLost, DequeueLost, DequeueScript
  <2>2. DeadGor(g)'
    BY <1>a, <1>b, <2>1, DeadGorKept
  <2> QED BY <1>a, <1>c, <1>d, <2>1, <2>2
<1>3. CASE WSucceed(g)
  <2> DEFINE h == [Idle EXCEPT !.pc = "ackDel", !.job = gor[g].job]
  <2>1. UNCHANGED <<data, dlq, db>> /\ gor' = [gor EXCEPT ![g] = h]
    BY <1>3 DEF WSucceed, HandlerSucceeds, queueVars
  <2>2. gor'[g] = h /\ \A k \in Goroutines \ {g} : gor'[k] = gor[k]
    BY <1>0, <2>1
  <2>3. gor'[g].pc = "ackDel" /\ gor'[g].rec = NoData
    BY <2>2 DEF Idle
  <2>4. DeadGor(g)'
    BY <2>3 DEF DeadGor, NackPcs, NoData
  <2> QED BY <1>a, <1>c, <1>d, <2>1, <2>2, <2>4
<1>4. ASSUME gor[g].pc = "run", gor' = [gor EXCEPT ![g] = Nacked(@)], UNCHANGED <<queueVars, db>>
      PROVE  DeadInv'
  <2>1. ~IsRetryable(gor[g].rec)
    BY <1>a DEF DeadGor, IsRetryable
  <2> DEFINE rec == [gor[g].rec EXCEPT !.status = "dead_letter"]
  <2>2. gor'[g] = [gor[g] EXCEPT !.pc = "nackSet", !.left = 0, !.rec = rec]
    BY <1>0, <1>4, <2>1 DEF Nacked, GorStates
  <2>3. \A k \in Goroutines \ {g} : gor'[k] = gor[k]
    BY <1>0, <1>4
  <2>4. rec.status = "dead_letter"
    BY <1>0, <1>4 DEF Records
  <2> HIDE DEF rec
  <2>5. gor'[g].pc = "nackSet" /\ gor'[g].rec = rec
    BY <1>0, <2>2 DEF GorStates
  <2>6. DeadGor(g)'
    BY <2>4, <2>5 DEF DeadGor
  <2>7. UNCHANGED <<data, dlq, db>>
    BY <1>4 DEF queueVars
  <2> QED BY <1>a, <1>c, <1>d, <2>3, <2>6, <2>7
<1>5. CASE WFail(g)
  BY <1>4, <1>5 DEF WFail, HandlerFails
<1>6. CASE WNackPush(g)
  <2>1. gor[g].rec.status = "dead_letter" /\ gor[g].pc = "nackPush"
    BY <1>6, <1>a DEF WNackPush, NackPush, DeadGor, NackPcs
  <2>2. PushDLQ(gor[g].job) /\ Goto(g, "nackRem") /\ UNCHANGED db
    BY <1>6, <2>1 DEF WNackPush, NackPush
  <2>3. UNCHANGED data /\ dlq' = dlq \cup {gor[g].job}
    BY <2>2 DEF PushDLQ
  <2>4. DeadGor(g)'
    BY <1>e, <2>1, <2>2, <2>3 DEF DeadGor
  <2> QED BY <1>a, <1>c, <1>d, <1>e, <2>2, <2>3, <2>4
<1>7. ASSUME NEW pc, Goto(g, pc), UNCHANGED <<dlq, db>>,
             \A j \in Jobs : data'[j].status # "failed",
             pc \in NackPcs \cup {"dbFail"} => gor[g].pc \in NackPcs \cup {"dbFail"},
             pc \in {"nackRem", "dbFail"} =>
               gor[g].pc \in {"nackRem", "dbFail"} \/ gor[g].job \in brokenOff'
      PROVE  DeadInv'
  <2>1. DeadGor(g)'
    BY <1>7, <1>a, <1>b, <1>e DEF DeadGor
  <2> QED BY <1>7, <1>c, <1>d, <1>e, <2>1
<1>8. CASE WStep(g)
  <2>1. CASE BeginExecution(g)
    <3>1. DeadLetterIsInDLQ'
      BY <1>0, <1>a, <1>b, <2>1, DeadRow DEF BeginExecution, queueVars
    <3>2. UNCHANGED <<data, dlq>> /\ Goto(g, "run")
      BY <2>1 DEF BeginExecution, queueVars
    <3>3. DeadGor(g)'
      BY <1>a, <1>e, <3>2 DEF DeadGor, NackPcs
    <3> QED BY <1>a, <1>c, <1>e, <3>1, <3>2, <3>3
  <2>2. CASE TimesOut(g)
    BY <1>4, <2>2 DEF TimesOut
  <2>3. CASE AckDel(g)
    <3>1. \A j \in Jobs : data'[j].status # "failed"
      <4>1. /\ data' = [data EXCEPT ![gor[g].job] = NoData]
            /\ data \in [Jobs -> Records \cup {NoData}]
        BY <1>0, <2>3 DEF AckDel, DelData, QueueTypeOK
      <4>2. NoData.status # "failed"
        BY DEF NoData
      <4> QED BY <1>a, <4>1, <4>2
    <3> QED BY <1>7, <2>3, <3>1 DEF AckDel, DelData, NackPcs
  <2>4. CASE AckRem(g)
    BY <1>7, <1>a, <2>4 DEF AckRem, ZRemInflight, NackPcs
  <2>5. CASE NackSet(g)
    <3>1. gor[g].rec.status = "dead_letter"
      BY <1>a, <2>5 DEF NackSet, DeadGor, NackPcs
    <3>2. /\ data' = [data EXCEPT ![gor[g].job] = gor[g].rec] /\ UNCHANGED dlq
          /\ data \in [Jobs -> Records \cup {NoData}]
      BY <1>0, <2>5 DEF NackSet, Store, Set, QueueTypeOK
    <3>3. \A j \in Jobs : data'[j].status # "failed"
      BY <1>a, <3>1, <3>2
    <3> QED BY <1>7, <2>5, <3>2, <3>3 DEF NackSet, NackPcs
  <2>6. CASE NackRem(g)
    BY <1>7, <1>a, <2>6 DEF NackRem, ZRemInflight, NackPcs
  <2>7. CASE MarkCompleted(g) \/ MarkFailed(g)
    <3>1. DeadLetterIsInDLQ'
      <4>1. CASE MarkCompleted(g)
        BY <1>0, <1>a, <1>b, <4>1, DeadRow DEF MarkCompleted, queueVars
      <4>2. CASE MarkFailed(g)
        <5>1. gor[g].job \in dlq \cup brokenOff
          BY <1>a, <4>2 DEF MarkFailed, DeadGor
        <5> QED BY <1>0, <1>a, <1>b, <4>2, <5>1, DeadRow DEF MarkFailed, queueVars
      <4> QED BY <2>7, <4>1, <4>2
    <3>2. UNCHANGED <<data, dlq>> /\ gor' = [gor EXCEPT ![g] = Idle]
      BY <2>7 DEF MarkCompleted, MarkFailed, queueVars
    <3>3. gor'[g] = Idle /\ \A h \in Goroutines \ {g} : gor'[h] = gor[h]
      BY <1>0, <3>2
    <3> QED BY <1>a, <1>c, <3>1, <3>2, <3>3, DeadIdle
  <2> QED BY <1>8, <2>1, <2>2, <2>3, <2>4, <2>5, <2>6, <2>7 DEF WStep
<1>9. CASE WFault(g)
  <2>1. UNCHANGED <<data, dlq, db>>
    BY <1>9 DEF WFault, PipelineAborts, UpdateFails, queueVars
  <2>2. CASE PipelineAborts(g)
    <3>1. CASE gor[g].pc \in AckPcs
      BY <1>7, <1>a, <2>1, <2>2, <3>1 DEF PipelineAborts, AckPcs, NackPcs
    <3>2. CASE gor[g].pc \in NackPcs
      <4>1. Goto(g, "dbFail")
        BY <2>2, <3>2 DEF PipelineAborts, AckPcs, NackPcs
      <4>2. gor[g].pc = "nackRem" \/ gor[g].job \in brokenOff'
        BY <1>9, <3>2 DEF WFault, NackPcs
      <4> QED BY <1>7, <1>a, <2>1, <3>2, <4>1, <4>2
    <3> QED BY <2>2, <3>1, <3>2 DEF PipelineAborts
  <2>3. CASE UpdateFails(g)
    <3>1. CASE gor[g].pc = "begin"
      <4>1. Goto(g, "run")
        BY <1>0, <2>3, <3>1 DEF UpdateFails, Goto
      <4> QED BY <1>7, <1>a, <2>1, <4>1 DEF NackPcs
    <3>2. CASE gor[g].pc # "begin"
      <4>1. gor'[g] = Idle /\ \A h \in Goroutines \ {g} : gor'[h] = gor[h]
        BY <1>0, <2>3, <3>2 DEF UpdateFails
      <4> QED BY <1>a, <1>c, <1>d, <2>1, <4>1, DeadIdle
    <3> QED BY <3>1, <3>2
  <2> QED BY <1>9, <2>2, <2>3 DEF WFault
<1> QED BY <1>1, <1>2, <1>3, <1>5, <1>6, <1>8, <1>9 DEF WorkerNext

\* A request stores only new records and writes only pending.
LEMMA RequestDead ==
  ASSUME TypeInv, DeadInv, NEW r \in Requests, RequestNext(r)
  PROVE  DeadInv'
<1>0. /\ QueueTypeOK /\ StoreTypeOK /\ DeadLetterIsInDLQ
      /\ api[r].pc # "idle" => api[r].job \in Jobs
      /\ \A j \in Jobs : data[j].status # "failed"
      /\ \A h \in Goroutines : DeadGor(h)
      /\ \A s \in Schedulers : reclaimer[s].rec.status # "failed"
  BY DEF DeadInv, TypeInv, TypeOK, BusyCore
<1>1. UNCHANGED <<gor, reclaimer, dlq, brokenOff>>
  BY DEF RequestNext, ARetry, Retry, ASubmit, Submit, AEnqueue, Enqueue, AEnqueueReplyLost,
         EnqueueReplyLost, Entered, EnqueueScript, AStep, RetryUpdate, DeleteJob, Delete, AFault,
         EnqueueFails, StatementFails, history, queueVars
<1>2. \A j \in Jobs : data'[j].status # "failed"
  <2>1. UNCHANGED data \/ /\ api[r].pc \in EnqueuePcs
                          /\ data' = [data EXCEPT ![api[r].job] = NewJob]
    BY DEF RequestNext, ARetry, Retry, ASubmit, Submit, AEnqueue, Enqueue, AEnqueueReplyLost,
           EnqueueReplyLost, EnqueueScript, Set, AStep, RetryUpdate, DeleteJob, Delete, AFault,
           EnqueueFails, StatementFails, queueVars
  <2>2. NewJob.status # "failed"
    BY DEF NewJob
  <2> QED BY <1>0, <2>1, <2>2 DEF QueueTypeOK
<1>3. DeadLetterIsInDLQ'
  <2>1. ASSUME NEW j \in Jobs, NEW wait \in Delays, ASubmit(r, j, wait) PROVE DeadLetterIsInDLQ'
    BY <1>0, <1>1, <2>1
       DEF ASubmit, Submit, CreateJob, NewJob, StoreTypeOK, DeadLetterIsInDLQ
  <2>2. ASSUME RetryUpdate(r) PROVE DeadLetterIsInDLQ'
    BY <1>0, <1>1, <2>2, DeadRow DEF RetryUpdate
  <2>3. ASSUME DeleteJob(r) PROVE DeadLetterIsInDLQ'
    BY <1>0, <1>1, <2>3 DEF DeleteJob, DeleteRow, NoRow, StoreTypeOK, DeadLetterIsInDLQ
  <2>4. ASSUME UNCHANGED db PROVE DeadLetterIsInDLQ'
    BY <1>0, <1>1, <2>4 DEF DeadLetterIsInDLQ
  <2>5. \/ \E j \in Jobs : \E wait \in Delays : ASubmit(r, j, wait)
        \/ RetryUpdate(r) \/ DeleteJob(r) \/ UNCHANGED db
    BY DEF RequestNext, ARetry, Retry, AEnqueue, Enqueue, AEnqueueReplyLost, EnqueueReplyLost,
           AStep, Delete, AFault, EnqueueFails, StatementFails
  <2> QED BY <2>1, <2>2, <2>3, <2>4, <2>5
<1>4. \A h \in Goroutines : DeadGor(h)'
  BY <1>0, <1>1, DeadGorKept
<1> QED BY <1>0, <1>1, <1>2, <1>3, <1>4 DEF DeadInv

\* What a reclaimer sends back is pending.
LEMMA LoopDead ==
  ASSUME TypeInv, DeadInv, NEW s \in Schedulers, LoopNext(s)
  PROVE  DeadInv'
<1>0. /\ QueueTypeOK /\ DeadLetterIsInDLQ
      /\ reclaimer \in [Schedulers -> ReclaimerStates]
      /\ reclaimer[s].pc = "set" => reclaimer[s].job \in Jobs
      /\ \A j \in Jobs : data[j].status # "failed"
      /\ \A h \in Goroutines : DeadGor(h)
      /\ \A t \in Schedulers : reclaimer[t].rec.status # "failed"
  BY StateTypes DEF DeadInv, TypeInv, TypeOK, BusyCore
<1>1. UNCHANGED <<gor, db, dlq, brokenOff>>
  BY LoopLeaves
<1>2. \A j \in Jobs : data'[j].status # "failed"
  <2>1. CASE ReclaimSet(s)
    <3>1. /\ data' = [data EXCEPT ![reclaimer[s].job] = reclaimer[s].rec]
          /\ data \in [Jobs -> Records \cup {NoData}]
      BY <1>0, <2>1 DEF ReclaimSet, Store, Set, QueueTypeOK
    <3> QED BY <1>0, <3>1
  <2> QED BY <1>0, <2>1, LoopData
<1>3. \A t \in Schedulers : reclaimer'[t].rec.status # "failed"
  <2>1. ASSUME NEW m, ReclaimerMoves(s, m) PROVE \A t \in Schedulers : reclaimer'[t].rec.status # "failed"
    <3>1. \A j \in Jobs : data[j] # NoData => Retried(data[j]).status # "failed"
      BY <1>0, RetriedCounts DEF QueueTypeOK
    <3>2. m.rec.status # "failed"
      BY <1>0, <2>1, <3>1 DEF ReclaimerMoves, NoData
    <3>3. reclaimer' = [reclaimer EXCEPT ![s] = m]
      BY <2>1 DEF ReclaimerMoves
    <3> QED BY <1>0, <3>2, <3>3
  <2> QED BY <1>0, <2>1, ReclaimerShape
<1>4. \A h \in Goroutines : DeadGor(h)'
  BY <1>0, <1>1, DeadGorKept
<1>5. DeadLetterIsInDLQ'
  BY <1>0, <1>1 DEF DeadLetterIsInDLQ
<1> QED BY <1>2, <1>3, <1>4, <1>5 DEF DeadInv

\* No row and no goroutine speaks of the DLQ at the start.
LEMMA InitDead == Init => DeadInv
<1> SUFFICES ASSUME Init PROVE DeadInv
  OBVIOUS
<1>1. \A j \in Jobs : data[j].status # "failed"
  BY DEF Init, QueueInit, NoData
<1>2. \A g \in Goroutines : DeadGor(g)
  BY DEF Init, PoolInit, DeadGor, Idle, NoData, NackPcs
<1>3. \A s \in Schedulers : reclaimer[s].rec.status # "failed"
  BY DEF Init, CoreInit, IdleReclaimer, NoData
<1>4. DeadLetterIsInDLQ
  BY DEF Init, StoreInit, NoRow, DeadLetterIsInDLQ
<1> QED BY <1>1, <1>2, <1>3, <1>4 DEF DeadInv

\* Every step of the system keeps DeadInv.
LEMMA NextDead == TypeInv /\ DeadInv /\ [Next]_vars => DeadInv'
<1> SUFFICES ASSUME TypeInv, DeadInv, [Next]_vars PROVE DeadInv'
  OBVIOUS
<1>0. /\ QueueTypeOK /\ DeadLetterIsInDLQ /\ gor \in [Goroutines -> GorStates]
      /\ \A j \in Jobs : data[j].status # "failed"
      /\ \A h \in Goroutines : DeadGor(h)
      /\ \A t \in Schedulers : reclaimer[t].rec.status # "failed"
  BY StateTypes DEF DeadInv, TypeInv, TypeOK
<1>1. CASE UNCHANGED vars
  <2>1. UNCHANGED <<data, gor, reclaimer, db, dlq, brokenOff>>
    BY <1>1 DEF vars, queueVars, coreVars, history
  <2>2. \A h \in Goroutines : DeadGor(h)'
    BY <1>0, <2>1, DeadGorKept
  <2> QED BY <1>0, <2>1, <2>2 DEF DeadInv, DeadLetterIsInDLQ
<1>2. ASSUME NEW w \in Workers, WCrash(w) PROVE DeadInv'
  <2>1. /\ UNCHANGED <<data, reclaimer, db, dlq, brokenOff>>
        /\ gor' = [g \in Goroutines |-> IF PoolOf[g] = w THEN Idle ELSE gor[g]]
    BY <1>2 DEF WCrash, CrashPool, queueVars, coreVars
  <2>2. ASSUME NEW h \in Goroutines PROVE DeadGor(h)'
    <3>1. gor'[h] = Idle \/ gor'[h] = gor[h]
      BY <2>1
    <3> QED BY <1>0, <2>1, <3>1, DeadGorKept, DeadIdle
  <2> QED BY <1>0, <2>1, <2>2 DEF DeadInv, DeadLetterIsInDLQ
<1>3. CASE Tick
  <2>1. UNCHANGED <<reclaimer, db, dlq, brokenOff>>
    BY <1>3 DEF Tick, QueueTick, CoreTick
  <2>2. \A j \in Jobs : data'[j].status # "failed"
    <3>1. \A j \in Jobs : data'[j] \in {NoData, data[j]}
      BY <1>3 DEF Tick, QueueTick
    <3> QED BY <1>0, <3>1 DEF NoData
  <2>3. ASSUME NEW h \in Goroutines PROVE DeadGor(h)'
    <3>1. gor'[h] = [gor[h] EXCEPT !.left = Earlier(gor[h].left), !.due = Earlier(gor[h].due)]
      BY <1>3 DEF Tick, PoolTick
    <3>2. gor'[h].pc = gor[h].pc /\ gor'[h].job = gor[h].job /\ gor'[h].rec = gor[h].rec
      BY <1>0, <3>1 DEF GorStates
    <3> QED BY <1>0, <2>1, <3>2, DeadGorKept
  <2> QED BY <1>0, <2>1, <2>2, <2>3 DEF DeadInv, DeadLetterIsInDLQ
<1> QED BY <1>1, <1>2, <1>3, WorkerDead, RequestDead, LoopDead DEF Next

\* A row that says dead_letter has its job in the DLQ, whatever calls fail, unless a
\* Nack of that very job broke off before its LPUSH.  The invariant shows why: no record
\* is ever failed, so that Nack always takes its DLQ branch, LPUSH comes before the row,
\* and nothing takes a job out of the DLQ.
THEOREM DeadLetterHolds == Spec => []DeadLetterIsInDLQ
<1>1. DeadInv => DeadLetterIsInDLQ
  BY DEF DeadInv
<1> QED BY <1>1, InitType, NextType, InitDead, NextDead, PTL DEF Spec

-----------------------------------------------------------------------------
(* What a step of a goroutine can change *)

\* The goroutine leaves its job or keeps it, with the record it has.
GorWorks(g) ==
    /\ gor'[g].job \in {gor[g].job, NoJob}
    /\ gor'[g].pc # "begin"
    /\ \/ gor'[g].rec.retryCount = gor[g].rec.retryCount /\ gor'[g].due = gor[g].due
       \/ gor'[g].rec = NoData /\ gor'[g].due = 0

OtherGors(g) == \A h \in Goroutines \ {g} : gor'[h] = gor[h]

\* A SET or DEL of the record of j, an entry of j or its row, and of nothing else.
OnlyJob(j) ==
    \A k \in Jobs \ {j} :
        /\ data'[k] = data[k] /\ due'[k] = due[k] /\ db'[k] = db[k]
        /\ \A w \in Workers : inflight'[w][k] = inflight[w][k]

KeepsData(j) == data'[j] = data[j] /\ due'[j] = due[j]

\* g works on the job it has.
WorkerWorks(g) ==
    /\ gor[g].job \in Jobs
    /\ GorWorks(g) /\ OtherGors(g) /\ OnlyJob(gor[g].job) /\ UNCHANGED ready
    /\ \/ KeepsData(gor[g].job)
       \/ data'[gor[g].job] = NoData
       \/ data'[gor[g].job] = gor[g].rec /\ due'[gor[g].job] = gor[g].due

\* g takes j, or only its entry when the record is gone or the reply lost.
WorkerTakes(g, j) ==
    /\ DequeueScript(PoolOf[g], j)
    /\ UNCHANGED db
    /\ gor[g].pc = "idle" /\ OtherGors(g)
    /\ \/ gor'[g] = gor[g]
       \/ /\ data[j] # NoData
          /\ gor'[g].job = j /\ gor'[g].rec = data[j] /\ gor'[g].due = due[j]

\* Moving on within processJob keeps the goroutine's job.
LEMMA GotoWorks ==
  ASSUME gor \in [Goroutines -> GorStates], NEW g \in Goroutines, NEW pc, pc # "begin", Goto(g, pc)
  PROVE  GorWorks(g) /\ OtherGors(g)
<1>1. gor[g] \in GorStates /\ gor'[g] = [gor[g] EXCEPT !.pc = pc] /\ OtherGors(g)
  BY DEF Goto, OtherGors
<1>2. /\ gor'[g].pc = pc /\ gor'[g].job = gor[g].job
      /\ gor'[g].rec = gor[g].rec /\ gor'[g].due = gor[g].due
  BY <1>1 DEF GorStates
<1> QED BY <1>1, <1>2 DEF GorWorks

\* Returning to the dequeue loop drops the job.
LEMMA IdleWorks ==
  ASSUME gor \in [Goroutines -> GorStates], NEW g \in Goroutines, gor' = [gor EXCEPT ![g] = Idle]
  PROVE  GorWorks(g) /\ OtherGors(g)
<1>1. gor'[g] = Idle /\ OtherGors(g)
  BY DEF OtherGors
<1> QED BY <1>1 DEF GorWorks, Idle

\* A handler's success keeps the goroutine's job.
LEMMA SucceedWorks ==
  ASSUME gor \in [Goroutines -> GorStates], NEW g \in Goroutines, HandlerSucceeds(g)
  PROVE  GorWorks(g) /\ OtherGors(g)
<1>1. gor'[g] = [Idle EXCEPT !.pc = "ackDel", !.job = gor[g].job] /\ OtherGors(g)
  BY DEF HandlerSucceeds, OtherGors
<1>2. gor'[g].pc = "ackDel" /\ gor'[g].job = gor[g].job /\ gor'[g].rec = NoData /\ gor'[g].due = 0
  BY <1>1 DEF Idle
<1> QED BY <1>1, <1>2 DEF GorWorks

\* Nack's update of the record keeps the goroutine's job.
LEMMA NackedWorks ==
  ASSUME gor \in [Goroutines -> GorStates], NEW g \in Goroutines, gor[g].rec \in Records,
         gor[g].rec.status # "failed", gor' = [gor EXCEPT ![g] = Nacked(@)]
  PROVE  GorWorks(g) /\ OtherGors(g)
<1>1. gor[g] \in GorStates /\ ~IsRetryable(gor[g].rec)
  BY DEF IsRetryable
<1> DEFINE R == [gor[g].rec EXCEPT !.status = "dead_letter"]
<1>2. R.retryCount = gor[g].rec.retryCount
  BY DEF Records
<1>3. gor'[g] = [gor[g] EXCEPT !.pc = "nackSet", !.left = 0, !.rec = R] /\ OtherGors(g)
  BY <1>1 DEF Nacked, GorStates, OtherGors
<1> HIDE DEF R
<1>4. gor'[g].pc = "nackSet" /\ gor'[g].job = gor[g].job /\ gor'[g].rec = R /\ gor'[g].due = gor[g].due
  BY <1>1, <1>3 DEF GorStates
<1> QED BY <1>2, <1>3, <1>4 DEF GorWorks

\* A step that only writes the row of j.
LEMMA RowOnly ==
  ASSUME StoreTypeOK, NEW j \in Jobs, UNCHANGED queueVars,
         UNCHANGED db \/ \E status, b : UpdateJobStatus(j, status, b)
  PROVE  OnlyJob(j) /\ KeepsData(j) /\ UNCHANGED ready
<1>1. \A k \in Jobs \ {j} : db'[k] = db[k]
  BY DEF StoreTypeOK, UpdateJobStatus
<1>2. UNCHANGED <<data, due, inflight, ready>>
  BY DEF queueVars
<1> QED BY <1>1, <1>2 DEF OnlyJob, KeepsData

\* ZREM on a processing set touches only that job.
LEMMA RemOnly ==
  ASSUME QueueTypeOK, NEW j \in Jobs, NEW w \in Workers, ZRemInflight(w, j), UNCHANGED db
  PROVE  OnlyJob(j) /\ KeepsData(j) /\ UNCHANGED ready
BY DEF ZRemInflight, QueueTypeOK, OnlyJob, KeepsData

\* What no worker step writes.
LEMMA WorkerFrames ==
  ASSUME NEW g \in Goroutines, WorkerNext(g)
  PROVE  UNCHANGED <<lock, api, mover, reclaimer, born, disturbed, delayed>>
<1>1. UNCHANGED <<lock, api, mover, reclaimer, born, disturbed>>
  BY DEF WorkerNext, WDequeue, WDequeueLost, WSucceed, WFail, WNackPush, WStep, WFault,
         coreVars, history
<1>2. UNCHANGED delayed
  BY DEF WorkerNext, WDequeue, WDequeueLost, WSucceed, WFail, WNackPush, WStep, WFault,
         Dequeue, DequeueLost, DequeueScript, HandlerSucceeds, HandlerFails, NackPush, Push,
         PushDLQ, BeginExecution, TimesOut, AckDel, DelData, AckRem, ZRemInflight,
         MarkCompleted, NackSet, Store, NackRem, MarkFailed, PipelineAborts, UpdateFails,
         queueVars
<1> QED BY <1>1, <1>2

\* A goroutine at work changes its own job's record, entry and row; only Dequeue
\* changes the ready lists, since Nack never sends a job back.
LEMMA WorkerShape ==
  ASSUME TypeInv, DeadInv, NEW g \in Goroutines, WorkerNext(g)
  PROVE  WorkerWorks(g) \/ \E j \in Jobs : WorkerTakes(g, j)
<1>0. /\ gor \in [Goroutines -> GorStates] /\ QueueTypeOK /\ StoreTypeOK /\ PoolOf[g] \in Workers
      /\ gor[g].pc # "idle" => gor[g].job \in Jobs
      /\ gor[g].pc \in {"begin", "run", "dbFail"} \cup NackPcs => gor[g].rec \in Records
      /\ gor[g].rec.status # "failed"
      /\ gor[g].pc \in NackPcs \cup {"dbFail"} => gor[g].rec.status = "dead_letter"
  BY StateTypes, PoolAssumption DEF TypeInv, TypeOK, BusyPool, DeadInv, DeadGor
<1>1. ASSUME NEW j \in Jobs, WDequeue(g, j) PROVE WorkerTakes(g, j)
  <2>1. DequeueScript(PoolOf[g], j) /\ UNCHANGED db /\ gor[g].pc = "idle"
    BY <1>1 DEF WDequeue, Dequeue
  <2>2. CASE data[j] = NoData
    <3>1. gor' = gor
      BY <1>1, <2>2 DEF WDequeue, Dequeue
    <3> QED BY <2>1, <3>1 DEF WorkerTakes, OtherGors
  <2>3. CASE data[j] # NoData
    <3> DEFINE h == [pc |-> "begin", job |-> j, rec |-> data[j], due |-> due[j], left |-> Timeout[j]]
    <3>1. gor' = [gor EXCEPT ![g] = h]
      BY <1>1, <2>3 DEF WDequeue, Dequeue
    <3>2. gor'[g] = h /\ OtherGors(g)
      BY <1>0, <3>1 DEF OtherGors
    <3>3. gor'[g].job = j /\ gor'[g].rec = data[j] /\ gor'[g].due = due[j]
      BY <3>2
    <3> QED BY <2>1, <2>3, <3>2, <3>3 DEF WorkerTakes
  <2> QED BY <2>2, <2>3
<1>2. ASSUME NEW j \in Jobs, WDequeueLost(g, j) PROVE WorkerTakes(g, j)
  BY <1>2 DEF WDequeueLost, DequeueLost, WorkerTakes, OtherGors
<1>3. ASSUME gor[g].pc # "idle", GorWorks(g) /\ OtherGors(g), UNCHANGED queueVars,
             UNCHANGED db \/ \E status, b : UpdateJobStatus(gor[g].job, status, b)
      PROVE  WorkerWorks(g)
  BY <1>0, <1>3, RowOnly DEF WorkerWorks
<1>4. CASE WSucceed(g)
  <2>1. HandlerSucceeds(g) /\ gor[g].pc = "run" /\ UNCHANGED queueVars /\ UNCHANGED db
    BY <1>4 DEF WSucceed, HandlerSucceeds
  <2>2. WorkerWorks(g)
    BY <1>0, <1>3, <2>1, SucceedWorks
  <2> QED BY <2>2
<1>5. ASSUME gor[g].pc = "run", gor' = [gor EXCEPT ![g] = Nacked(@)], UNCHANGED <<queueVars, db>>
      PROVE  WorkerWorks(g)
  <2>1. GorWorks(g) /\ OtherGors(g)
    BY <1>0, <1>5, NackedWorks
  <2> QED BY <1>3, <1>5, <2>1
<1>6. ASSUME WFail(g) PROVE WorkerWorks(g)
  BY <1>5, <1>6 DEF WFail, HandlerFails
<1>7. ASSUME WNackPush(g) PROVE WorkerWorks(g)
  <2>1. gor[g].pc = "nackPush" /\ gor[g].rec.status = "dead_letter"
    BY <1>0, <1>7 DEF WNackPush, NackPush, NackPcs
  <2>2. PushDLQ(gor[g].job) /\ Goto(g, "nackRem") /\ UNCHANGED db
    BY <1>7, <2>1 DEF WNackPush, NackPush
  <2>3. UNCHANGED <<data, due, inflight, ready>>
    BY <2>2 DEF PushDLQ
  <2>4. OnlyJob(gor[g].job) /\ KeepsData(gor[g].job)
    BY <2>2, <2>3 DEF OnlyJob, KeepsData
  <2>5. GorWorks(g) /\ OtherGors(g)
    BY <1>0, <2>2, GotoWorks
  <2> QED BY <1>0, <2>1, <2>3, <2>4, <2>5 DEF WorkerWorks
<1>8. ASSUME BeginExecution(g) PROVE WorkerWorks(g)
  <2>1. GorWorks(g) /\ OtherGors(g)
    BY <1>0, <1>8, GotoWorks DEF BeginExecution
  <2> QED BY <1>3, <1>8, <2>1 DEF BeginExecution
<1>9. ASSUME AckDel(g) PROVE WorkerWorks(g)
  <2>1. GorWorks(g) /\ OtherGors(g) /\ gor[g].job \in Jobs
    BY <1>0, <1>9, GotoWorks DEF AckDel
  <2>2. /\ data' = [data EXCEPT ![gor[g].job] = NoData]
        /\ UNCHANGED <<due, inflight, ready, db>>
    BY <1>9 DEF AckDel, DelData
  <2>3. data'[gor[g].job] = NoData /\ OnlyJob(gor[g].job)
    BY <1>0, <2>1, <2>2 DEF QueueTypeOK, OnlyJob
  <2> QED BY <2>1, <2>2, <2>3 DEF WorkerWorks
<1>10. ASSUME NackSet(g) PROVE WorkerWorks(g)
  <2>1. GorWorks(g) /\ OtherGors(g) /\ gor[g].job \in Jobs
    BY <1>0, <1>10, GotoWorks DEF NackSet
  <2>2. /\ data' = [data EXCEPT ![gor[g].job] = gor[g].rec]
        /\ due' = [due EXCEPT ![gor[g].job] = gor[g].due]
        /\ UNCHANGED <<inflight, ready, db>>
    BY <1>10 DEF NackSet, Store, Set
  <2>3. /\ data'[gor[g].job] = gor[g].rec /\ due'[gor[g].job] = gor[g].due
        /\ OnlyJob(gor[g].job)
    BY <1>0, <2>1, <2>2 DEF QueueTypeOK, OnlyJob
  <2> QED BY <2>1, <2>2, <2>3 DEF WorkerWorks
<1>11. ASSUME AckRem(g) \/ NackRem(g) PROVE WorkerWorks(g)
  <2>1. gor[g].job \in Jobs /\ ZRemInflight(PoolOf[g], gor[g].job) /\ UNCHANGED db
    BY <1>0, <1>11 DEF AckRem, NackRem
  <2>2. GorWorks(g) /\ OtherGors(g)
    BY <1>0, <1>11, GotoWorks DEF AckRem, NackRem
  <2>3. OnlyJob(gor[g].job) /\ KeepsData(gor[g].job) /\ UNCHANGED ready
    BY <1>0, <2>1, RemOnly
  <2> QED BY <2>1, <2>2, <2>3 DEF WorkerWorks
<1>12. ASSUME MarkCompleted(g) \/ MarkFailed(g) PROVE WorkerWorks(g)
  <2>1. GorWorks(g) /\ OtherGors(g)
    BY <1>0, <1>12, IdleWorks DEF MarkCompleted, MarkFailed
  <2>2. \E status, b : UpdateJobStatus(gor[g].job, status, b)
    BY <1>12 DEF MarkCompleted, MarkFailed
  <2> QED BY <1>3, <1>12, <2>1, <2>2 DEF MarkCompleted, MarkFailed
<1>13. ASSUME WStep(g) PROVE WorkerWorks(g)
  BY <1>5, <1>8, <1>9, <1>10, <1>11, <1>12, <1>13 DEF WStep, TimesOut
<1>14. ASSUME PipelineAborts(g) PROVE WorkerWorks(g)
  <2>1. PICK pc : Goto(g, pc) /\ pc # "begin"
    BY <1>14 DEF PipelineAborts
  <2>2. GorWorks(g) /\ OtherGors(g)
    BY <1>0, <2>1, GotoWorks
  <2> QED BY <1>3, <1>14, <2>2 DEF PipelineAborts, AckPcs, NackPcs
<1>15. ASSUME UpdateFails(g) PROVE WorkerWorks(g)
  <2>1. gor[g].pc \in {"begin", "dbDone", "dbFail"} /\ UNCHANGED queueVars /\ UNCHANGED db
    BY <1>15 DEF UpdateFails
  <2>2. CASE gor[g].pc = "begin"
    <3>1. Goto(g, "run")
      BY <1>0, <1>15, <2>2 DEF UpdateFails, Goto
    <3>2. GorWorks(g) /\ OtherGors(g)
      BY <1>0, <3>1, GotoWorks
    <3> QED BY <1>3, <2>1, <3>2
  <2>3. CASE gor[g].pc # "begin"
    <3>1. gor' = [gor EXCEPT ![g] = Idle]
      BY <1>0, <1>15, <2>3 DEF UpdateFails
    <3>2. GorWorks(g) /\ OtherGors(g)
      BY <1>0, <3>1, IdleWorks
    <3> QED BY <1>3, <2>1, <3>2
  <2> QED BY <2>2, <2>3
<1>16. ASSUME WFault(g) PROVE WorkerWorks(g)
  BY <1>14, <1>15, <1>16 DEF WFault
<1> QED BY <1>1, <1>2, <1>4, <1>6, <1>7, <1>13, <1>16 DEF WorkerNext

-----------------------------------------------------------------------------
(* What a step of a delayed-job loop does to the jobs it has read *)

OtherMovers(s) == \A t \in Schedulers \ {s} : mover'[t] = mover[t]

\* Acquiring the lock only moves the pass on to its scan.
LEMMA AcquireMover ==
  ASSUME TypeInv, NEW s \in Schedulers, MoverAcquire(s)
  PROVE  /\ OtherMovers(s) /\ mover'[s].pc = "scan" /\ mover'[s].todo = mover[s].todo
         /\ mover'[s].moves = mover[s].moves /\ mover'[s].job = mover[s].job
<1>1. mover \in [Schedulers -> MoverStates] /\ mover[s] \in MoverStates
  BY StateTypes
<1>2. mover'[s] = [mover[s] EXCEPT !.pc = "scan"] /\ OtherMovers(s)
  BY <1>1 DEF MoverAcquire, OtherMovers
<1> QED BY <1>1, <1>2 DEF MoverStates

\* The scan takes a batch of due members.
LEMMA ScanMover ==
  ASSUME TypeInv, NEW s \in Schedulers, NEW B \in Batches, MoverScan(s, B)
  PROVE  /\ OtherMovers(s) /\ mover'[s].pc \in {"release", "get"} /\ mover'[s].todo = B
         /\ mover'[s].moves = mover[s].moves /\ mover'[s].job = mover[s].job
<1>1. mover \in [Schedulers -> MoverStates] /\ mover[s] \in MoverStates
  BY StateTypes
<1>2. /\ mover'[s] = [mover[s] EXCEPT !.pc = IF B = {} THEN "release" ELSE "get", !.todo = B]
      /\ OtherMovers(s)
  BY <1>1 DEF MoverScan, OtherMovers
<1> QED BY <1>1, <1>2 DEF MoverStates

\* HGET moves a candidate into the pipeline or drops it.
LEMMA GetMover ==
  ASSUME TypeInv, NEW s \in Schedulers, NEW j \in Jobs, NEW found \in BOOLEAN, MoverGet(s, j, found)
  PROVE  /\ OtherMovers(s)
         /\ mover'[s].pc = "get" \/ (mover'[s].pc = "exec" /\ mover'[s].todo = {})
         /\ j \in mover[s].todo
         /\ mover'[s].todo \subseteq mover[s].todo
         /\ mover'[s].moves \subseteq mover[s].moves \cup {j} /\ mover'[s].job = mover[s].job
<1>1. mover \in [Schedulers -> MoverStates] /\ mover[s] \in MoverStates
  BY StateTypes
<1> DEFINE T == mover[s].todo \ {j}
           M == mover[s].moves \cup (IF found THEN {j} ELSE {})
           D == mover[s].drops \cup (IF found THEN {} ELSE {j})
           P == IF mover[s].todo = {j} THEN "exec" ELSE "get"
<1>2. mover'[s] = [mover[s] EXCEPT !.pc = P, !.todo = T, !.moves = M, !.drops = D] /\ OtherMovers(s)
  BY <1>1 DEF MoverGet, OtherMovers
<1>3. j \in mover[s].todo /\ (P = "get" \/ (P = "exec" /\ T = {})) /\ M \subseteq mover[s].moves \cup {j}
  BY DEF MoverGet
<1>4. T \subseteq mover[s].todo
  OBVIOUS
<1> HIDE DEF T, M, D, P
<1>5. mover'[s].pc = P /\ mover'[s].todo = T /\ mover'[s].moves = M /\ mover'[s].job = mover[s].job
  BY <1>1, <1>2 DEF MoverStates
<1> QED BY <1>2, <1>3, <1>4, <1>5

\* The pipeline's LPUSH takes one job out of the moves.
LEMMA PushMover ==
  ASSUME TypeInv, NEW s \in Schedulers, NEW j \in Jobs, MoverPush(s, j)
  PROVE  /\ OtherMovers(s) /\ mover'[s].pc = "rem" /\ mover'[s].job = j /\ j \in mover[s].moves
         /\ mover'[s].todo = mover[s].todo /\ mover'[s].moves = mover[s].moves \ {j}
<1>1. mover \in [Schedulers -> MoverStates] /\ mover[s] \in MoverStates
  BY StateTypes
<1> DEFINE M == mover[s].moves \ {j}
<1>2. mover'[s] = [mover[s] EXCEPT !.pc = "rem", !.job = j, !.moves = M] /\ OtherMovers(s)
  BY <1>1 DEF MoverPush, OtherMovers
<1>3. j \in mover[s].moves
  BY DEF MoverPush
<1> QED BY <1>1, <1>2, <1>3 DEF MoverStates

\* The pipeline's ZREM ends the move of one job.
LEMMA RemMover ==
  ASSUME TypeInv, NEW s \in Schedulers, MoverRem(s)
  PROVE  /\ OtherMovers(s) /\ mover'[s].pc = "exec" /\ mover'[s].job = NoJob
         /\ mover'[s].todo = mover[s].todo /\ mover'[s].moves = mover[s].moves
<1>1. mover \in [Schedulers -> MoverStates] /\ mover[s] \in MoverStates
  BY StateTypes
<1>2. mover'[s] = [mover[s] EXCEPT !.pc = "exec", !.job = NoJob] /\ OtherMovers(s)
  BY <1>1 DEF MoverRem, OtherMovers
<1> QED BY <1>1, <1>2 DEF MoverStates

\* Removing a dead member leaves the pass where it is.
LEMMA DropMover ==
  ASSUME TypeInv, NEW s \in Schedulers, NEW j \in Jobs, MoverDrop(s, j)
  PROVE  /\ OtherMovers(s) /\ mover'[s].pc = mover[s].pc /\ mover'[s].job = mover[s].job
         /\ mover'[s].todo = mover[s].todo /\ mover'[s].moves = mover[s].moves
<1>1. mover \in [Schedulers -> MoverStates] /\ mover[s] \in MoverStates
  BY StateTypes
<1> DEFINE D == mover[s].drops \ {j}
<1>2. mover'[s] = [mover[s] EXCEPT !.drops = D] /\ OtherMovers(s)
  BY <1>1 DEF MoverDrop, OtherMovers
<1> HIDE DEF D
<1> QED BY <1>1, <1>2 DEF MoverStates

\* Release, abort and crash leave a pass with nothing to do.
LEMMA EmptyMover ==
  ASSUME TypeInv, NEW s \in Schedulers, MoverRelease(s) \/ MoverAborts(s) \/ CrashScheduler(s)
  PROVE  /\ OtherMovers(s) /\ mover'[s].pc \in {"idle", "release"} /\ mover'[s].job = NoJob
         /\ mover'[s].todo = {} /\ mover'[s].moves = {}
<1>1. mover \in [Schedulers -> MoverStates]
  BY StateTypes
<1>2. OtherMovers(s)
  BY <1>1 DEF MoverRelease, MoverAborts, CrashScheduler, OtherMovers
<1>3. CASE MoverRelease(s) \/ CrashScheduler(s)
  <2>1. mover'[s] = IdleMover
    BY <1>1, <1>3 DEF MoverRelease, CrashScheduler
  <2> QED BY <1>2, <2>1 DEF IdleMover
<1>4. CASE MoverAborts(s)
  <2> DEFINE P == IF mover[s].pc = "release" THEN "idle" ELSE "release"
  <2>1. mover'[s] = [IdleMover EXCEPT !.pc = P]
    BY <1>1, <1>4 DEF MoverAborts
  <2>2. P \in {"idle", "release"}
    OBVIOUS
  <2> HIDE DEF P
  <2> QED BY <1>2, <2>1, <2>2 DEF IdleMover
<1> QED BY <1>3, <1>4

\* Loop steps that concern the reclaimer alone leave the mover and the delayed set alone.
LEMMA OtherLoopSteps ==
  ASSUME NEW s \in Schedulers,
         MoverAcquireLost(s) \/ LReclaim(s) \/ LReclaimPush(s) \/ LCardFails(s) \/ ReclaimAborts(s)
           \/ \E j \in Jobs : ReclaimGet(s, j, FALSE)
  PROVE  UNCHANGED mover /\ UNCHANGED delayed
BY DEF MoverAcquireLost, LReclaim, LReclaimPush, LCardFails, ReclaimAborts, ReclaimStart, ReclaimKey,
       ReclaimGet, ReclaimSet, ReclaimPush, ReclaimRem, ReclaimCard, ReclaimCardFails, ReclaimDel,
       reclaimFrame, queueVars, Store, Push, ZRemInflight, DelInflight

\* A pass takes jobs from the delayed set that are due, and pushes jobs it has read.
MoverMoves(s) ==
    /\ OtherMovers(s)
    /\ mover'[s].todo \subseteq mover[s].todo \cup DueJobs
    /\ mover'[s].moves \subseteq mover[s].moves \cup mover[s].todo
    /\ mover'[s].job \in mover[s].moves \cup {mover[s].job, NoJob}

\* What any step of a scheduler's loops does to its mover.
LEMMA MoverShape ==
  ASSUME TypeInv, NEW s \in Schedulers, LoopNext(s)
  PROVE  MoverMoves(s)
<1>1. ASSUME LMove(s) PROVE MoverMoves(s)
  <2>1. ASSUME MoverAcquire(s) PROVE MoverMoves(s)
    BY <2>1, AcquireMover DEF MoverMoves
  <2>2. ASSUME NEW B \in Batches, MoverScan(s, B) PROVE MoverMoves(s)
    BY <2>2, ScanMover DEF MoverMoves, Batches
  <2>3. ASSUME NEW j \in Jobs, MoverGet(s, j, data[j] # NoData) PROVE MoverMoves(s)
    <3>1. (data[j] # NoData) \in BOOLEAN
      OBVIOUS
    <3> QED BY <2>3, <3>1, GetMover DEF MoverMoves
  <2>4. ASSUME NEW j \in Jobs, MoverPush(s, j) PROVE MoverMoves(s)
    BY <2>4, PushMover DEF MoverMoves
  <2>5. ASSUME NEW j \in Jobs, MoverDrop(s, j) PROVE MoverMoves(s)
    BY <2>5, DropMover DEF MoverMoves
  <2>6. ASSUME MoverRem(s) PROVE MoverMoves(s)
    BY <2>6, RemMover DEF MoverMoves
  <2>7. ASSUME MoverRelease(s) PROVE MoverMoves(s)
    BY <2>7, EmptyMover DEF MoverMoves
  <2> QED BY <1>1, <2>1, <2>2, <2>3, <2>4, <2>5, <2>6, <2>7 DEF LMove
<1>2. ASSUME UNCHANGED mover PROVE MoverMoves(s)
  BY <1>2 DEF MoverMoves, OtherMovers
<1>3. ASSUME NEW j \in Jobs, LGetFails(s, j) PROVE MoverMoves(s)
  <2>1. CASE MoverGet(s, j, FALSE)
    BY <2>1, GetMover DEF MoverMoves
  <2>2. CASE ReclaimGet(s, j, FALSE)
    BY <1>2, <2>2, OtherLoopSteps
  <2> QED BY <1>3, <2>1, <2>2 DEF LGetFails
<1>4. ASSUME LFault(s) PROVE MoverMoves(s)
  <2>1. ASSUME MoverAborts(s) PROVE MoverMoves(s)
    BY <2>1, EmptyMover DEF MoverMoves
  <2> QED BY <1>2, <1>4, <2>1, OtherLoopSteps DEF LFault
<1>5. ASSUME LCrash(s) PROVE MoverMoves(s)
  BY <1>5, EmptyMover DEF LCrash, MoverMoves
<1> QED BY <1>1, <1>2, <1>3, <1>4, <1>5, OtherLoopSteps DEF LoopNext

\* The loops push jobs that the mover has read or the reclaimer holds, and otherwise
\* only take entries out of the sets of Redis.
LEMMA LoopSets ==
  ASSUME TypeInv, NEW s \in Schedulers, LoopNext(s)
  PROVE  /\ \/ UNCHANGED ready
            \/ \E k \in Jobs : LPush(k) /\ (k \in mover[s].moves \/ k = reclaimer[s].job)
         /\ \A j \in Jobs : delayed'[j] \in {delayed[j], Absent}
         /\ \A j \in Jobs : \A w \in Workers : inflight'[w][j] \in {inflight[w][j], Absent}
<1>0. /\ QueueTypeOK
      /\ mover[s].pc = "rem" => mover[s].job \in Jobs
      /\ reclaimer[s].pc \notin {"idle", "scan"} => reclaimer[s].key \in Workers
      /\ reclaimer[s].pc \in {"set", "push", "rem", "drop"} => reclaimer[s].job \in Jobs
  BY DEF TypeInv, TypeOK, BusyCore
<1>1. \/ UNCHANGED ready
      \/ \E k \in Jobs : LPush(k) /\ (k \in mover[s].moves \/ k = reclaimer[s].job)
  BY <1>0
     DEF LoopNext, LMove, LReclaim, LReclaimPush, LGetFails, LCardFails, LFault, LCrash,
       MoverAcquire, MoverScan, MoverGet, MoverPush, MoverDrop, MoverRem, MoverRelease,
       MoverAborts, MoverAcquireLost, ReclaimStart, ReclaimKey, ReclaimGet, ReclaimSet,
       ReclaimPush, ReclaimRem, ReclaimCard, ReclaimCardFails, ReclaimDel, ReclaimAborts,
       CrashScheduler, queueVars, Push, Store, ZRemDelayed, ZRemInflight, DelInflight
<1>2. \/ UNCHANGED delayed
      \/ \E k \in Jobs : ZRemDelayed(k)
  BY <1>0
     DEF LoopNext, LMove, LReclaim, LReclaimPush, LGetFails, LCardFails, LFault, LCrash,
       MoverAcquire, MoverScan, MoverGet, MoverPush, MoverDrop, MoverRem, MoverRelease,
       MoverAborts, MoverAcquireLost, ReclaimStart, ReclaimKey, ReclaimGet, ReclaimSet,
       ReclaimPush, ReclaimRem, ReclaimCard, ReclaimCardFails, ReclaimDel, ReclaimAborts,
       CrashScheduler, queueVars, Push, Store, ZRemInflight, DelInflight
<1>3. \/ UNCHANGED inflight
      \/ \E k \in Jobs, w \in Workers : ZRemInflight(w, k)
      \/ \E w \in Workers : DelInflight(w)
  BY <1>0
     DEF LoopNext, LMove, LReclaim, LReclaimPush, LGetFails, LCardFails, LFault, LCrash,
       MoverAcquire, MoverScan, MoverGet, MoverPush, MoverDrop, MoverRem, MoverRelease,
       MoverAborts, MoverAcquireLost, ReclaimStart, ReclaimKey, ReclaimGet, ReclaimSet,
       ReclaimPush, ReclaimRem, ReclaimCard, ReclaimCardFails, ReclaimDel, ReclaimAborts,
       CrashScheduler, queueVars, Push, Store, ZRemDelayed
<1>4. \A j \in Jobs : delayed'[j] \in {delayed[j], Absent}
  BY <1>0, <1>2 DEF ZRemDelayed, QueueTypeOK
<1>5. \A j \in Jobs : \A w \in Workers : inflight'[w][j] \in {inflight[w][j], Absent}
  <2>1. ASSUME NEW k \in Jobs, NEW v \in Workers, ZRemInflight(v, k)
        PROVE  \A j \in Jobs : \A w \in Workers : inflight'[w][j] \in {inflight[w][j], Absent}
    BY <1>0, <2>1 DEF ZRemInflight, QueueTypeOK
  <2>2. ASSUME NEW v \in Workers, DelInflight(v)
        PROVE  \A j \in Jobs : \A w \in Workers : inflight'[w][j] \in {inflight[w][j], Absent}
    BY <1>0, <2>2 DEF DelInflight, QueueTypeOK
  <2> QED BY <1>3, <2>1, <2>2
<1> QED BY <1>1, <1>4, <1>5

-----------------------------------------------------------------------------
(* What a step of a request can change *)

OtherRequests(r) == \A q \in Requests \ {r} : api'[q] = api[q]

\* The request ends, or goes from EvalSha to Eval with the routing of EvalSha.
RequestErrs(r) ==
    \/ api'[r] = IdleApi
    \/ /\ api[r].pc = "enqueue"
       /\ api'[r].pc \in {"evalReady", "evalDelayed"}
       /\ api'[r].pc = "evalReady" => api[r].wait = 0
       /\ api'[r].op = api[r].op /\ api'[r].job = api[r].job /\ api'[r].wait = api[r].wait

RequestSubmits(r, j) ==
    /\ j \notin born /\ born' = born \cup {j}
    /\ UNCHANGED <<data, due, ready, delayed, disturbed>>
    /\ api'[r].pc = "enqueue" /\ api'[r].job = j
    /\ \A k \in Jobs : db'[k].hasWorker => db[k].hasWorker

RequestEnters(r) ==
    /\ api[r].pc \in EnqueuePcs
    /\ EnqueueScript(api[r].job, NewJob, api[r].wait, ToReady(api[r]))
    /\ UNCHANGED <<db, born>>
    /\ RequestErrs(r)
    /\ disturbed \subseteq disturbed'
    /\ api[r].job \in disturbed' \/ (api[r].op # "retry" /\ api'[r] = IdleApi)

\* A request of the client on a job that has been run before.
RequestClaims(r) ==
    /\ api'[r].pc \in {"retryUpdate", "delete"} /\ api'[r].wait = 0
    /\ api'[r].pc = "retryUpdate" => api'[r].op = "retry"
    /\ db[api'[r].job].hasWorker

RequestGoesOn(r) ==
    /\ api[r].pc = "retryUpdate" /\ api'[r].pc = "enqueue"
    /\ api'[r].op = api[r].op /\ api'[r].job = api[r].job /\ api'[r].wait = api[r].wait

RequestWorks(r) ==
    /\ UNCHANGED <<data, due, ready, delayed, born, disturbed>>
    /\ \A k \in Jobs : db'[k].hasWorker => db[k].hasWorker
    /\ \/ api[r].pc \in EnqueuePcs /\ RequestErrs(r)
       \/ api'[r] = IdleApi
       \/ RequestClaims(r)
       \/ RequestGoesOn(r)

\* An error keeps the request at its job or ends it.
LEMMA ErrorRequest ==
  ASSUME TypeInv, NEW r \in Requests, api' = [api EXCEPT ![r] = AfterError(@)]
  PROVE  RequestErrs(r) /\ OtherRequests(r)
<1>1. api \in [Requests -> ApiStates] /\ api[r] \in ApiStates
  BY StateTypes
<1>2. api'[r] = AfterError(api[r]) /\ OtherRequests(r)
  BY <1>1 DEF OtherRequests
<1>3. CASE api[r].pc # "enqueue"
  BY <1>2, <1>3 DEF AfterError, RequestErrs
<1>4. CASE api[r].pc = "enqueue"
  <2> DEFINE P == IF api[r].wait = 0 THEN "evalReady" ELSE "evalDelayed"
  <2>1. api'[r] = [api[r] EXCEPT !.pc = P]
    BY <1>2, <1>4 DEF AfterError
  <2>2. P \in {"evalReady", "evalDelayed"} /\ (P = "evalReady" => api[r].wait = 0)
    OBVIOUS
  <2> HIDE DEF P
  <2>3. /\ api'[r].pc = P /\ api'[r].op = api[r].op
        /\ api'[r].job = api[r].job /\ api'[r].wait = api[r].wait
    BY <1>1, <2>1 DEF ApiStates
  <2> QED BY <1>2, <1>4, <2>2, <2>3 DEF RequestErrs
<1> QED BY <1>3, <1>4

\* Answering the client ends the request.
LEMMA IdleRequest ==
  ASSUME TypeInv, NEW r \in Requests, api' = [api EXCEPT ![r] = IdleApi]
  PROVE  api'[r] = IdleApi /\ RequestErrs(r) /\ OtherRequests(r)
BY StateTypes DEF RequestErrs, OtherRequests

\* UPDATE and DELETE never give a row a worker without withWorkerID.
LEMMA RowKeepsWorker ==
  ASSUME StoreTypeOK, NEW j \in Jobs, NEW status,
         UpdateJobStatus(j, status, FALSE) \/ DeleteRow(j) \/ CreateJob(j)
  PROVE  \A k \in Jobs : db'[k].hasWorker => db[k].hasWorker
<1> SUFFICES ASSUME NEW k \in Jobs, db'[k].hasWorker PROVE db[k].hasWorker
  OBVIOUS
<1>1. CASE UpdateJobStatus(j, status, FALSE)
  <2>1. \/ db'[k] = db[k]
        \/ k = j /\ db'[k] = [status |-> status, hasWorker |-> db[k].hasWorker \/ FALSE]
    BY <1>1 DEF UpdateJobStatus, StoreTypeOK
  <2>2. CASE db'[k] = db[k]
    BY <2>2
  <2>3. CASE db'[k] = [status |-> status, hasWorker |-> db[k].hasWorker \/ FALSE]
    <3> DEFINE b == db[k].hasWorker \/ FALSE
    <3>1. b => db[k].hasWorker
      OBVIOUS
    <3>2. db'[k] = [status |-> status, hasWorker |-> b]
      BY <2>3
    <3> HIDE DEF b
    <3>3. db'[k].hasWorker = b
      BY <3>2
    <3> QED BY <3>1, <3>3
  <2> QED BY <2>1, <2>2, <2>3
<1>2. CASE DeleteRow(j)
  <2>1. db'[k] = db[k] \/ db'[k] = NoRow
    BY <1>2 DEF DeleteRow, StoreTypeOK
  <2> QED BY <2>1 DEF NoRow
<1>3. CASE CreateJob(j)
  <2>1. db'[k] = db[k] \/ db'[k] = [status |-> NewJob.status, hasWorker |-> FALSE]
    BY <1>3 DEF CreateJob, StoreTypeOK
  <2> QED BY <2>1
<1> QED BY <1>1, <1>2, <1>3

\* What no request step writes.
LEMMA RequestFrames ==
  ASSUME NEW r \in Requests, RequestNext(r)
  PROVE  UNCHANGED <<gor, mover, reclaimer, inflight, lock>>
BY DEF RequestNext, ARetry, Retry, ASubmit, Submit, AEnqueue, Enqueue, AEnqueueReplyLost,
       EnqueueReplyLost, EnqueueScript, Entered, AStep, RetryUpdate, DeleteJob, Delete, AFault,
       EnqueueFails, StatementFails, queueVars

\* A request enters its job into the queue, works on it, or submits a new one.
LEMMA RequestShape ==
  ASSUME TypeInv, NEW r \in Requests, RequestNext(r)
  PROVE  /\ OtherRequests(r)
         /\ RequestEnters(r) \/ RequestWorks(r) \/ \E j \in Jobs : RequestSubmits(r, j)
<1>0. api \in [Requests -> ApiStates] /\ api[r] \in ApiStates /\ StoreTypeOK
      /\ (api[r].pc # "idle" => api[r].job \in Jobs)
  BY StateTypes DEF TypeInv, TypeOK, BusyCore
<1>1. ASSUME NEW j \in Jobs, ARetry(r, j) PROVE RequestWorks(r) /\ OtherRequests(r)
  <2>1. /\ UNCHANGED <<data, due, ready, delayed, born, disturbed, db>> /\ Readable(j)
        /\ api' = [api EXCEPT ![r] = [pc |-> "retryUpdate", op |-> "retry", job |-> j, wait |-> 0]]
    BY <1>1 DEF ARetry, Retry, queueVars
  <2>2. /\ api'[r] = [pc |-> "retryUpdate", op |-> "retry", job |-> j, wait |-> 0]
        /\ OtherRequests(r)
    BY <1>0, <2>1 DEF OtherRequests
  <2>3. RequestClaims(r)
    BY <2>1, <2>2 DEF RequestClaims, Readable
  <2> QED BY <2>1, <2>2, <2>3 DEF RequestWorks
<1>2. ASSUME NEW j \in Jobs, NEW wait \in Delays, ASubmit(r, j, wait)
      PROVE  RequestSubmits(r, j) /\ OtherRequests(r)
  <2>1. /\ UNCHANGED <<data, due, ready, delayed, disturbed>> /\ CreateJob(j)
        /\ j \notin born /\ born' = born \cup {j}
        /\ api' = [api EXCEPT ![r] = [pc |-> "enqueue", op |-> "submit", job |-> j, wait |-> wait]]
    BY <1>2 DEF ASubmit, Submit, queueVars
  <2>2. /\ api'[r] = [pc |-> "enqueue", op |-> "submit", job |-> j, wait |-> wait]
        /\ OtherRequests(r)
    BY <1>0, <2>1 DEF OtherRequests
  <2>3. \A k \in Jobs : db'[k].hasWorker => db[k].hasWorker
    BY <1>0, <2>1, RowKeepsWorker
  <2>4. api'[r].pc = "enqueue" /\ api'[r].job = j
    BY <2>2
  <2> QED BY <2>1, <2>2, <2>3, <2>4 DEF RequestSubmits
<1>3. ASSUME AEnqueue(r) PROVE RequestEnters(r) /\ OtherRequests(r)
  <2>1. /\ api[r].pc \in EnqueuePcs /\ UNCHANGED <<db, born>>
        /\ EnqueueScript(api[r].job, NewJob, api[r].wait, ToReady(api[r]))
        /\ api' = [api EXCEPT ![r] = IdleApi]
    BY <1>3 DEF AEnqueue, Enqueue, Entered
  <2>2. disturbed \subseteq disturbed' /\ (api[r].op = "retry" => api[r].job \in disturbed')
    BY <1>3 DEF AEnqueue
  <2>3. api'[r] = IdleApi /\ RequestErrs(r) /\ OtherRequests(r)
    BY <2>1, IdleRequest
  <2> QED BY <2>1, <2>2, <2>3 DEF RequestEnters
<1>4. ASSUME AEnqueueReplyLost(r) PROVE RequestEnters(r) /\ OtherRequests(r)
  <2>1. /\ api[r].pc \in EnqueuePcs /\ UNCHANGED <<db, born>>
        /\ EnqueueScript(api[r].job, NewJob, api[r].wait, ToReady(api[r]))
        /\ api' = [api EXCEPT ![r] = AfterError(@)]
        /\ disturbed' = disturbed \cup {api[r].job}
    BY <1>4 DEF AEnqueueReplyLost, EnqueueReplyLost, Entered
  <2>2. RequestErrs(r) /\ OtherRequests(r)
    BY <2>1, ErrorRequest
  <2> QED BY <2>1, <2>2 DEF RequestEnters
<1>5. ASSUME RetryUpdate(r), UNCHANGED <<gor, history>> PROVE RequestWorks(r) /\ OtherRequests(r)
  <2>1. UNCHANGED <<data, due, ready, delayed, born, disturbed>> /\ api[r].pc = "retryUpdate"
    BY <1>5 DEF RetryUpdate, queueVars, history
  <2>2. \A k \in Jobs : db'[k].hasWorker => db[k].hasWorker
    BY <1>0, <1>5, RowKeepsWorker DEF RetryUpdate
  <2>3. CASE Exists(api[r].job)
    <3>1. api'[r] = [api[r] EXCEPT !.pc = "enqueue"] /\ OtherRequests(r)
      BY <1>0, <1>5, <2>3 DEF RetryUpdate, OtherRequests
    <3>2. RequestGoesOn(r)
      BY <1>0, <2>1, <3>1 DEF RequestGoesOn, ApiStates
    <3> QED BY <2>1, <2>2, <3>1, <3>2 DEF RequestWorks
  <2>4. CASE ~Exists(api[r].job)
    <3>1. api' = [api EXCEPT ![r] = IdleApi]
      BY <1>0, <1>5, <2>4 DEF RetryUpdate
    <3> QED BY <2>1, <2>2, <3>1, IdleRequest DEF RequestWorks
  <2> QED BY <2>3, <2>4
<1>6. ASSUME DeleteJob(r), UNCHANGED <<gor, history>> PROVE RequestWorks(r) /\ OtherRequests(r)
  <2>1. UNCHANGED <<data, due, ready, delayed, born, disturbed>>
    BY <1>6 DEF DeleteJob, queueVars, history
  <2>2. \A k \in Jobs : db'[k].hasWorker => db[k].hasWorker
    BY <1>0, <1>6, RowKeepsWorker DEF DeleteJob
  <2> QED BY <1>6, <2>1, <2>2, IdleRequest DEF DeleteJob, RequestWorks
<1>7. ASSUME NEW j \in Jobs, Delete(r, j), UNCHANGED <<gor, history>>
      PROVE  RequestWorks(r) /\ OtherRequests(r)
  <2>1. /\ UNCHANGED <<data, due, ready, delayed, born, disturbed, db>> /\ Readable(j)
        /\ api' = [api EXCEPT ![r] = [pc |-> "delete", op |-> "delete", job |-> j, wait |-> 0]]
    BY <1>7 DEF Delete, queueVars, history
  <2>2. /\ api'[r] = [pc |-> "delete", op |-> "delete", job |-> j, wait |-> 0]
        /\ OtherRequests(r)
    BY <1>0, <2>1 DEF OtherRequests
  <2>3. RequestClaims(r)
    BY <2>1, <2>2 DEF RequestClaims, Readable
  <2> QED BY <2>1, <2>2, <2>3 DEF RequestWorks
<1>8. ASSUME AFault(r) PROVE RequestWorks(r) /\ OtherRequests(r)
  <2>1. UNCHANGED <<data, due, ready, delayed, born, disturbed, db>>
    BY <1>8 DEF AFault, EnqueueFails, StatementFails, queueVars
  <2>2. CASE EnqueueFails(r)
    <3>1. RequestErrs(r) /\ OtherRequests(r) /\ api[r].pc \in EnqueuePcs
      BY <2>2, ErrorRequest DEF EnqueueFails
    <3> QED BY <2>1, <3>1 DEF RequestWorks
  <2>3. CASE StatementFails(r)
    <3>1. api'[r] = IdleApi /\ OtherRequests(r)
      BY <2>3, IdleRequest DEF StatementFails
    <3> QED BY <2>1, <3>1 DEF RequestWorks
  <2> QED BY <1>8, <2>2, <2>3 DEF AFault
<1>9. ASSUME AStep(r) PROVE RequestWorks(r) /\ OtherRequests(r)
  BY <1>5, <1>6, <1>7, <1>9 DEF AStep
<1> QED BY <1>1, <1>2, <1>3, <1>4, <1>8, <1>9 DEF RequestNext

-----------------------------------------------------------------------------
(* A job whose ScheduledAt lies ahead.  NotBeforeScheduled is not          *)
(* inductive: such a job must be out of every thread's reach.              *)

\* Nothing but the delayed set and a request that enqueues knows of j.
QuietQueue(j) == ReadyAt(j) = {} /\ \A w \in Workers : inflight[w][j] = Absent
QuietPool(j) == ~db[j].hasWorker /\ \A g \in Goroutines : gor[g].job # j
QuietLoops(j) ==
    \A s \in Schedulers :
        /\ j \notin mover[s].todo /\ j \notin mover[s].moves /\ mover[s].job # j
        /\ j \notin reclaimer[s].todo /\ reclaimer[s].job # j
Quiet(j) == QuietQueue(j) /\ QuietPool(j) /\ QuietLoops(j)

NotSooner(j, n) == delayed[j] = Absent \/ delayed[j] >= n

\* Nothing happens to a job before it is submitted.
UnbornInv(j) ==
    j \notin born => /\ Quiet(j) /\ delayed[j] = Absent /\ data[j] = NoData
                     /\ \A r \in Requests : api[r].job # j

\* A job never requeued and not yet due is quiet, and its score is not too low.
Ahead(j) == data[j] # NoData /\ data[j].retryCount = 0 /\ due[j] > 0
AheadInv(j) == Ahead(j) => Quiet(j) /\ NotSooner(j, due[j])

\* So is a job that a request is still enqueuing, and no other request is about it.
Patient(r) == api[r].pc \in EnqueuePcs /\ api[r].wait > 0
PatientInv(r) ==
    /\ Patient(r) => /\ Quiet(api[r].job) /\ NotSooner(api[r].job, api[r].wait)
                     /\ api[r].pc # "evalReady"
                     /\ \A q \in Requests \ {r} : api[q].job # api[r].job
    /\ api[r].pc = "retryUpdate" => api[r].wait = 0

DueInv(g) == gor[g].rec.retryCount = 0 => gor[g].due = 0
RequeueInv(s) == reclaimer[s].pc = "set" => reclaimer[s].rec.retryCount > 0

WaitInv ==
    /\ Home
    /\ \A j \in Jobs : UnbornInv(j) /\ AheadInv(j)
    /\ \A r \in Requests : PatientInv(r)
    /\ \A g \in Goroutines : DueInv(g)
    /\ \A s \in Schedulers : RequeueInv(s)

\* A goroutine takes and touches no quiet job.
LEMMA WorkerQuiet ==
  ASSUME TypeInv, DeadInv, WaitInv, NEW g \in Goroutines, WorkerNext(g), NEW j \in Jobs, Quiet(j)
  PROVE  Quiet(j)' /\ data'[j] = data[j] /\ due'[j] = due[j]
<1>0. UNCHANGED <<mover, reclaimer>> /\ QueueTypeOK /\ Home /\ PoolOf[g] \in Workers
  BY WorkerFrames, PoolAssumption DEF TypeInv, TypeOK, WaitInv
<1>1. /\ ReadyAt(j) = {} /\ \A w \in Workers : inflight[w][j] = Absent
      /\ ~db[j].hasWorker /\ \A h \in Goroutines : gor[h].job # j
  BY DEF Quiet, QuietQueue, QuietPool
<1>2. QuietLoops(j)'
  BY <1>0 DEF Quiet, QuietLoops
<1>3. CASE WorkerWorks(g)
  <2>1. /\ data'[j] = data[j] /\ due'[j] = due[j] /\ db'[j] = db[j]
        /\ \A w \in Workers : inflight'[w][j] = inflight[w][j]
    BY <1>1, <1>3 DEF WorkerWorks, OnlyJob
  <2>2. \A h \in Goroutines : gor'[h].job # j
    BY <1>1, <1>3, JobAssumption DEF WorkerWorks, GorWorks, OtherGors
  <2>3. ReadyAt(j)' = {}
    BY <1>1, <1>3 DEF WorkerWorks, ReadyAt
  <2> QED BY <1>1, <1>2, <2>1, <2>2, <2>3 DEF Quiet, QuietQueue, QuietPool
<1>4. ASSUME NEW k \in Jobs, WorkerTakes(g, k) PROVE Quiet(j)' /\ data'[j] = data[j] /\ due'[j] = due[j]
  <2>1. /\ InReady(k) /\ ReadyAt(j)' = {}
    BY <1>0, <1>1, <1>4, PopReady DEF WorkerTakes
  <2>2. k # j
    BY <1>1, <2>1, InReadyAt
  <2>3. \A h \in Goroutines : gor'[h].job # j
    BY <1>1, <1>4, <2>2 DEF WorkerTakes, OtherGors
  <2>4. /\ \A w \in Workers : inflight'[w][j] = inflight[w][j]
        /\ UNCHANGED <<data, due, db>>
    BY <1>0, <1>4, <2>2 DEF WorkerTakes, DequeueScript, QueueTypeOK
  <2> QED BY <1>1, <1>2, <2>1, <2>3, <2>4 DEF Quiet, QuietQueue, QuietPool
<1> QED BY <1>3, <1>4, WorkerShape

\* Nor does a background loop, as long as the job is not due.
LEMMA LoopQuiet ==
  ASSUME TypeInv, WaitInv, NEW s \in Schedulers, LoopNext(s), NEW j \in Jobs, Quiet(j), delayed[j] # 0
  PROVE  Quiet(j)' /\ data'[j] = data[j] /\ due'[j] = due[j]
<1>0. /\ UNCHANGED <<gor, db>> /\ QueueTypeOK /\ Home
      /\ reclaimer \in [Schedulers -> ReclaimerStates]
      /\ reclaimer[s].pc = "set" => reclaimer[s].job \in Jobs
  BY LoopLeaves, StateTypes DEF TypeInv, TypeOK, WaitInv, BusyCore
<1>1. /\ ReadyAt(j) = {} /\ \A w \in Workers : inflight[w][j] = Absent
      /\ \A t \in Schedulers : /\ j \notin mover[t].todo /\ j \notin mover[t].moves /\ mover[t].job # j
                               /\ j \notin reclaimer[t].todo /\ reclaimer[t].job # j
  BY DEF Quiet, QuietQueue, QuietLoops
<1>2. QuietPool(j)'
  BY <1>0 DEF Quiet, QuietPool
<1>3. ReadyAt(j)' = {}
  <2>1. CASE UNCHANGED ready
    BY <1>1, <2>1 DEF ReadyAt
  <2>2. ASSUME NEW k \in Jobs, LPush(k), k \in mover[s].moves \/ k = reclaimer[s].job
        PROVE  ReadyAt(j)' = {}
    <3>1. k # j
      BY <1>1, <2>2
    <3> QED BY <1>0, <1>1, <2>2, <3>1, PushReady
  <2> QED BY <2>1, <2>2, LoopSets
<1>4. \A w \in Workers : inflight'[w][j] = Absent
  BY <1>1, LoopSets
<1>5. ASSUME NEW t \in Schedulers PROVE j \notin mover'[t].todo /\ j \notin mover'[t].moves /\ mover'[t].job # j
  <2>1. MoverMoves(s) /\ j \notin DueJobs /\ j # NoJob
    BY MoverShape, JobAssumption DEF DueJobs
  <2> QED BY <1>1, <2>1 DEF MoverMoves, OtherMovers
<1>6. ASSUME NEW t \in Schedulers PROVE j \notin reclaimer'[t].todo /\ reclaimer'[t].job # j
  <2>1. ASSUME NEW m, ReclaimerMoves(s, m) PROVE j \notin reclaimer'[t].todo /\ reclaimer'[t].job # j
    <3>1. j \notin Somewhere /\ j # NoJob
      BY <1>1, JobAssumption DEF Somewhere
    <3>2. /\ reclaimer' = [reclaimer EXCEPT ![s] = m]
          /\ m.todo \subseteq reclaimer[s].todo \cup Somewhere
          /\ m.job \in reclaimer[s].todo \cup {reclaimer[s].job, NoJob}
      BY <2>1 DEF ReclaimerMoves
    <3>3. j \notin m.todo /\ m.job # j
      BY <1>1, <3>1, <3>2
    <3> QED BY <1>0, <1>1, <3>2, <3>3
  <2> QED BY <1>1, <2>1, ReclaimerShape
<1>7. data'[j] = data[j] /\ due'[j] = due[j]
  <2>1. CASE ReclaimSet(s)
    BY <1>0, <1>1, <2>1 DEF ReclaimSet, Store, Set, QueueTypeOK
  <2> QED BY <2>1, LoopData
<1> QED BY <1>2, <1>3, <1>4, <1>5, <1>6, <1>7 DEF Quiet, QuietQueue, QuietLoops

\* Worker steps keep WaitInv.
LEMMA WorkerWait ==
  ASSUME TypeInv, DeadInv, WaitInv, NEW g \in Goroutines, WorkerNext(g)
  PROVE  WaitInv'
<1>0. /\ UNCHANGED <<api, reclaimer, born, delayed>> /\ QueueTypeOK /\ Home /\ PoolOf[g] \in Workers
      /\ \A j \in Jobs : UnbornInv(j) /\ AheadInv(j)
      /\ \A r \in Requests : PatientInv(r)
      /\ \A h \in Goroutines : DueInv(h)
      /\ \A s \in Schedulers : RequeueInv(s)
      /\ \A r \in Requests : api[r].pc # "idle" => api[r].job \in Jobs
  BY WorkerFrames, PoolAssumption DEF TypeInv, TypeOK, WaitInv, BusyCore
<1>1. \A j \in Jobs : Quiet(j) => Quiet(j)' /\ data'[j] = data[j] /\ due'[j] = due[j]
  BY WorkerQuiet
<1>2. Home'
  <2>1. CASE WorkerWorks(g)
    BY <1>0, <2>1 DEF WorkerWorks, Home
  <2>2. ASSUME NEW k \in Jobs, WorkerTakes(g, k) PROVE Home'
    BY <1>0, <2>2, PopReady DEF WorkerTakes
  <2> QED BY <2>1, <2>2, WorkerShape
<1>3. ASSUME NEW j \in Jobs PROVE UnbornInv(j)'
  BY <1>0, <1>1 DEF UnbornInv
<1>4. ASSUME NEW j \in Jobs PROVE AheadInv(j)'
  <2>1. CASE data'[j] = data[j] /\ due'[j] = due[j]
    BY <1>0, <1>1, <2>1 DEF AheadInv, Ahead, NotSooner
  <2>2. CASE data'[j] = NoData
    BY <2>2 DEF AheadInv, Ahead
  <2>3. CASE data'[j] = gor[g].rec /\ due'[j] = gor[g].due
    BY <1>0, <2>3 DEF AheadInv, Ahead, DueInv
  <2>4. CASE WorkerWorks(g)
    BY <2>1, <2>2, <2>3, <2>4 DEF WorkerWorks, OnlyJob, KeepsData
  <2>5. ASSUME NEW k \in Jobs, WorkerTakes(g, k) PROVE AheadInv(j)'
    BY <2>1, <2>5 DEF WorkerTakes, DequeueScript
  <2> QED BY <2>4, <2>5, WorkerShape
<1>5. ASSUME NEW r \in Requests PROVE PatientInv(r)'
  BY <1>0, <1>1 DEF PatientInv, Patient, NotSooner, EnqueuePcs
<1>6. ASSUME NEW h \in Goroutines PROVE DueInv(h)'
  <2>1. CASE gor'[h] = gor[h]
    BY <1>0, <2>1 DEF DueInv
  <2>2. CASE WorkerWorks(g)
    BY <1>0, <2>1, <2>2 DEF WorkerWorks, GorWorks, OtherGors, DueInv
  <2>3. ASSUME NEW k \in Jobs, WorkerTakes(g, k) PROVE DueInv(h)'
    <3>1. ~Quiet(k)
      BY <1>0, <2>3, PopReady, InReadyAt DEF WorkerTakes, Quiet, QuietQueue
    <3>2. ~Ahead(k)
      BY <1>0, <3>1 DEF AheadInv
    <3>3. due[k] \in Nat
      BY <1>0 DEF QueueTypeOK
    <3> QED BY <2>1, <2>3, <3>2, <3>3 DEF WorkerTakes, OtherGors, DueInv, Ahead
  <2> QED BY <2>2, <2>3, WorkerShape
<1>7. ASSUME NEW s \in Schedulers PROVE RequeueInv(s)'
  BY <1>0 DEF RequeueInv
<1> QED BY <1>2, <1>3, <1>4, <1>5, <1>6, <1>7 DEF WaitInv

\* Loop steps keep WaitInv: a move needs a due member.
LEMMA LoopWait ==
  ASSUME TypeInv, WaitInv, NEW s \in Schedulers, LoopNext(s)
  PROVE  WaitInv'
<1>0. /\ UNCHANGED <<gor, born>> /\ QueueTypeOK /\ Home
      /\ \A j \in Jobs : UnbornInv(j) /\ AheadInv(j)
      /\ \A r \in Requests : PatientInv(r)
      /\ \A h \in Goroutines : DueInv(h)
      /\ \A t \in Schedulers : RequeueInv(t)
      /\ \A r \in Requests : api[r].pc # "idle" => api[r].job \in Jobs
      /\ reclaimer \in [Schedulers -> ReclaimerStates]
      /\ reclaimer[s].pc = "set" => reclaimer[s].job \in Jobs
  BY LoopLeaves, StateTypes DEF TypeInv, TypeOK, WaitInv, BusyCore
<1>1. /\ \A j \in Jobs : Quiet(j) /\ delayed[j] # 0 => Quiet(j)' /\ data'[j] = data[j] /\ due'[j] = due[j]
      /\ \A j \in Jobs : delayed'[j] \in {delayed[j], Absent}
  BY LoopQuiet, LoopSets
<1>2. Home'
  <2>1. CASE UNCHANGED ready
    BY <1>0, <2>1 DEF Home
  <2>2. ASSUME NEW k \in Jobs, LPush(k) PROVE Home'
    BY <1>0, <2>2, PushReady
  <2> QED BY <2>1, <2>2, LoopSets
<1>3. \A r \in Requests : api'[r] \in {api[r], IdleApi}
  BY LoopLeaves DEF CrashScheduler
<1>4. ASSUME NEW j \in Jobs PROVE UnbornInv(j)'
  <2> SUFFICES ASSUME j \notin born
               PROVE  /\ Quiet(j)' /\ delayed'[j] = Absent /\ data'[j] = NoData
                      /\ \A r \in Requests : api'[r].job # j
    BY <1>0 DEF UnbornInv
  <2>1. /\ Quiet(j) /\ delayed[j] = Absent /\ data[j] = NoData
        /\ \A r \in Requests : api[r].job # j
    BY <1>0 DEF UnbornInv
  <2>2. delayed[j] # 0 /\ IdleApi.job # j
    BY <2>1, JobAssumption DEF Absent, IdleApi
  <2> QED BY <1>1, <1>3, <2>1, <2>2
<1>5. ASSUME NEW j \in Jobs PROVE AheadInv(j)'
  <2>1. CASE data'[j] = data[j] /\ due'[j] = due[j]
    <3> SUFFICES ASSUME Ahead(j)' PROVE Quiet(j)' /\ NotSooner(j, due[j])'
      BY <2>1 DEF AheadInv
    <3>1. Quiet(j) /\ NotSooner(j, due[j]) /\ due[j] > 0 /\ due[j] \in Nat
      BY <1>0, <2>1 DEF AheadInv, Ahead, QueueTypeOK
    <3>2. delayed[j] # 0
      BY <3>1 DEF NotSooner, Absent
    <3>3. NotSooner(j, due[j])'
      BY <1>1, <2>1, <3>1 DEF NotSooner
    <3> QED BY <1>1, <3>1, <3>2, <3>3
  <2>2. CASE ReclaimSet(s) /\ j = reclaimer[s].job
    <3>1. data'[j] = reclaimer[s].rec /\ reclaimer[s].pc = "set"
      BY <1>0, <2>2 DEF ReclaimSet, Store, Set, QueueTypeOK
    <3>2. data'[j].retryCount > 0
      BY <1>0, <3>1 DEF RequeueInv
    <3> QED BY <3>2 DEF AheadInv, Ahead
  <2>3. CASE ReclaimSet(s) /\ j # reclaimer[s].job
    <3>1. data'[j] = data[j] /\ due'[j] = due[j]
      BY <1>0, <2>3 DEF ReclaimSet, Store, Set, QueueTypeOK
    <3> QED BY <2>1, <3>1
  <2> QED BY <2>1, <2>2, <2>3, LoopData
<1>6. ASSUME NEW r \in Requests PROVE PatientInv(r)'
  <2>1. CASE api'[r] = IdleApi
    BY <2>1 DEF PatientInv, Patient, IdleApi, EnqueuePcs
  <2>2. CASE api'[r] = api[r]
    <3>1. api'[r].pc = "retryUpdate" => api'[r].wait = 0
      BY <1>0, <2>2 DEF PatientInv
    <3>2. ASSUME Patient(r)
          PROVE  /\ Quiet(api[r].job)' /\ NotSooner(api[r].job, api[r].wait)'
                 /\ api[r].pc # "evalReady"
                 /\ \A q \in Requests \ {r} : api'[q].job # api[r].job
      <4>1. /\ Quiet(api[r].job) /\ NotSooner(api[r].job, api[r].wait)
            /\ api[r].pc # "evalReady" /\ api[r].job \in Jobs /\ api[r].wait > 0
            /\ \A q \in Requests \ {r} : api[q].job # api[r].job
        BY <1>0, <3>2 DEF PatientInv, Patient, EnqueuePcs
      <4>2. api[r].wait \in Nat
        BY StateTypes DEF ApiStates
      <4>3. delayed[api[r].job] # 0
        BY <4>1, <4>2 DEF NotSooner, Absent
      <4>4. Quiet(api[r].job)'
        BY <1>1, <2>2, <4>1, <4>3
      <4>5. NotSooner(api[r].job, api[r].wait)'
        BY <1>1, <2>2, <4>1 DEF NotSooner
      <4>6. IdleApi.job # api[r].job
        BY <4>1, JobAssumption DEF IdleApi
      <4> QED BY <1>3, <4>1, <4>4, <4>5, <4>6
    <3> QED BY <2>2, <3>1, <3>2 DEF PatientInv, Patient
  <2> QED BY <1>3, <2>1, <2>2
<1>7. ASSUME NEW h \in Goroutines PROVE DueInv(h)'
  BY <1>0 DEF DueInv
<1>8. ASSUME NEW t \in Schedulers PROVE RequeueInv(t)'
  <2>1. CASE UNCHANGED reclaimer
    BY <1>0, <2>1 DEF RequeueInv
  <2>2. ASSUME NEW m, ReclaimerMoves(s, m) PROVE RequeueInv(t)'
    <3>1. reclaimer' = [reclaimer EXCEPT ![s] = m]
      BY <2>2 DEF ReclaimerMoves
    <3>2. m.pc = "set" => m.rec.retryCount > 0
      <4> SUFFICES ASSUME m.pc = "set" PROVE m.rec.retryCount > 0
        OBVIOUS
      <4>1. PICK j \in Jobs : data[j] # NoData /\ m.rec = Retried(data[j])
        BY <2>2 DEF ReclaimerMoves
      <4>2. data[j] \in Records
        BY <1>0, <4>1 DEF QueueTypeOK
      <4> QED BY <4>1, <4>2, RetriedCounts
    <3> QED BY <1>0, <3>1, <3>2 DEF RequeueInv
  <2> QED BY <2>1, <2>2, ReclaimerShape
<1> QED BY <1>2, <1>4, <1>5, <1>6, <1>7, <1>8 DEF WaitInv

\* What enqueueScript does to the job of the request, and to the others.
LEMMA EnterFields ==
  ASSUME TypeInv, Home, NEW r \in Requests, RequestEnters(r)
  PROVE  /\ api[r].job \in Jobs /\ Home'
         /\ \A k \in Jobs \ {api[r].job} : /\ data'[k] = data[k] /\ due'[k] = due[k]
                                           /\ delayed'[k] = delayed[k] /\ ReadyAt(k)' = ReadyAt(k)
         /\ data'[api[r].job] = NewJob /\ due'[api[r].job] = api[r].wait
         /\ IF ToReady(api[r])
              THEN LPush(api[r].job) /\ UNCHANGED delayed
              ELSE UNCHANGED ready /\ delayed'[api[r].job] = api[r].wait
<1>1. PICK j \in Jobs : j = api[r].job
  BY DEF TypeInv, BusyCore, RequestEnters, EnqueuePcs
<1>2. /\ data' = [data EXCEPT ![j] = NewJob] /\ due' = [due EXCEPT ![j] = api[r].wait]
      /\ IF ToReady(api[r]) THEN LPush(j) /\ UNCHANGED delayed
                            ELSE delayed' = [delayed EXCEPT ![j] = api[r].wait] /\ UNCHANGED ready
  BY <1>1 DEF RequestEnters, EnqueueScript, Set
<1>3. QueueTypeOK
  BY DEF TypeInv, TypeOK
<1>4. /\ data'[j] = NewJob /\ due'[j] = api[r].wait
      /\ \A k \in Jobs \ {j} : data'[k] = data[k] /\ due'[k] = due[k]
  BY <1>2, <1>3 DEF QueueTypeOK
<1>5. CASE ToReady(api[r])
  <2>1. LPush(j) /\ UNCHANGED delayed
    BY <1>2, <1>5
  <2>2. Home' /\ \A k \in Jobs \ {j} : ReadyAt(k)' = ReadyAt(k)
    BY <1>3, <2>1, PushReady
  <2> QED BY <1>1, <1>4, <1>5, <2>1, <2>2
<1>6. CASE ~ToReady(api[r])
  <2>1. delayed' = [delayed EXCEPT ![j] = api[r].wait] /\ UNCHANGED ready
    BY <1>2, <1>6
  <2>2. delayed'[j] = api[r].wait /\ \A k \in Jobs \ {j} : delayed'[k] = delayed[k]
    BY <1>3, <2>1 DEF QueueTypeOK
  <2>3. Home' /\ \A k \in Jobs : ReadyAt(k)' = ReadyAt(k)
    BY <2>1 DEF Home, ReadyAt
  <2> QED BY <1>1, <1>4, <1>6, <2>1, <2>2, <2>3
<1> QED BY <1>5, <1>6

\* A request makes a job known to the workers only when its script finds it due.
LEMMA RequestQuiet ==
  ASSUME TypeInv, WaitInv, NEW r \in Requests, RequestNext(r), NEW j \in Jobs, Quiet(j),
         RequestEnters(r) => api[r].job # j \/ ~ToReady(api[r])
  PROVE  Quiet(j)'
<1>0. UNCHANGED <<gor, mover, reclaimer, inflight>> /\ Home
  BY RequestFrames DEF WaitInv
<1>1. QuietLoops(j)' /\ \A w \in Workers : inflight'[w][j] = Absent
  BY <1>0 DEF Quiet, QuietLoops, QuietQueue
<1>2. db'[j].hasWorker => db[j].hasWorker
  BY RequestShape DEF RequestEnters, RequestWorks, RequestSubmits
<1>3. QuietPool(j)'
  BY <1>0, <1>2 DEF Quiet, QuietPool
<1>4. ReadyAt(j) = {}
  BY DEF Quiet, QuietQueue
<1>5. ReadyAt(j)' = {}
  <2>1. CASE UNCHANGED ready
    BY <1>4, <2>1 DEF ReadyAt
  <2>2. CASE RequestEnters(r) /\ api[r].job # j
    BY <1>0, <1>4, <2>2, EnterFields
  <2>3. CASE RequestEnters(r) /\ ~ToReady(api[r])
    BY <1>0, <2>1, <2>3, EnterFields
  <2> QED BY <2>1, <2>2, <2>3, RequestShape DEF RequestWorks, RequestSubmits
<1> QED BY <1>1, <1>3, <1>5 DEF Quiet, QuietQueue

\* The job a request turns to is a new one, its own, or one that has been run.
LEMMA RequestJob ==
  ASSUME TypeInv, NEW r \in Requests, RequestNext(r), NEW j \in Jobs, api'[r].job = j
  PROVE  api[r].job = j \/ j \notin born \/ db[j].hasWorker
<1>1. IdleApi.job # j
  BY JobAssumption DEF IdleApi
<1> QED BY <1>1, RequestShape
        DEF RequestEnters, RequestErrs, RequestWorks, RequestClaims, RequestGoesOn, RequestSubmits

\* Request steps keep WaitInv: a scheduled job enters the delayed set.
LEMMA RequestWait ==
  ASSUME TypeInv, WaitInv, NEW r \in Requests, RequestNext(r)
  PROVE  WaitInv'
<1>0. /\ UNCHANGED <<gor, reclaimer>> /\ QueueTypeOK /\ Home /\ OtherRequests(r)
      /\ \A j \in Jobs : UnbornInv(j) /\ AheadInv(j)
      /\ \A q \in Requests : PatientInv(q)
      /\ \A h \in Goroutines : DueInv(h)
      /\ \A t \in Schedulers : RequeueInv(t)
      /\ \A q \in Requests : api[q].pc # "idle" => api[q].job \in Jobs
      /\ api[r].wait \in Nat
  BY RequestFrames, RequestShape, StateTypes DEF TypeInv, TypeOK, WaitInv, BusyCore, ApiStates
<1>1. Home'
  <2>1. CASE UNCHANGED ready
    BY <1>0, <2>1 DEF Home
  <2> QED BY <1>0, <2>1, EnterFields, RequestShape DEF RequestWorks, RequestSubmits
<1>2. ASSUME NEW j \in Jobs, RequestEnters(r) => api[r].job # j
      PROVE  /\ data'[j] = data[j] /\ due'[j] = due[j] /\ delayed'[j] = delayed[j]
             /\ Quiet(j) => Quiet(j)'
  <2>1. data'[j] = data[j] /\ due'[j] = due[j] /\ delayed'[j] = delayed[j]
    BY <1>0, <1>2, EnterFields, RequestShape DEF RequestWorks, RequestSubmits
  <2> QED BY <1>2, <2>1, RequestQuiet
<1>3. ASSUME RequestEnters(r), api[r].wait > 0
      PROVE  /\ Patient(r) /\ ~ToReady(api[r]) /\ api[r].job \in Jobs
             /\ Quiet(api[r].job) /\ delayed'[api[r].job] = api[r].wait
  <2>1. Patient(r)
    BY <1>3 DEF RequestEnters, Patient
  <2>2. ~ToReady(api[r]) /\ Quiet(api[r].job)
    BY <1>0, <1>3, <2>1 DEF PatientInv, ToReady
  <2> QED BY <1>0, <1>3, <2>1, <2>2, EnterFields
<1>4. ASSUME NEW j \in Jobs PROVE UnbornInv(j)'
  <2> SUFFICES ASSUME j \notin born'
               PROVE  /\ Quiet(j)' /\ delayed'[j] = Absent /\ data'[j] = NoData
                      /\ \A q \in Requests : api'[q].job # j
    BY DEF UnbornInv
  <2>1. j \notin born
    BY RequestShape DEF RequestEnters, RequestWorks, RequestSubmits
  <2>2. /\ Quiet(j) /\ delayed[j] = Absent /\ data[j] = NoData
        /\ \A q \in Requests : api[q].job # j
    BY <1>0, <2>1 DEF UnbornInv
  <2>3. Quiet(j)' /\ delayed'[j] = Absent /\ data'[j] = NoData
    BY <1>2, <2>2
  <2>4. api'[r].job # j
    <3>1. IdleApi.job # j
      BY JobAssumption DEF IdleApi
    <3>2. ~db[j].hasWorker
      BY <2>2 DEF Quiet, QuietPool
    <3>3. api[r].job # j
      BY <2>2
    <3>4. CASE RequestEnters(r) \/ RequestWorks(r)
      BY <3>1, <3>2, <3>3, <3>4
         DEF RequestEnters, RequestErrs, RequestWorks, RequestClaims, RequestGoesOn
    <3>5. ASSUME NEW k \in Jobs, RequestSubmits(r, k) PROVE api'[r].job # j
      BY <3>5 DEF RequestSubmits
    <3> QED BY <3>4, <3>5, RequestShape
  <2> QED BY <1>0, <2>2, <2>3, <2>4 DEF OtherRequests
<1>5. ASSUME NEW j \in Jobs PROVE AheadInv(j)'
  <2>1. CASE RequestEnters(r) => api[r].job # j
    BY <1>0, <1>2, <2>1 DEF AheadInv, Ahead, NotSooner
  <2>2. CASE RequestEnters(r) /\ api[r].job = j
    <3>1. due'[j] = api[r].wait
      BY <1>0, <2>2, EnterFields
    <3>2. ASSUME api[r].wait > 0 PROVE Quiet(j)' /\ NotSooner(j, due[j])'
      <4>1. Quiet(j) /\ ~ToReady(api[r]) /\ delayed'[j] = api[r].wait
        BY <1>3, <2>2, <3>2
      <4>2. Quiet(j)'
        BY <4>1, RequestQuiet
      <4> QED BY <1>0, <3>1, <4>1, <4>2 DEF NotSooner
    <3> QED BY <3>1, <3>2 DEF AheadInv, Ahead
  <2> QED BY <2>1, <2>2
<1>6. ASSUME NEW q \in Requests, q # r PROVE PatientInv(q)'
  <2>1. api'[q] = api[q]
    BY <1>0, <1>6 DEF OtherRequests
  <2>2. ASSUME Patient(q)
        PROVE  /\ Quiet(api[q].job)' /\ NotSooner(api[q].job, api[q].wait)'
               /\ api[q].pc # "evalReady"
               /\ \A p \in Requests \ {q} : api'[p].job # api[q].job
    <3>1. PICK j \in Jobs : j = api[q].job
      BY <1>0, <2>2 DEF Patient, EnqueuePcs
    <3>2. /\ Quiet(j) /\ NotSooner(j, api[q].wait) /\ api[q].pc # "evalReady"
          /\ \A p \in Requests \ {q} : api[p].job # j
      BY <1>0, <2>2, <3>1 DEF PatientInv
    <3>3. Quiet(j)' /\ delayed'[j] = delayed[j]
      BY <1>2, <1>6, <3>2
    <3>4. j \in born /\ ~db[j].hasWorker
      BY <1>0, <3>1, <3>2 DEF UnbornInv, Quiet, QuietPool
    <3>5. api'[r].job # j
      BY <1>6, <3>2, <3>4, RequestJob
    <3> QED BY <1>0, <2>1, <3>1, <3>2, <3>3, <3>5 DEF OtherRequests, NotSooner
  <2> QED BY <1>0, <2>1, <2>2 DEF PatientInv, Patient
<1>7. PatientInv(r)'
  <2>1. CASE api'[r] = IdleApi
    BY <2>1 DEF PatientInv, Patient, IdleApi, EnqueuePcs
  <2>2. CASE RequestClaims(r)
    BY <2>2 DEF RequestClaims, PatientInv, Patient, EnqueuePcs
  <2>3. CASE RequestGoesOn(r)
    BY <1>0, <2>3 DEF RequestGoesOn, PatientInv, Patient
  <2>4. ASSUME NEW j \in Jobs, RequestSubmits(r, j) PROVE PatientInv(r)'
    <3>1. /\ j \notin born /\ UNCHANGED delayed /\ api'[r].pc = "enqueue" /\ api'[r].job = j
          /\ ~RequestEnters(r)
      BY <1>0, <2>4 DEF RequestSubmits, RequestEnters
    <3>2. Quiet(j) /\ delayed[j] = Absent /\ \A q \in Requests : api[q].job # j
      BY <1>0, <3>1 DEF UnbornInv
    <3>3. Quiet(j)'
      BY <1>2, <3>1, <3>2
    <3> QED BY <1>0, <3>1, <3>2, <3>3 DEF PatientInv, Patient, NotSooner, OtherRequests
  <2>5. ASSUME RequestErrs(r), api'[r] # IdleApi, RequestEnters(r) \/ UNCHANGED delayed
        PROVE  PatientInv(r)'
    <3>1. /\ api[r].pc = "enqueue" /\ api'[r].pc # "retryUpdate"
          /\ api'[r].pc = "evalReady" => api[r].wait = 0
          /\ api'[r].job = api[r].job /\ api'[r].wait = api[r].wait
      BY <2>5 DEF RequestErrs
    <3>2. ASSUME api[r].wait > 0
          PROVE  /\ Quiet(api[r].job)' /\ NotSooner(api[r].job, api[r].wait)'
                 /\ \A q \in Requests \ {r} : api'[q].job # api[r].job
      <4>1. PICK j \in Jobs : j = api[r].job
        BY <1>0, <3>1
      <4>2. /\ Quiet(j) /\ NotSooner(j, api[r].wait)
            /\ \A q \in Requests \ {r} : api[q].job # j
        BY <1>0, <3>1, <3>2, <4>1 DEF PatientInv, Patient, EnqueuePcs
      <4>3. ~ToReady(api[r])
        BY <3>1, <3>2 DEF ToReady
      <4>4. Quiet(j)'
        BY <4>2, <4>3, RequestQuiet
      <4>5. delayed'[j] = api[r].wait \/ delayed'[j] = delayed[j]
        BY <1>3, <2>5, <3>2, <4>1
      <4> QED BY <1>0, <3>1, <4>1, <4>2, <4>4, <4>5 DEF NotSooner, OtherRequests
    <3> QED BY <3>1, <3>2 DEF PatientInv, Patient
  <2> QED BY <2>1, <2>2, <2>3, <2>4, <2>5, RequestShape DEF RequestEnters, RequestWorks
<1>8. ASSUME NEW h \in Goroutines PROVE DueInv(h)'
  BY <1>0 DEF DueInv
<1>9. ASSUME NEW t \in Schedulers PROVE RequeueInv(t)'
  BY <1>0 DEF RequeueInv
<1> QED BY <1>1, <1>4, <1>5, <1>6, <1>7, <1>8, <1>9 DEF WaitInv

\* A step that changes nothing but goroutines, which keep their job or end.
LEMMA CrashWait ==
  ASSUME TypeInv, WaitInv, NEW w \in Workers, WCrash(w)
  PROVE  WaitInv'
<1>0. /\ UNCHANGED <<data, due, ready, delayed, inflight, db, api, mover, reclaimer, born>>
      /\ \A g \in Goroutines : gor'[g] \in {gor[g], Idle}
  BY DEF WCrash, CrashPool, queueVars, coreVars
<1>1. ASSUME NEW j \in Jobs, Quiet(j) PROVE Quiet(j)'
  <2>1. Idle.job # j
    BY JobAssumption DEF Idle
  <2>2. QuietPool(j)'
    BY <1>0, <1>1, <2>1 DEF Quiet, QuietPool
  <2>3. QuietQueue(j)' /\ QuietLoops(j)'
    BY <1>0, <1>1 DEF Quiet, QuietQueue, QuietLoops, ReadyAt
  <2> QED BY <2>2, <2>3 DEF Quiet
<1>2. Home'
  BY <1>0 DEF WaitInv, Home
<1>3. ASSUME NEW j \in Jobs PROVE UnbornInv(j)' /\ AheadInv(j)'
  <2>1. UnbornInv(j) /\ AheadInv(j)
    BY DEF WaitInv
  <2> QED BY <1>0, <1>1, <2>1 DEF UnbornInv, AheadInv, Ahead, NotSooner
<1>4. ASSUME NEW r \in Requests PROVE PatientInv(r)'
  <2>1. PatientInv(r) /\ (Patient(r) => api[r].job \in Jobs)
    BY DEF WaitInv, TypeInv, BusyCore, Patient, EnqueuePcs
  <2> QED BY <1>0, <1>1, <2>1 DEF PatientInv, Patient, NotSooner
<1>5. ASSUME NEW g \in Goroutines PROVE DueInv(g)'
  BY <1>0 DEF WaitInv, DueInv, Idle
<1>6. ASSUME NEW s \in Schedulers PROVE RequeueInv(s)'
  BY <1>0 DEF WaitInv, RequeueInv
<1> QED BY <1>2, <1>3, <1>4, <1>5, <1>6 DEF WaitInv

\* Scores, waits and times to ScheduledAt run down together.
LEMMA TickWait ==
  ASSUME TypeInv, WaitInv, Tick
  PROVE  WaitInv'
<1>0. /\ QueueTypeOK /\ Home /\ gor \in [Goroutines -> GorStates] /\ api \in [Requests -> ApiStates]
      /\ UNCHANGED <<ready, db, mover, reclaimer, born>>
  BY StateTypes DEF Tick, QueueTick, CoreTick, TypeInv, TypeOK, WaitInv
<1>1. ASSUME NEW j \in Jobs
      PROVE  /\ data'[j] \in {data[j], NoData} /\ due'[j] = Earlier(due[j])
             /\ delayed'[j] = Earlier(delayed[j])
             /\ \A w \in Workers : inflight'[w][j] = Earlier(inflight[w][j])
  BY DEF Tick, QueueTick
<1>2. ASSUME NEW g \in Goroutines
      PROVE  /\ gor'[g].job = gor[g].job /\ gor'[g].rec = gor[g].rec
             /\ gor'[g].due = Earlier(gor[g].due)
  <2>1. gor'[g] = [gor[g] EXCEPT !.left = Earlier(gor[g].left), !.due = Earlier(gor[g].due)]
    BY DEF Tick, PoolTick
  <2> QED BY <1>0, <2>1 DEF GorStates
<1>3. ASSUME NEW r \in Requests
      PROVE  /\ api'[r].pc = api[r].pc /\ api'[r].job = api[r].job
             /\ api'[r].wait = Earlier(api[r].wait)
  <2>1. api'[r] = [api[r] EXCEPT !.wait = Earlier(api[r].wait)]
    BY DEF Tick, CoreTick
  <2> QED BY <1>0, <2>1 DEF ApiStates
<1>4. ASSUME NEW j \in Jobs, Quiet(j) PROVE Quiet(j)'
  <2>1. QuietPool(j)' /\ QuietLoops(j)'
    BY <1>0, <1>2, <1>4 DEF Quiet, QuietPool, QuietLoops
  <2>2. \A w \in Workers : inflight'[w][j] = Absent
    BY <1>1, <1>4 DEF Quiet, QuietQueue, Earlier, Absent
  <2>3. ReadyAt(j)' = {}
    BY <1>0, <1>4 DEF Quiet, QuietQueue, ReadyAt
  <2> QED BY <2>1, <2>2, <2>3 DEF Quiet, QuietQueue
<1>5. ASSUME NEW j \in Jobs, NEW n \in Nat, NotSooner(j, n) PROVE NotSooner(j, n - 1)'
  <2>1. delayed[j] \in Nat \cup {Absent} /\ delayed'[j] = Earlier(delayed[j])
    BY <1>0, <1>1 DEF QueueTypeOK
  <2> QED BY <1>5, <2>1 DEF NotSooner, Earlier, Absent
<1>6. Home'
  BY <1>0 DEF Home
<1>7. ASSUME NEW j \in Jobs PROVE UnbornInv(j)'
  <2>1. UnbornInv(j)
    BY DEF WaitInv
  <2>2. delayed[j] = Absent => delayed'[j] = Absent
    BY <1>1 DEF Earlier, Absent
  <2> QED BY <1>0, <1>1, <1>3, <1>4, <2>1, <2>2 DEF UnbornInv
<1>8. ASSUME NEW j \in Jobs PROVE AheadInv(j)'
  <2> SUFFICES ASSUME Ahead(j)' PROVE Quiet(j)' /\ NotSooner(j, due[j])'
    BY DEF AheadInv
  <2>1. due[j] \in Nat /\ due'[j] = due[j] - 1 /\ Ahead(j)
    BY <1>0, <1>1 DEF Ahead, Earlier, QueueTypeOK
  <2>2. Quiet(j) /\ NotSooner(j, due[j])
    BY <2>1 DEF WaitInv, AheadInv
  <2> QED BY <1>4, <1>5, <2>1, <2>2 DEF NotSooner
<1>9. ASSUME NEW r \in Requests PROVE PatientInv(r)'
  <2>1. PatientInv(r) /\ api[r].wait \in Nat
    BY <1>0 DEF WaitInv, ApiStates
  <2>2. api'[r].pc = "retryUpdate" => api'[r].wait = 0
    BY <1>3, <2>1 DEF PatientInv, Earlier
  <2>3. ASSUME Patient(r)'
        PROVE  /\ Quiet(api[r].job)' /\ NotSooner(api[r].job, api[r].wait)'
               /\ api'[r].pc # "evalReady"
               /\ \A q \in Requests \ {r} : api'[q].job # api'[r].job
    <3>1. Patient(r) /\ api'[r].wait = api[r].wait - 1
      BY <1>3, <2>1, <2>3 DEF Patient, Earlier
    <3>2. PICK j \in Jobs : j = api[r].job
      BY <3>1 DEF TypeInv, BusyCore, Patient, EnqueuePcs
    <3>3. /\ Quiet(j) /\ NotSooner(j, api[r].wait) /\ api[r].pc # "evalReady"
          /\ \A q \in Requests \ {r} : api[q].job # j
      BY <2>1, <3>1, <3>2 DEF PatientInv
    <3>4. Quiet(j)'
      BY <1>4, <3>3
    <3>5. delayed'[j] = Absent \/ delayed'[j] >= api[r].wait - 1
      BY <1>5, <2>1, <3>3 DEF NotSooner
    <3> QED BY <1>3, <3>1, <3>2, <3>3, <3>4, <3>5 DEF NotSooner
  <2> QED BY <2>2, <2>3 DEF PatientInv
<1>10. ASSUME NEW g \in Goroutines PROVE DueInv(g)'
  BY <1>2 DEF WaitInv, DueInv, Earlier
<1>11. ASSUME NEW s \in Schedulers PROVE RequeueInv(s)'
  BY <1>0 DEF WaitInv, RequeueInv
<1> QED BY <1>6, <1>7, <1>8, <1>9, <1>10, <1>11 DEF WaitInv

\* No job waits at the start.
LEMMA InitWait == Init => WaitInv
<1> SUFFICES ASSUME Init PROVE WaitInv
  OBVIOUS
<1>1. \A p \in Priorities : ready[p] = <<>>
  BY DEF Init, QueueInit
<1>2. Home
  BY <1>1 DEF Home
<1>3. ASSUME NEW j \in Jobs PROVE UnbornInv(j) /\ AheadInv(j)
  <2>1. ReadyAt(j) = {}
    BY <1>1, PriorityAssumption DEF ReadyAt, Priorities
  <2>2. QuietQueue(j)
    BY <2>1 DEF QuietQueue, Init, QueueInit
  <2>3. QuietPool(j)
    BY JobAssumption DEF QuietPool, Init, StoreInit, NoRow, PoolInit, Idle
  <2>4. QuietLoops(j)
    BY JobAssumption DEF QuietLoops, Init, CoreInit, IdleMover, IdleReclaimer
  <2>5. \A r \in Requests : api[r].job # j
    BY JobAssumption DEF Init, CoreInit, IdleApi
  <2>6. data[j] = NoData /\ delayed[j] = Absent
    BY DEF Init, QueueInit
  <2> QED BY <2>2, <2>3, <2>4, <2>5, <2>6 DEF UnbornInv, AheadInv, Ahead, Quiet
<1>4. ASSUME NEW r \in Requests PROVE PatientInv(r)
  BY DEF PatientInv, Patient, EnqueuePcs, Init, CoreInit, IdleApi
<1>5. \A g \in Goroutines : DueInv(g)
  BY DEF DueInv, Init, PoolInit, Idle
<1>6. \A s \in Schedulers : RequeueInv(s)
  BY DEF RequeueInv, Init, CoreInit, IdleReclaimer
<1> QED BY <1>2, <1>3, <1>4, <1>5, <1>6 DEF WaitInv

\* Stuttering keeps WaitInv.
LEMMA IdleWait == WaitInv /\ UNCHANGED vars => WaitInv'
<1> SUFFICES ASSUME WaitInv, UNCHANGED vars PROVE WaitInv'
  OBVIOUS
<1>1. UNCHANGED <<data, due, ready, delayed, inflight, db, gor, api, mover, reclaimer, born>>
  BY DEF vars, queueVars, coreVars, history
<1>2. \A j \in Jobs : Quiet(j) => Quiet(j)'
  BY <1>1 DEF Quiet, QuietQueue, QuietPool, QuietLoops, ReadyAt
<1>3. Home'
  BY <1>1 DEF WaitInv, Home
<1>4. \A j \in Jobs : UnbornInv(j)' /\ AheadInv(j)'
  BY <1>1, <1>2 DEF WaitInv, UnbornInv, AheadInv, Ahead, NotSooner
<1>5. \A r \in Requests : PatientInv(r)'
  BY <1>1 DEF WaitInv, PatientInv, Patient, NotSooner, Quiet, QuietQueue, QuietPool, QuietLoops, ReadyAt
<1>6. (\A g \in Goroutines : DueInv(g)') /\ \A s \in Schedulers : RequeueInv(s)'
  BY <1>1 DEF WaitInv, DueInv, RequeueInv
<1> QED BY <1>3, <1>4, <1>5, <1>6 DEF WaitInv

\* Every step of the system keeps WaitInv.
LEMMA NextWait == TypeInv /\ DeadInv /\ WaitInv /\ [Next]_vars => WaitInv'
BY WorkerWait, LoopWait, RequestWait, CrashWait, TickWait, IdleWait DEF Next

\* A job that was never requeued does not start before its ScheduledAt.  The invariant:
\* until then the ready lists, the in-flight sets, every goroutine and every loop know
\* nothing of the job, its row has no worker, and at most one request enqueues it.
THEOREM NotBeforeScheduledHolds == Spec => []NotBeforeScheduled
<1>1. WaitInv => NotBeforeScheduled
  BY DEF WaitInv, DueInv, NotBeforeScheduled
<1> QED BY <1>1, InitType, NextType, InitDead, NextDead, InitWait, NextWait, PTL DEF Spec

-----------------------------------------------------------------------------
(* One delivery at a time.  DuplicatesExplained is not inductive: the jobs *)
(* that a pass has read but not yet pushed, and the ones a request is      *)
(* enqueuing, are deliveries to come.                                      *)

\* j is in no ready list and with no goroutine.
Free(j) == ReadyAt(j) = {} /\ \A g \in Goroutines : gor[g].job # j

\* The pass of s will push j; it has pushed j and will remove it from the delayed set.
Listed(s, j) == j \in mover[s].todo \/ j \in mover[s].moves
HalfDone(s, j) == mover[s].pc = "rem" /\ mover[s].job = j

\* The submission r will enqueue j.
Coming(r, j) == api[r].pc \in EnqueuePcs /\ api[r].op # "retry" /\ api[r].job = j

\* What the lock is for.
Mutex == \A s \in Schedulers : mover[s].pc # "idle" => lock.holder = s

OnceOut(j) ==
    /\ \A g, h \in Goroutines : gor[g].job = j /\ gor[h].job = j => g = h
    /\ \A a, b \in ReadyAt(j) : a = b
    /\ (\E g \in Goroutines : gor[g].job = j) => ReadyAt(j) = {}

OnceDelayed(j) ==
    /\ \A s \in Schedulers : Listed(s, j) => Free(j)
    /\ delayed[j] # Absent => Free(j) \/ \E s \in Schedulers : HalfDone(s, j)
    /\ \A s, t \in Schedulers : HalfDone(s, j) => ~Listed(t, j)

OnceComing(j) ==
    \A r \in Requests : Coming(r, j) =>
        /\ Free(j) /\ delayed[j] = Absent
        /\ \A s \in Schedulers : ~Listed(s, j) /\ ~HalfDone(s, j)
        /\ \A q \in Requests : Coming(q, j) => q = r

Once(j) == OnceOut(j) /\ OnceDelayed(j) /\ OnceComing(j)

\* A pass that has not begun has read nothing; when it pushes it has read all.
PassInv(s) ==
    /\ mover[s].pc = "idle" => mover[s].todo = {} /\ mover[s].moves = {}
    /\ mover[s].pc \in {"exec", "rem"} => mover[s].todo = {}

SingleInv ==
    /\ \A s \in Schedulers : PassInv(s)
    /\ \A r \in Requests : api[r].pc = "retryUpdate" => api[r].op = "retry"
    /\ \A j \in Jobs \ disturbed : Mutex /\ Once(j)

\* A step that brings j no nearer to a worker keeps it single.
LEMMA OnceKept ==
  ASSUME NEW j \in Jobs, Once(j),
         ReadyAt(j) = {} => ReadyAt(j)' = {},
         (\A a, b \in ReadyAt(j) : a = b) => \A a, b \in ReadyAt(j)' : a = b,
         \A g \in Goroutines : gor'[g].job = j => gor[g].job = j,
         delayed'[j] # Absent => delayed[j] # Absent,
         \A s \in Schedulers : Listed(s, j)' => Listed(s, j),
         \A s \in Schedulers : HalfDone(s, j)' => HalfDone(s, j),
         \A s \in Schedulers : HalfDone(s, j) => HalfDone(s, j)' \/ delayed'[j] = Absent,
         \A r \in Requests : Coming(r, j)' => Coming(r, j)
  PROVE  Once(j)'
<1>1. Free(j) => Free(j)'
  BY DEF Free
<1>2. OnceOut(j)'
  BY DEF Once, OnceOut
<1>3. OnceDelayed(j)'
  BY <1>1 DEF Once, OnceDelayed
<1>4. OnceComing(j)'
  <2> SUFFICES ASSUME NEW r \in Requests, Coming(r, j)'
               PROVE  /\ Free(j)' /\ delayed'[j] = Absent
                      /\ \A s \in Schedulers : ~Listed(s, j)' /\ ~HalfDone(s, j)'
                      /\ \A q \in Requests : Coming(q, j)' => q = r
    BY DEF OnceComing
  <2>1. /\ Free(j) /\ delayed[j] = Absent
        /\ \A s \in Schedulers : ~Listed(s, j) /\ ~HalfDone(s, j)
        /\ \A q \in Requests : Coming(q, j) => q = r
    BY DEF Once, OnceComing
  <2> QED BY <1>1, <2>1
<1> QED BY <1>2, <1>3, <1>4 DEF Once

\* The lock admits one pass at a time until it expires under one.
LEMMA LoopMutex ==
  ASSUME TypeInv, Mutex, NEW s \in Schedulers, LoopNext(s)
  PROVE  Mutex'
<1>0. Nobody \notin Schedulers /\ lock \in [holder : Schedulers \cup {Nobody}, ttl : Nat]
  BY LockAssumption DEF TypeInv, TypeOK, LockTypeOK
<1>1. ASSUME Acquire(s), OtherMovers(s) PROVE Mutex'
  <2>1. lock.holder = Nobody /\ lock'.holder = s
    BY <1>1 DEF Acquire, Unlocked
  <2>2. \A t \in Schedulers : mover[t].pc = "idle"
    BY <1>0, <2>1 DEF Mutex
  <2> QED BY <1>1, <2>1, <2>2 DEF Mutex, OtherMovers
<1>2. ASSUME UNCHANGED lock, OtherMovers(s), mover'[s].pc # "idle" => mover[s].pc # "idle"
      PROVE  Mutex'
  BY <1>2 DEF Mutex, OtherMovers
<1>3. ASSUME UNCHANGED <<lock, mover>> PROVE Mutex'
  BY <1>3 DEF Mutex
<1>4. ASSUME LMove(s) PROVE Mutex'
  <2>1. ASSUME MoverAcquire(s) PROVE Mutex'
    BY <1>1, <2>1, AcquireMover DEF MoverAcquire
  <2>2. ASSUME NEW B \in Batches, MoverScan(s, B) PROVE Mutex'
    BY <1>2, <2>2, ScanMover DEF MoverScan
  <2>3. ASSUME NEW j \in Jobs, MoverGet(s, j, data[j] # NoData) PROVE Mutex'
    <3>1. (data[j] # NoData) \in BOOLEAN
      OBVIOUS
    <3>2. OtherMovers(s)
      BY <2>3, <3>1, GetMover
    <3> QED BY <1>2, <2>3, <3>2 DEF MoverGet
  <2>4. ASSUME NEW j \in Jobs, MoverPush(s, j) PROVE Mutex'
    BY <1>2, <2>4, PushMover DEF MoverPush
  <2>5. ASSUME NEW j \in Jobs, MoverDrop(s, j) PROVE Mutex'
    BY <1>2, <2>5, DropMover DEF MoverDrop
  <2>6. ASSUME MoverRem(s) PROVE Mutex'
    BY <1>2, <2>6, RemMover DEF MoverRem
  <2>7. ASSUME MoverRelease(s) PROVE Mutex'
    <3>1. OtherMovers(s) /\ mover'[s].pc = "idle" /\ mover[s].pc # "idle"
      BY <2>7, StateTypes DEF MoverRelease, OtherMovers, IdleMover
    <3>2. \A t \in Schedulers \ {s} : mover[t].pc = "idle"
      BY <3>1 DEF Mutex
    <3> QED BY <3>1, <3>2 DEF Mutex, OtherMovers
  <2> QED BY <1>4, <2>1, <2>2, <2>3, <2>4, <2>5, <2>6, <2>7 DEF LMove
<1>5. ASSUME LReclaim(s) \/ LReclaimPush(s) \/ LCardFails(s) \/ ReclaimAborts(s)
               \/ \E j \in Jobs : ReclaimGet(s, j, FALSE)
      PROVE  Mutex'
  BY <1>3, <1>5
     DEF LReclaim, LReclaimPush, LCardFails, ReclaimAborts, ReclaimStart, ReclaimKey,
         ReclaimGet, ReclaimSet, ReclaimPush, ReclaimRem, ReclaimCard, ReclaimCardFails,
         ReclaimDel, reclaimFrame
<1>6. ASSUME NEW j \in Jobs, LGetFails(s, j) PROVE Mutex'
  <2>1. ASSUME MoverGet(s, j, FALSE) PROVE Mutex'
    BY <1>2, <2>1, GetMover DEF MoverGet
  <2> QED BY <1>5, <1>6, <2>1 DEF LGetFails
<1>7. ASSUME LFault(s) PROVE Mutex'
  <2>1. ASSUME MoverAborts(s) PROVE Mutex'
    BY <1>2, <2>1, EmptyMover DEF MoverAborts
  <2>2. ASSUME MoverAcquireLost(s) PROVE Mutex'
    BY <1>1, <2>2 DEF MoverAcquireLost, OtherMovers
  <2> QED BY <1>5, <1>7, <2>1, <2>2 DEF LFault
<1>8. ASSUME LCrash(s) PROVE Mutex'
  <2>1. UNCHANGED lock /\ OtherMovers(s) /\ mover'[s].pc = "idle"
    BY <1>8, StateTypes DEF LCrash, CrashScheduler, OtherMovers, IdleMover
  <2> QED BY <1>2, <2>1
<1> QED BY <1>4, <1>5, <1>6, <1>7, <1>8 DEF LoopNext

\* Loop steps keep the shape of every pass.
LEMMA LoopPass ==
  ASSUME TypeInv, NEW s \in Schedulers, LoopNext(s), \A t \in Schedulers : PassInv(t)
  PROVE  \A t \in Schedulers : PassInv(t)'
<1>1. ASSUME OtherMovers(s), PassInv(s)' PROVE \A t \in Schedulers : PassInv(t)'
  BY <1>1 DEF PassInv, OtherMovers
<1>2. ASSUME LMove(s) PROVE \A t \in Schedulers : PassInv(t)'
  <2>1. ASSUME MoverAcquire(s) PROVE \A t \in Schedulers : PassInv(t)'
    BY <1>1, <2>1, AcquireMover DEF PassInv
  <2>2. ASSUME NEW B \in Batches, MoverScan(s, B) PROVE \A t \in Schedulers : PassInv(t)'
    BY <1>1, <2>2, ScanMover DEF PassInv
  <2>3. ASSUME NEW j \in Jobs, MoverGet(s, j, data[j] # NoData) PROVE \A t \in Schedulers : PassInv(t)'
    <3>1. (data[j] # NoData) \in BOOLEAN
      OBVIOUS
    <3> QED BY <1>1, <2>3, <3>1, GetMover DEF PassInv
  <2>4. ASSUME NEW j \in Jobs, MoverPush(s, j) PROVE \A t \in Schedulers : PassInv(t)'
    BY <1>1, <2>4, PushMover DEF PassInv, MoverPush
  <2>5. ASSUME NEW j \in Jobs, MoverDrop(s, j) PROVE \A t \in Schedulers : PassInv(t)'
    BY <1>1, <2>5, DropMover DEF PassInv
  <2>6. ASSUME MoverRem(s) PROVE \A t \in Schedulers : PassInv(t)'
    BY <1>1, <2>6, RemMover DEF PassInv, MoverRem
  <2>7. ASSUME MoverRelease(s) PROVE \A t \in Schedulers : PassInv(t)'
    BY <1>1, <2>7, EmptyMover DEF PassInv
  <2> QED BY <1>2, <2>1, <2>2, <2>3, <2>4, <2>5, <2>6, <2>7 DEF LMove
<1>3. ASSUME UNCHANGED mover PROVE \A t \in Schedulers : PassInv(t)'
  BY <1>3 DEF PassInv
<1>4. ASSUME NEW j \in Jobs, LGetFails(s, j) PROVE \A t \in Schedulers : PassInv(t)'
  <2>1. ASSUME MoverGet(s, j, FALSE) PROVE \A t \in Schedulers : PassInv(t)'
    BY <1>1, <2>1, GetMover DEF PassInv
  <2> QED BY <1>3, <1>4, <2>1, OtherLoopSteps DEF LGetFails
<1>5. ASSUME MoverAborts(s) \/ CrashScheduler(s) PROVE \A t \in Schedulers : PassInv(t)'
  BY <1>1, <1>5, EmptyMover DEF PassInv
<1> QED BY <1>2, <1>3, <1>4, <1>5, OtherLoopSteps DEF LoopNext, LFault, LCrash

\* Loop steps keep an undisturbed job in one place at most.
LEMMA LoopOnce ==
  ASSUME TypeInv, WaitInv, NEW s \in Schedulers, LoopNext(s), \A t \in Schedulers : PassInv(t),
         Mutex, NEW j \in Jobs, j \notin disturbed', Once(j)
  PROVE  Once(j)'
<1>0. UNCHANGED gor /\ QueueTypeOK /\ Home
  BY LoopLeaves DEF TypeInv, TypeOK, WaitInv
<1>1. \A r \in Requests : Coming(r, j)' => Coming(r, j)
  <2>1. \A r \in Requests : api'[r] \in {api[r], IdleApi}
    BY LoopLeaves DEF CrashScheduler
  <2> QED BY <2>1 DEF Coming, IdleApi, EnqueuePcs
<1>2. delayed'[j] # Absent => delayed[j] # Absent
  BY LoopSets
<1>3. ASSUME ReadyAt(j)' = ReadyAt(j),
             \A t \in Schedulers : Listed(t, j)' => Listed(t, j),
             \A t \in Schedulers : HalfDone(t, j)' => HalfDone(t, j),
             \A t \in Schedulers : HalfDone(t, j) => HalfDone(t, j)' \/ delayed'[j] = Absent
      PROVE  Once(j)'
  BY <1>0, <1>1, <1>2, <1>3, OnceKept
<1>4. ASSUME UNCHANGED ready PROVE ReadyAt(j)' = ReadyAt(j)
  BY <1>4 DEF ReadyAt
<1>5. ASSUME NEW k \in Jobs, LPush(k), k # j PROVE ReadyAt(j)' = ReadyAt(j)
  BY <1>0, <1>5, PushReady
<1>6. ASSUME OtherMovers(s), ReadyAt(j)' = ReadyAt(j), Listed(s, j)' => Listed(s, j),
             HalfDone(s, j)' => HalfDone(s, j),
             HalfDone(s, j) => HalfDone(s, j)' \/ delayed'[j] = Absent
      PROVE  Once(j)'
  BY <1>3, <1>6 DEF OtherMovers, Listed, HalfDone
<1>7. ASSUME UNCHANGED mover, ReadyAt(j)' = ReadyAt(j) PROVE Once(j)'
  BY <1>3, <1>7 DEF Listed, HalfDone
<1>8. ASSUME MoverAcquire(s) PROVE Once(j)'
  BY <1>4, <1>6, <1>8, AcquireMover DEF MoverAcquire, queueVars, Listed, HalfDone
<1>9. ASSUME NEW B \in Batches, MoverScan(s, B) PROVE Once(j)'
  <2>1. /\ OtherMovers(s) /\ mover[s].pc = "scan" /\ mover'[s].pc \in {"release", "get"}
        /\ UNCHANGED <<ready, delayed>> /\ mover'[s].todo = B /\ mover'[s].moves = mover[s].moves
    BY <1>9, ScanMover DEF MoverScan, queueVars
  <2>2. ReadyAt(j)' = ReadyAt(j)
    BY <1>4, <2>1
  <2>3. CASE j \notin B
    BY <1>6, <2>1, <2>2, <2>3 DEF Listed, HalfDone
  <2>4. CASE j \in B
    <3>1. delayed[j] # Absent
      BY <2>4 DEF Batches, DueJobs, Absent
    <3>2. \A t \in Schedulers : ~HalfDone(t, j)
      BY <2>1 DEF Mutex, HalfDone
    <3>3. Free(j) /\ \A r \in Requests : ~Coming(r, j)
      BY <3>1, <3>2 DEF Once, OnceDelayed, OnceComing
    <3>4. Free(j)' /\ \A r \in Requests : ~Coming(r, j)'
      BY <1>0, <1>1, <2>2, <3>3 DEF Free
    <3>5. \A t \in Schedulers : ~HalfDone(t, j)'
      BY <2>1, <3>2 DEF OtherMovers, HalfDone
    <3>6. OnceOut(j)'
      BY <3>4 DEF OnceOut, Free
    <3> QED BY <3>4, <3>5, <3>6 DEF Once, OnceDelayed, OnceComing
  <2> QED BY <2>3, <2>4
<1>10. ASSUME NEW k \in Jobs, NEW found \in BOOLEAN, MoverGet(s, k, found) PROVE Once(j)'
  <2>1. UNCHANGED ready /\ mover[s].pc = "get"
    BY <1>10 DEF MoverGet, queueVars
  <2> QED BY <1>4, <1>6, <1>10, <2>1, GetMover DEF Listed, HalfDone
<1>11. ASSUME NEW k \in Jobs, MoverPush(s, k) PROVE Once(j)'
  <2>1. /\ OtherMovers(s) /\ mover'[s].pc = "rem" /\ mover'[s].job = k /\ k \in mover[s].moves
        /\ mover'[s].todo = mover[s].todo /\ mover'[s].moves = mover[s].moves \ {k}
        /\ LPush(k) /\ UNCHANGED delayed /\ mover[s].pc = "exec"
    BY <1>11, PushMover DEF MoverPush, Push
  <2>2. CASE k # j
    BY <1>5, <1>6, <2>1, <2>2 DEF Listed, HalfDone
  <2>3. CASE k = j
    <3>1. Listed(s, j) /\ Free(j)
      BY <2>1, <2>3 DEF Listed, Once, OnceDelayed
    <3>2. \A t \in Schedulers \ {s} : mover[t].pc = "idle" /\ ~Listed(t, j)
      BY <2>1 DEF Mutex, PassInv, Listed
    <3>3. \A t \in Schedulers : ~Listed(t, j)'
      BY <2>1, <2>3, <3>2 DEF OtherMovers, Listed, PassInv
    <3>4. HalfDone(s, j)'
      BY <2>1, <2>3 DEF HalfDone
    <3>5. \A r \in Requests : ~Coming(r, j)'
      BY <1>1, <3>1 DEF Once, OnceComing
    <3>6. ReadyAt(j)' = {Len(ready[Priority[j]]) + 1}
      BY <1>0, <2>1, <2>3, <3>1, PushReady DEF Free
    <3>7. OnceOut(j)'
      BY <1>0, <3>1, <3>6 DEF OnceOut, Free
    <3> QED BY <3>3, <3>4, <3>5, <3>7 DEF Once, OnceDelayed, OnceComing
  <2> QED BY <2>2, <2>3
<1>12. ASSUME MoverRem(s) PROVE Once(j)'
  <2>1. UNCHANGED ready /\ (HalfDone(s, j) => delayed'[j] = Absent)
    BY <1>0, <1>12 DEF MoverRem, ZRemDelayed, HalfDone, QueueTypeOK
  <2> QED BY <1>4, <1>6, <1>12, <2>1, RemMover DEF Listed, HalfDone
<1>13. ASSUME NEW k \in Jobs, MoverDrop(s, k) PROVE Once(j)'
  <2>1. UNCHANGED ready
    BY <1>13 DEF MoverDrop, ZRemDelayed
  <2> QED BY <1>4, <1>6, <1>13, <2>1, DropMover DEF Listed, HalfDone
<1>14. ASSUME MoverRelease(s) PROVE Once(j)'
  <2>1. UNCHANGED ready /\ ~HalfDone(s, j)
    BY <1>14 DEF MoverRelease, queueVars, HalfDone
  <2> QED BY <1>4, <1>6, <1>14, <2>1, EmptyMover DEF Listed, HalfDone
<1>15. ASSUME MoverAborts(s) \/ CrashScheduler(s), HalfMoved(s) \subseteq disturbed' PROVE Once(j)'
  <2>1. UNCHANGED ready /\ mover'[s].pc # "rem"
    BY <1>15, EmptyMover DEF MoverAborts, CrashScheduler, queueVars
  <2>2. ~HalfDone(s, j)
    BY <1>15, <2>1 DEF HalfMoved, HalfDone
  <2> QED BY <1>4, <1>6, <1>15, <2>1, <2>2, EmptyMover DEF Listed, HalfDone
<1>16. ASSUME LMove(s) PROVE Once(j)'
  <2>1. ASSUME NEW k \in Jobs, MoverGet(s, k, data[k] # NoData) PROVE Once(j)'
    <3>1. (data[k] # NoData) \in BOOLEAN
      OBVIOUS
    <3> QED BY <1>10, <2>1, <3>1
  <2> QED BY <1>8, <1>9, <1>11, <1>12, <1>13, <1>14, <1>16, <2>1 DEF LMove
<1>17. ASSUME LReclaimPush(s) PROVE Once(j)'
  <2>1. /\ LPush(reclaimer[s].job) /\ reclaimer[s].job \in disturbed'
        /\ reclaimer[s].pc = "push" /\ UNCHANGED mover
    BY <1>17 DEF LReclaimPush, ReclaimPush, Push, reclaimFrame
  <2>2. reclaimer[s].job \in Jobs
    BY <2>1 DEF TypeInv, BusyCore
  <2> QED BY <1>5, <1>7, <2>1, <2>2
<1>18. ASSUME LReclaim(s) \/ LCardFails(s) \/ ReclaimAborts(s) \/ MoverAcquireLost(s)
                \/ \E k \in Jobs : ReclaimGet(s, k, FALSE)
       PROVE  Once(j)'
  <2>1. UNCHANGED ready
    BY <1>18 DEF LReclaim, LCardFails, ReclaimAborts, MoverAcquireLost, ReclaimStart, ReclaimKey,
                 ReclaimGet, ReclaimSet, ReclaimRem, ReclaimCard, ReclaimCardFails, ReclaimDel,
                 queueVars, Store, ZRemInflight, DelInflight
  <2> QED BY <1>4, <1>7, <1>18, <2>1, OtherLoopSteps
<1>19. ASSUME NEW k \in Jobs, LGetFails(s, k) PROVE Once(j)'
  BY <1>10, <1>18, <1>19 DEF LGetFails
<1>20. ASSUME LFault(s) \/ LCrash(s) PROVE Once(j)'
  BY <1>15, <1>18, <1>20 DEF LFault, LCrash
<1> QED BY <1>16, <1>17, <1>18, <1>19, <1>20 DEF LoopNext

\* Loop steps keep SingleInv.
LEMMA LoopSingle ==
  ASSUME TypeInv, WaitInv, SingleInv, NEW s \in Schedulers, LoopNext(s)
  PROVE  SingleInv'
<1>1. \A t \in Schedulers : PassInv(t)'
  BY LoopPass DEF SingleInv
<1>2. ASSUME NEW r \in Requests PROVE api'[r].pc = "retryUpdate" => api'[r].op = "retry"
  <2>1. api'[r] = api[r] \/ api'[r] = IdleApi
    BY LoopLeaves DEF CrashScheduler
  <2> QED BY <2>1 DEF SingleInv, IdleApi
<1>3. disturbed \subseteq disturbed'
  BY DEF LoopNext, LMove, LReclaim, LReclaimPush, LGetFails, LCardFails, LFault, LCrash, history
<1>4. ASSUME NEW j \in Jobs \ disturbed' PROVE Mutex' /\ Once(j)'
  <2>1. Mutex /\ Once(j)
    BY <1>3 DEF SingleInv
  <2> QED BY <2>1, LoopMutex, LoopOnce DEF SingleInv
<1> QED BY <1>1, <1>2, <1>4 DEF SingleInv

\* Worker steps keep SingleInv.
LEMMA WorkerSingle ==
  ASSUME TypeInv, DeadInv, WaitInv, SingleInv, NEW g \in Goroutines, WorkerNext(g)
  PROVE  SingleInv'
<1>0. UNCHANGED <<lock, api, mover, disturbed, delayed>> /\ QueueTypeOK /\ Home /\ PoolOf[g] \in Workers
  BY WorkerFrames, PoolAssumption DEF TypeInv, TypeOK, WaitInv
<1>1. /\ \A t \in Schedulers : PassInv(t)'
      /\ \A r \in Requests : api'[r].pc = "retryUpdate" => api'[r].op = "retry"
  BY <1>0 DEF SingleInv, PassInv
<1>2. ASSUME NEW j \in Jobs \ disturbed PROVE Mutex' /\ Once(j)'
  <2>1. Mutex' /\ Once(j)
    BY <1>0 DEF SingleInv, Mutex
  <2>2. /\ \A t \in Schedulers : Listed(t, j)' = Listed(t, j) /\ HalfDone(t, j)' = HalfDone(t, j)
        /\ \A r \in Requests : Coming(r, j)' => Coming(r, j)
    BY <1>0 DEF Listed, HalfDone, Coming
  <2>3. CASE WorkerWorks(g)
    <3>1. \A h \in Goroutines : gor'[h].job = j => gor[h].job = j
      BY <2>3, JobAssumption DEF WorkerWorks, GorWorks, OtherGors
    <3>2. ReadyAt(j)' = ReadyAt(j)
      BY <2>3 DEF WorkerWorks, ReadyAt
    <3> QED BY <1>0, <2>1, <2>2, <3>1, <3>2, OnceKept
  <2>4. ASSUME NEW k \in Jobs, WorkerTakes(g, k), k # j PROVE Once(j)'
    <3>1. \A h \in Goroutines : gor'[h].job = j => gor[h].job = j
      BY <2>4 DEF WorkerTakes, OtherGors
    <3>2. /\ ReadyAt(j) = {} => ReadyAt(j)' = {}
          /\ (\A a, b \in ReadyAt(j) : a = b) => \A a, b \in ReadyAt(j)' : a = b
      BY <1>0, <2>4, PopReady DEF WorkerTakes
    <3> QED BY <1>0, <2>1, <2>2, <3>1, <3>2, OnceKept
  <2>5. ASSUME WorkerTakes(g, j) PROVE Once(j)'
    <3>1. ReadyAt(j) # {} /\ ReadyAt(j)' = {}
      BY <1>0, <2>1, <2>5, PopReady, InReadyAt DEF WorkerTakes, Once, OnceOut
    <3>2. \A h \in Goroutines : gor[h].job # j
      BY <2>1, <3>1 DEF Once, OnceOut
    <3>3. \A h \in Goroutines \ {g} : gor'[h].job # j
      BY <2>5, <3>2 DEF WorkerTakes, OtherGors
    <3>4. OnceOut(j)'
      BY <3>1, <3>3 DEF OnceOut
    <3>5. ~Free(j)
      BY <3>1 DEF Free
    <3>6. OnceDelayed(j)'
      BY <1>0, <2>1, <2>2, <3>5 DEF Once, OnceDelayed
    <3>7. OnceComing(j)'
      BY <2>1, <2>2, <3>5 DEF Once, OnceComing
    <3> QED BY <3>4, <3>6, <3>7 DEF Once
  <2> QED BY <2>1, <2>3, <2>4, <2>5, WorkerShape
<1> QED BY <1>0, <1>1, <1>2 DEF SingleInv

\* Request steps keep SingleInv.
LEMMA RequestSingle ==
  ASSUME TypeInv, WaitInv, SingleInv, NEW r \in Requests, RequestNext(r)
  PROVE  SingleInv'
<1>0. /\ UNCHANGED <<lock, mover, gor>> /\ QueueTypeOK /\ Home /\ OtherRequests(r)
      /\ \A j \in Jobs : UnbornInv(j)
      /\ \A q \in Requests : api[q].pc = "retryUpdate" => api[q].op = "retry"
  BY RequestFrames, RequestShape DEF TypeInv, TypeOK, WaitInv, SingleInv
<1>1. \A t \in Schedulers : PassInv(t)'
  BY <1>0 DEF SingleInv, PassInv
<1>2. api'[r].pc = "retryUpdate" => api'[r].op = "retry"
  BY RequestShape DEF RequestEnters, RequestErrs, RequestWorks, RequestClaims, RequestGoesOn,
                      RequestSubmits, IdleApi
<1>3. disturbed \subseteq disturbed'
  BY RequestShape DEF RequestEnters, RequestWorks, RequestSubmits
<1>4. ASSUME NEW j \in Jobs \ disturbed' PROVE Mutex' /\ Once(j)'
  <2>1. Mutex' /\ Once(j)
    BY <1>0, <1>3 DEF SingleInv, Mutex
  <2>2. \A t \in Schedulers : Listed(t, j)' = Listed(t, j) /\ HalfDone(t, j)' = HalfDone(t, j)
    BY <1>0 DEF Listed, HalfDone
  <2>3. \A q \in Requests \ {r} : Coming(q, j)' = Coming(q, j)
    BY <1>0 DEF OtherRequests, Coming
  <2>4. ASSUME RequestErrs(r), api[r].pc \in EnqueuePcs PROVE Coming(r, j)' => Coming(r, j)
    BY <2>4 DEF RequestErrs, Coming, IdleApi, EnqueuePcs
  <2>5. ASSUME UNCHANGED <<ready, delayed>>, Coming(r, j)' => Coming(r, j) PROVE Once(j)'
    <3>1. ReadyAt(j)' = ReadyAt(j)
      BY <2>5 DEF ReadyAt
    <3> QED BY <1>0, <2>1, <2>2, <2>3, <2>5, <3>1, OnceKept
  <2>6. CASE RequestWorks(r)
    <3>1. Coming(r, j)' => Coming(r, j)
      <4>1. CASE api[r].pc \in EnqueuePcs /\ RequestErrs(r)
        BY <2>4, <4>1
      <4>2. CASE api'[r] = IdleApi
        BY <4>2 DEF Coming, IdleApi, EnqueuePcs
      <4>3. CASE RequestClaims(r)
        BY <4>3 DEF RequestClaims, Coming, EnqueuePcs
      <4>4. CASE RequestGoesOn(r)
        BY <1>0, <4>4 DEF RequestGoesOn, Coming
      <4> QED BY <2>6, <4>1, <4>2, <4>3, <4>4 DEF RequestWorks
    <3> QED BY <2>1, <2>5, <2>6, <3>1 DEF RequestWorks
  <2>7. ASSUME NEW k \in Jobs, RequestSubmits(r, k), k # j PROVE Once(j)'
    BY <2>5, <2>7 DEF RequestSubmits, Coming
  <2>8. ASSUME RequestSubmits(r, j) PROVE Once(j)'
    <3>1. /\ Quiet(j) /\ delayed[j] = Absent /\ \A q \in Requests : api[q].job # j
          /\ UNCHANGED <<ready, delayed>>
      BY <1>0, <2>8 DEF RequestSubmits, UnbornInv
    <3>2. Free(j)' /\ \A t \in Schedulers : ~Listed(t, j)' /\ ~HalfDone(t, j)'
      BY <1>0, <2>2, <3>1 DEF Quiet, QuietQueue, QuietPool, QuietLoops, Free, Listed, HalfDone, ReadyAt
    <3>3. \A q \in Requests : Coming(q, j)' => q = r
      BY <2>3, <3>1 DEF Coming
    <3>4. OnceOut(j)'
      BY <3>2 DEF OnceOut, Free
    <3>5. OnceDelayed(j)' /\ OnceComing(j)'
      BY <3>1, <3>2, <3>3 DEF OnceDelayed, OnceComing
    <3> QED BY <3>4, <3>5 DEF Once
  <2>9. CASE RequestEnters(r) /\ api[r].job # j
    <3>1. ReadyAt(j)' = ReadyAt(j) /\ delayed'[j] = delayed[j]
      BY <1>0, <2>9, EnterFields
    <3>2. Coming(r, j)' => Coming(r, j)
      BY <2>4, <2>9 DEF RequestEnters
    <3> QED BY <1>0, <2>1, <2>2, <2>3, <3>1, <3>2, OnceKept
  <2>10. CASE RequestEnters(r) /\ api[r].job = j
    <3>1. api'[r] = IdleApi /\ Coming(r, j)
      BY <2>10 DEF RequestEnters, Coming
    <3>2. /\ Free(j) /\ delayed[j] = Absent
          /\ \A t \in Schedulers : ~Listed(t, j) /\ ~HalfDone(t, j)
          /\ \A q \in Requests : Coming(q, j) => q = r
      BY <2>1, <3>1 DEF Once, OnceComing
    <3>3. \A q \in Requests : ~Coming(q, j)'
      <4>1. ~Coming(r, j)'
        BY <3>1 DEF Coming, IdleApi, EnqueuePcs
      <4> QED BY <2>3, <3>2, <4>1
    <3>4. \A t \in Schedulers : ~Listed(t, j)' /\ ~HalfDone(t, j)'
      BY <2>2, <3>2
    <3>5. CASE ToReady(api[r])
      <4>1. LPush(j) /\ delayed'[j] = Absent
        BY <1>0, <2>10, <3>2, <3>5, EnterFields
      <4>2. ReadyAt(j)' = {Len(ready[Priority[j]]) + 1}
        BY <1>0, <3>2, <4>1, PushReady DEF Free
      <4>3. OnceOut(j)'
        BY <1>0, <3>2, <4>2 DEF OnceOut, Free
      <4> QED BY <2>1, <3>3, <3>4, <4>1, <4>3 DEF Once, OnceDelayed, OnceComing
    <3>6. CASE ~ToReady(api[r])
      <4>1. UNCHANGED ready
        BY <1>0, <2>10, <3>6, EnterFields
      <4>2. Free(j)'
        BY <1>0, <3>2, <4>1 DEF Free, ReadyAt
      <4>3. OnceOut(j)'
        BY <4>2 DEF OnceOut, Free
      <4> QED BY <2>1, <3>3, <3>4, <4>2, <4>3 DEF Once, OnceDelayed, OnceComing
    <3> QED BY <3>5, <3>6
  <2> QED BY <2>1, <2>6, <2>7, <2>8, <2>9, <2>10, RequestShape
<1> QED BY <1>0, <1>1, <1>2, <1>4 DEF SingleInv, OtherRequests

\* Crashes of workers, time and steps that change nothing.
LEMMA RestSingle ==
  ASSUME TypeInv, SingleInv, Tick \/ UNCHANGED vars \/ \E w \in Workers : WCrash(w)
  PROVE  SingleInv'
<1>0. /\ UNCHANGED <<ready, mover>> /\ disturbed \subseteq disturbed'
      /\ QueueTypeOK /\ gor \in [Goroutines -> GorStates] /\ api \in [Requests -> ApiStates]
  <2>1. disturbed \subseteq Jobs
    BY DEF TypeInv, TypeOK, HistoryTypeOK
  <2> QED BY <2>1, StateTypes
          DEF Tick, QueueTick, CoreTick, vars, queueVars, coreVars, history, WCrash, CrashPool,
              TypeInv, TypeOK
<1>1. \A t \in Schedulers : PassInv(t)'
  BY <1>0 DEF SingleInv, PassInv
<1>2. ASSUME NEW r \in Requests
      PROVE  api'[r].pc = api[r].pc /\ api'[r].job = api[r].job /\ api'[r].op = api[r].op
  <2>1. CASE Tick
    <3>1. api'[r] = [api[r] EXCEPT !.wait = Earlier(api[r].wait)]
      BY <2>1 DEF Tick, CoreTick
    <3> QED BY <1>0, <3>1 DEF ApiStates
  <2>2. CASE UNCHANGED api
    BY <2>2
  <2> QED BY <2>1, <2>2 DEF vars, coreVars, WCrash
<1>3. ASSUME NEW g \in Goroutines PROVE gor'[g].job = gor[g].job \/ gor'[g].job = NoJob
  <2>1. CASE Tick
    <3>1. gor'[g] = [gor[g] EXCEPT !.left = Earlier(gor[g].left), !.due = Earlier(gor[g].due)]
      BY <2>1 DEF Tick, PoolTick
    <3> QED BY <1>0, <3>1 DEF GorStates
  <2>2. ASSUME NEW w \in Workers, WCrash(w) PROVE gor'[g].job = gor[g].job \/ gor'[g].job = NoJob
    BY <2>2 DEF WCrash, CrashPool, Idle
  <2>3. CASE UNCHANGED gor
    BY <2>3
  <2> QED BY <2>1, <2>2, <2>3 DEF vars
<1>4. ASSUME NEW j \in Jobs PROVE delayed'[j] # Absent => delayed[j] # Absent
  <2>1. CASE Tick
    BY <2>1 DEF Tick, QueueTick, Earlier, Absent
  <2>2. CASE UNCHANGED delayed
    BY <2>2
  <2> QED BY <2>1, <2>2 DEF vars, queueVars, WCrash, CrashPool
<1>5. ASSUME Mutex, ~(Tick /\ Overrun) PROVE Mutex'
  <2>1. CASE UNCHANGED lock
    BY <1>0, <1>5, <2>1 DEF Mutex
  <2>2. CASE Tick
    <3> SUFFICES ASSUME NEW s \in Schedulers, mover[s].pc # "idle" PROVE lock'.holder = s
      BY <1>0 DEF Mutex
    <3>1. lock.holder = s /\ lock \in [holder : Schedulers \cup {Nobody}, ttl : Nat]
      BY <1>5 DEF Mutex, TypeInv, TypeOK, LockTypeOK
    <3>2. ~(lock.ttl <= 1)
      BY <1>5, <2>2, <3>1 DEF Overrun
    <3>3. lock' = [lock EXCEPT !.ttl = lock.ttl - 1]
      BY <2>2, <3>2 DEF Tick, LockTick
    <3> QED BY <3>1, <3>3
  <2> QED BY <2>1, <2>2 DEF vars, WCrash
<1>6. ASSUME NEW j \in Jobs \ disturbed' PROVE Mutex' /\ Once(j)'
  <2>1. Mutex /\ Once(j)
    BY <1>0 DEF SingleInv
  <2>2. ~(Tick /\ Overrun)
    BY <1>6 DEF Tick
  <2>3. \A g \in Goroutines : gor'[g].job = j => gor[g].job = j
    BY <1>3, JobAssumption
  <2>4. ReadyAt(j)' = ReadyAt(j)
    BY <1>0 DEF ReadyAt
  <2>5. /\ \A t \in Schedulers : Listed(t, j)' = Listed(t, j) /\ HalfDone(t, j)' = HalfDone(t, j)
        /\ \A r \in Requests : Coming(r, j)' => Coming(r, j)
    BY <1>0, <1>2 DEF Listed, HalfDone, Coming
  <2> QED BY <1>4, <1>5, <2>1, <2>2, <2>3, <2>4, <2>5, OnceKept
<1> QED BY <1>1, <1>2, <1>6 DEF SingleInv

\* Nothing is anywhere at the start.
LEMMA InitSingle == Init => SingleInv
<1> SUFFICES ASSUME Init PROVE SingleInv
  OBVIOUS
<1>1. \A s \in Schedulers : mover[s].pc = "idle" /\ mover[s].todo = {} /\ mover[s].moves = {}
  BY DEF Init, CoreInit, IdleMover
<1>2. \A r \in Requests : api[r].pc = "idle"
  BY DEF Init, CoreInit, IdleApi
<1>3. ASSUME NEW j \in Jobs PROVE Once(j)
  <2>1. ReadyAt(j) = {} /\ delayed[j] = Absent
    BY PriorityAssumption DEF Init, QueueInit, ReadyAt, Priorities
  <2>2. \A g \in Goroutines : gor[g].job # j
    BY JobAssumption DEF Init, PoolInit, Idle
  <2>3. \A r \in Requests : ~Coming(r, j)
    BY <1>2 DEF Coming, EnqueuePcs
  <2> QED BY <1>1, <2>1, <2>2, <2>3
          DEF Once, OnceOut, OnceDelayed, OnceComing, Listed, HalfDone
<1>4. (\A s \in Schedulers : PassInv(s)) /\ Mutex
  BY <1>1 DEF PassInv, Mutex
<1> QED BY <1>2, <1>3, <1>4 DEF SingleInv

\* Every step of the system keeps SingleInv.
LEMMA NextSingle == TypeInv /\ DeadInv /\ WaitInv /\ SingleInv /\ [Next]_vars => SingleInv'
BY WorkerSingle, LoopSingle, RequestSingle, RestSingle DEF Next

\* A job is waiting once or held by one goroutine, unless there is one of the listed
\* reasons.  The invariant counts what is to come: a pass has read, or a request is
\* enqueuing, only jobs that are free, and the lock keeps passes apart.
THEOREM DuplicatesExplainedHolds == Spec => []DuplicatesExplained
<1>1. SingleInv => DuplicatesExplained
  <2> SUFFICES ASSUME SingleInv, NEW j \in Jobs \ disturbed
               PROVE  Cardinality(Running(j)) + Cardinality(ReadyAt(j)) <= 1
    BY DEF DuplicatesExplained
  <2>1. OnceOut(j)
    BY DEF SingleInv, Once
  <2>2. Running(j) = {} \/ \E g : Running(j) = {g}
    BY <2>1 DEF OnceOut, Running
  <2>3. ReadyAt(j) = {} \/ \E i : ReadyAt(j) = {i}
    BY <2>1 DEF OnceOut
  <2>4. Running(j) = {} \/ ReadyAt(j) = {}
    BY <2>1 DEF OnceOut, Running
  <2>5. Cardinality({}) = 0 /\ \A x : Cardinality({x}) = 1
    BY FS_EmptySet, FS_Singleton
  <2>6. Cardinality(Running(j)) = 0 \/ Cardinality(Running(j)) = 1
    BY <2>2, <2>5
  <2>7. Cardinality(ReadyAt(j)) = 0 \/ Cardinality(ReadyAt(j)) = 1
    BY <2>3, <2>5
  <2>8. Cardinality(Running(j)) = 0 \/ Cardinality(ReadyAt(j)) = 0
    BY <2>4, <2>5
  <2> QED BY <2>6, <2>7, <2>8
<1> QED BY <1>1, InitType, NextType, InitDead, NextDead, InitWait, NextWait, InitSingle, NextSingle,
           PTL DEF Spec
=============================================================================
