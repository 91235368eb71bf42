-------------------------- MODULE ManagedLockProofs -------------------------
(***************************************************************************)
(* Proofs about ManagedLock, for every number of clients, every TTL and    *)
(* every number of faults: the variables keep their types, a client that   *)
(* relies on the lock owns its key, a released key is not brought back,    *)
(* and a key that is extended every third of its TTL does not expire under *)
(* an owner that is late by less than what is left of the TTL.             *)
(***************************************************************************)
EXTENDS ManagedLock, TLAPS

USE DEF Key!Nobody, Key!Unlocked

-----------------------------------------------------------------------------
(* The ticker *)

\* ttl/3 is a whole number of ticks, at least one and at most the TTL.
LEMMA PeriodType == ExtendPeriod \in Nat \ {0} /\ ExtendPeriod <= TTL
BY ManagedAssumption DEF ExtendPeriod

\* A ticker below its period goes to the next tick, or fires.
LEMMA TimerStep ==
  ASSUME NEW t \in Nat, t < ExtendPeriod
  PROVE  (t + 1) % ExtendPeriod = IF t + 1 = ExtendPeriod THEN 0 ELSE t + 1
<1> DEFINE P == ExtendPeriod
<1>1. P \in Nat \ {0} /\ t < P
  BY PeriodType
<1> HIDE DEF P
<1>2. CASE t + 1 = P
  <2>1. P % P = 0
    BY <1>1
  <2> QED BY <1>2, <2>1 DEF P
<1>3. CASE t + 1 < P
  <2>1. (t + 1) % P = t + 1
    BY <1>1, <1>3
  <2> QED BY <1>3, <2>1 DEF P
<1> QED BY <1>1, <1>2, <1>3

\* The ticker wraps below its period.
LEMMA TimerBelowPeriod ==
  ASSUME NEW t \in Nat
  PROVE  (t + 1) % ExtendPeriod \in 0 .. ExtendPeriod - 1
<1> DEFINE P == ExtendPeriod
<1>1. P \in Nat \ {0}
  BY PeriodType
<1> HIDE DEF P
<1>2. (t + 1) % P \in 0 .. P - 1
  BY <1>1
<1> QED BY <1>2 DEF P

-----------------------------------------------------------------------------
(* Types *)

\* A stopped and a freshly started goroutine are goroutine states.
LEMMA AutoOffType == AutoOff \in AutoStates /\ AutoStarts \in AutoStates
<1>1. AutoOff \in AutoStates
  BY ManagedAssumption DEF AutoOff, AutoStates
<1>2. AutoStarts \in AutoStates
  BY <1>1 DEF AutoStarts, AutoStates
<1> QED BY <1>1, <1>2

\* A tick takes a goroutine state to a goroutine state.
LEMMA AutoTickType ==
  ASSUME NEW a \in AutoStates
  PROVE  AutoTick(a) \in AutoStates
<1> DEFINE t == (a.timer + 1) % ExtendPeriod
<1> USE DEF AutoStates
<1>1. t \in 0 .. TTL
  BY TimerBelowPeriod, PeriodType, ManagedAssumption
<1> HIDE DEF t
<1>2. CASE a.pc = "off"
  BY <1>2 DEF AutoTick
<1>3. CASE a.pc # "off"
  <2> DEFINE w == a.due \/ a.pc = "calling"
             l == IF ~w THEN 0 ELSE IF a.lag < MaxLag THEN a.lag + 1 ELSE a.lag
  <2>1. l \in 0 .. MaxLag
    BY ManagedAssumption
  <2>2. AutoTick(a) = [a EXCEPT !.timer = t, !.due = a.due \/ t = 0, !.lag = l]
    BY <1>3 DEF AutoTick, t
  <2> HIDE DEF l
  <2> QED BY <1>1, <2>1, <2>2
<1> QED BY <1>2, <1>3

\* The types alone, without what ManagedTypeOK says of the TTL.
LEMMA TypeStep == ManagedTypeOK /\ [ManagedNext]_vars => ManagedTypeOK'
<1> SUFFICES ASSUME ManagedTypeOK, [ManagedNext]_vars PROVE ManagedTypeOK'
  OBVIOUS
<1> USE DEF ManagedTypeOK, Key!LockTypeOK
<1>1. ASSUME NEW c \in Clients, AcquireSend(c) PROVE ManagedTypeOK'
  BY <1>1 DEF AcquireSend, history, MainPcs
<1>2. ASSUME NEW c \in Clients, AcquireRuns(c) PROVE ManagedTypeOK'
  BY <1>2, ManagedAssumption DEF AcquireRuns, Key!Acquire, history, MainPcs
<1>3. ASSUME NEW c \in Clients, AcquireHeld(c) PROVE ManagedTypeOK'
  BY <1>3 DEF AcquireHeld, history, MainPcs
<1>4. ASSUME NEW c \in Clients, WaitEnds(c) PROVE ManagedTypeOK'
  BY <1>4 DEF WaitEnds, history, MainPcs
<1>5. ASSUME NEW c \in Clients, AcquireReturns(c) PROVE ManagedTypeOK'
  <2>1. auto' \in [Clients -> AutoStates]
    BY <1>5, AutoOffType DEF AcquireReturns
  <2> QED BY <1>5, <2>1 DEF AcquireReturns, history, MainPcs
<1>6. ASSUME NEW c \in Clients, AcquireFails(c) PROVE ManagedTypeOK'
  BY <1>6, ManagedAssumption DEF AcquireFails, Fault, GiveUp, history, MainPcs
<1>7. ASSUME NEW c \in Clients, AutoSend(c) PROVE ManagedTypeOK'
  <2>1. [auto[c] EXCEPT !.pc = "calling", !.due = FALSE] \in AutoStates
    BY DEF AutoStates
  <2> QED BY <1>7, <2>1 DEF AutoSend, history
<1>8. ASSUME NEW c \in Clients, AutoExtends(c) PROVE ManagedTypeOK'
  <2>1. Key!LockTypeOK' /\ lock'.ttl <= TTL
    BY <1>8, ManagedAssumption DEF AutoExtends, Key!Extend
  <2>2. auto' \in [Clients -> AutoStates]
    <3>1. [auto[c] EXCEPT !.pc = "select", !.lag = 0] \in AutoStates
      <4>1. auto[c] \in AutoStates /\ 0 \in 0 .. MaxLag
        BY ManagedAssumption
      <4> QED BY <4>1 DEF AutoStates
    <3> QED BY <1>8, <3>1, AutoOffType DEF AutoExtends
  <2> QED BY <1>8, <2>1, <2>2 DEF AutoExtends, history
<1>9. ASSUME NEW c \in Clients, AutoFails(c) PROVE ManagedTypeOK'
  BY <1>9, ManagedAssumption, AutoOffType DEF AutoFails, Fault, GiveUp
<1>10. ASSUME NEW c \in Clients, AutoStop(c) PROVE ManagedTypeOK'
  BY <1>10, AutoOffType DEF AutoStop, history
<1>11. ASSUME NEW c \in Clients, ReleaseSend(c) PROVE ManagedTypeOK'
  BY <1>11 DEF ReleaseSend, history, MainPcs
<1>12. ASSUME NEW c \in Clients, ReleaseRuns(c) PROVE ManagedTypeOK'
  BY <1>12, ManagedAssumption DEF ReleaseRuns, Key!Release, MainPcs
<1>13. ASSUME NEW c \in Clients, ReleaseFails(c) PROVE ManagedTypeOK'
  BY <1>13, ManagedAssumption DEF ReleaseFails, Fault, GiveUp, history, MainPcs
<1>14. ASSUME NEW c \in Clients, Cancel(c) PROVE ManagedTypeOK'
  BY <1>14 DEF Cancel, history
<1>15. ASSUME NEW c \in Clients, Crash(c) PROVE ManagedTypeOK'
  <2>1. stray' \subseteq [op : {"acquire", "release", "extend"}, c : Clients]
    BY <1>15 DEF Crash
  <2>2. main' \in [Clients -> MainPcs]
    BY <1>15 DEF Crash, MainPcs
  <2>3. auto' \in [Clients -> AutoStates]
    BY <1>15, AutoOffType DEF Crash
  <2>4. faults' \in 0 .. MaxFaults
    BY <1>15, ManagedAssumption DEF Crash, Fault
  <2> QED BY <1>15, <2>1, <2>2, <2>3, <2>4 DEF Crash, history
<1>16. ASSUME NEW m \in stray, StrayRuns(m) PROVE ManagedTypeOK'
  <2>1. Key!LockTypeOK' /\ lock'.ttl <= TTL
    BY <1>16, ManagedAssumption DEF StrayRuns, Key!Acquire, Key!Release, Key!Extend
  <2> QED BY <1>16, <2>1 DEF StrayRuns, history
<1>17. ASSUME Tick PROVE ManagedTypeOK'
  <2>1. Key!LockTypeOK' /\ lock'.ttl <= TTL
    BY <1>17, ManagedAssumption DEF Tick, Key!LockTick
  <2>2. auto' \in [Clients -> AutoStates]
    BY <1>17, AutoTickType DEF Tick
  <2> QED BY <1>17, <2>1, <2>2 DEF Tick
<1>18. ASSUME UNCHANGED vars PROVE ManagedTypeOK'
  BY <1>18 DEF vars
<1> QED
  BY <1>1, <1>2, <1>3, <1>4, <1>5, <1>6, <1>7, <1>8, <1>9, <1>10, <1>11, <1>12,
     <1>13, <1>14, <1>15, <1>16, <1>17, <1>18 DEF ManagedNext, ClientNext

\* Every variable keeps its type and the key never outlives its TTL.
THEOREM ManagedTypeCorrect == ManagedSpec => []ManagedTypeOK
<1>1. ManagedInit => ManagedTypeOK
  BY ManagedAssumption, AutoOffType DEF ManagedInit, ManagedTypeOK, Key!LockInit,
     Key!LockTypeOK, MainPcs
<1> QED BY <1>1, TypeStep, PTL DEF ManagedSpec

-----------------------------------------------------------------------------
(* Ownership *)

\* HeldIsOwned with what makes it inductive: a release that was given up is of a
\* client that is done, and so cannot take the key from one that relies on it.
Ownership ==
    /\ HeldIsOwned
    /\ \A m \in stray : m.op = "release" => main[m.c] = "done"

\* Every step keeps the tie between the key's token and its client's step.
LEMMA OwnershipStep == ManagedTypeOK /\ Ownership /\ [ManagedNext]_vars => Ownership'
<1> SUFFICES ASSUME ManagedTypeOK, Ownership, [ManagedNext]_vars PROVE Ownership'
  OBVIOUS
<1> USE DEF Ownership, HeldIsOwned, ManagedTypeOK, Key!LockTypeOK
<1>1. ASSUME NEW c \in Clients, AcquireSend(c) PROVE Ownership'
  BY <1>1 DEF AcquireSend, history
<1>2. ASSUME NEW c \in Clients, AcquireRuns(c) PROVE Ownership'
  BY <1>2, ManagedAssumption DEF AcquireRuns, Key!Acquire, history
<1>3. ASSUME NEW c \in Clients, AcquireHeld(c) PROVE Ownership'
  BY <1>3 DEF AcquireHeld, history
<1>4. ASSUME NEW c \in Clients, WaitEnds(c) PROVE Ownership'
  BY <1>4 DEF WaitEnds, history
<1>5. ASSUME NEW c \in Clients, AcquireReturns(c) PROVE Ownership'
  BY <1>5 DEF AcquireReturns, history
<1>6. ASSUME NEW c \in Clients, AcquireFails(c) PROVE Ownership'
  BY <1>6, ManagedAssumption DEF AcquireFails, GiveUp, history
<1>7. ASSUME NEW c \in Clients, AutoSend(c) PROVE Ownership'
  BY <1>7 DEF AutoSend, history
<1>8. ASSUME NEW c \in Clients, AutoExtends(c) PROVE Ownership'
  BY <1>8 DEF AutoExtends, Key!Extend, history
<1>9. ASSUME NEW c \in Clients, AutoFails(c) PROVE Ownership'
  BY <1>9 DEF AutoFails, GiveUp
<1>10. ASSUME NEW c \in Clients, AutoStop(c) PROVE Ownership'
  BY <1>10 DEF AutoStop, history
<1>11. ASSUME NEW c \in Clients, ReleaseSend(c) PROVE Ownership'
  BY <1>11 DEF ReleaseSend, history
<1>12. ASSUME NEW c \in Clients, ReleaseRuns(c) PROVE Ownership'
  BY <1>12, ManagedAssumption DEF ReleaseRuns, Key!Release
<1>13. ASSUME NEW c \in Clients, ReleaseFails(c) PROVE Ownership'
  BY <1>13 DEF ReleaseFails, GiveUp, history
<1>14. ASSUME NEW c \in Clients, Cancel(c) PROVE Ownership'
  BY <1>14 DEF Cancel, history
<1>15. ASSUME NEW c \in Clients, Crash(c) PROVE Ownership'
  BY <1>15 DEF Crash, history
<1>16. ASSUME NEW m \in stray, StrayRuns(m) PROVE Ownership'
  BY <1>16, ManagedAssumption DEF StrayRuns, Key!Acquire, Key!Release, Key!Extend, history
<1>17. ASSUME Tick PROVE Ownership'
  BY <1>17, ManagedAssumption DEF Tick, Key!LockTick
<1>18. ASSUME UNCHANGED vars PROVE Ownership'
  BY <1>18 DEF vars
<1> QED
  BY <1>1, <1>2, <1>3, <1>4, <1>5, <1>6, <1>7, <1>8, <1>9, <1>10, <1>11, <1>12,
     <1>13, <1>14, <1>15, <1>16, <1>17, <1>18 DEF ManagedNext, ClientNext

\* A client that relies on the lock owns the key unless it expired under it, for
\* every interleaving with calls that run late, fail or were given up.
THEOREM HeldIsOwnedHolds == ManagedSpec => []HeldIsOwned
<1>1. ManagedInit => Ownership
  BY DEF ManagedInit, Ownership, HeldIsOwned
<1>2. Ownership => HeldIsOwned
  BY DEF Ownership
<1> QED BY <1>1, <1>2, OwnershipStep, ManagedTypeCorrect, PTL DEF ManagedSpec

\* A client whose release succeeded is done: it sends no further Acquire, and the
\* calls it may still have in flight do not create the key.
ReleasedIsDone == \A c \in released : main[c] = "done" /\ lock.holder # c

\* Every step keeps released locks done.
LEMMA ReleasedStep == ManagedTypeOK /\ ReleasedIsDone /\ [ManagedNext]_vars => ReleasedIsDone'
<1> SUFFICES ASSUME ManagedTypeOK, ReleasedIsDone, [ManagedNext]_vars PROVE ReleasedIsDone'
  OBVIOUS
<1> USE DEF ReleasedIsDone, ManagedTypeOK, Key!LockTypeOK
<1>1. ASSUME NEW c \in Clients, AcquireSend(c) PROVE ReleasedIsDone'
  BY <1>1 DEF AcquireSend, history
<1>2. ASSUME NEW c \in Clients, AcquireRuns(c) PROVE ReleasedIsDone'
  BY <1>2, ManagedAssumption DEF AcquireRuns, Key!Acquire, history
<1>3. ASSUME NEW c \in Clients, AcquireHeld(c) PROVE ReleasedIsDone'
  BY <1>3 DEF AcquireHeld, history
<1>4. ASSUME NEW c \in Clients, WaitEnds(c) PROVE ReleasedIsDone'
  BY <1>4 DEF WaitEnds, history
<1>5. ASSUME NEW c \in Clients, AcquireReturns(c) PROVE ReleasedIsDone'
  BY <1>5 DEF AcquireReturns, history
<1>6. ASSUME NEW c \in Clients, AcquireFails(c) PROVE ReleasedIsDone'
  BY <1>6, ManagedAssumption DEF AcquireFails, GiveUp, history
<1>7. ASSUME NEW c \in Clients, AutoSend(c) PROVE ReleasedIsDone'
  BY <1>7 DEF AutoSend, history
<1>8. ASSUME NEW c \in Clients, AutoExtends(c) PROVE ReleasedIsDone'
  BY <1>8 DEF AutoExtends, Key!Extend, history
<1>9. ASSUME NEW c \in Clients, AutoFails(c) PROVE ReleasedIsDone'
  BY <1>9 DEF AutoFails, GiveUp
<1>10. ASSUME NEW c \in Clients, AutoStop(c) PROVE ReleasedIsDone'
  BY <1>10 DEF AutoStop, history
<1>11. ASSUME NEW c \in Clients, ReleaseSend(c) PROVE ReleasedIsDone'
  BY <1>11 DEF ReleaseSend, history
<1>12. ASSUME NEW c \in Clients, ReleaseRuns(c) PROVE ReleasedIsDone'
  BY <1>12, ManagedAssumption DEF ReleaseRuns, Key!Release
<1>13. ASSUME NEW c \in Clients, ReleaseFails(c) PROVE ReleasedIsDone'
  BY <1>13 DEF ReleaseFails, GiveUp, history
<1>14. ASSUME NEW c \in Clients, Cancel(c) PROVE ReleasedIsDone'
  BY <1>14 DEF Cancel, history
<1>15. ASSUME NEW c \in Clients, Crash(c) PROVE ReleasedIsDone'
  BY <1>15 DEF Crash, history
<1>16. ASSUME NEW m \in stray, StrayRuns(m) PROVE ReleasedIsDone'
  BY <1>16, ManagedAssumption DEF StrayRuns, Key!Acquire, Key!Release, Key!Extend, history
<1>17. ASSUME Tick PROVE ReleasedIsDone'
  BY <1>17, ManagedAssumption DEF Tick, Key!LockTick
<1>18. ASSUME UNCHANGED vars PROVE ReleasedIsDone'
  BY <1>18 DEF vars
<1> QED
  BY <1>1, <1>2, <1>3, <1>4, <1>5, <1>6, <1>7, <1>8, <1>9, <1>10, <1>11, <1>12,
     <1>13, <1>14, <1>15, <1>16, <1>17, <1>18 DEF ManagedNext, ClientNext

\* Once Release has reported success no call of that client, not even an Extend
\* in flight when done was closed, brings its key back.
THEOREM ReleasedStaysReleasedHolds == ManagedSpec => []ReleasedStaysReleased
<1>1. ManagedInit => ReleasedIsDone
  BY DEF ManagedInit, ReleasedIsDone
<1>2. ReleasedIsDone => ReleasedStaysReleased
  BY DEF ReleasedIsDone, ReleasedStaysReleased
<1> QED BY <1>1, <1>2, ReleasedStep, ManagedTypeCorrect, PTL DEF ManagedSpec

-----------------------------------------------------------------------------
(* Extension in time *)

\* A tick of the ticker, or the call it caused, is waiting to be served.
Waits(c) == auto[c].due \/ auto[c].pc = "calling"

\* The key has lost no more of its TTL than the ticker has counted since the last
\* extension: less than a period, or a period and the time a tick has waited.
OnTime(c) ==
    /\ auto[c].pc # "off" /\ auto[c].timer < ExtendPeriod
    /\ lock.holder = c
    /\ TTL - lock.ttl <= IF Waits(c) THEN ExtendPeriod + auto[c].lag ELSE auto[c].timer

\* LapsesOnlyAfterFailure made inductive: a punctual owner has a fresh key when
\* Acquire returns and a running autoExtend that is on time from then on.
Punctual ==
    \A c \in Managed \ (broken \cup paused) :
        /\ c \notin lapsed
        /\ main[c] = "answered" => lock.holder = c /\ lock.ttl = TTL
        /\ main[c] = "held" => OnTime(c)

\* An extension changes nothing for an owner but the TTL, which it makes full.
LEMMA ExtendKeeps ==
  ASSUME ManagedTypeOK, NEW c \in Clients, NEW d \in Clients,
         Key!Extend(c), auto'[d] = auto[d]
  PROVE  /\ lock.holder = d /\ lock.ttl = TTL => lock'.holder = d /\ lock'.ttl = TTL
         /\ OnTime(d) => OnTime(d)'
<1>1. lock'.holder = lock.holder /\ lock'.ttl \in {lock.ttl, TTL} /\ lock.ttl \in Nat
  BY DEF Key!Extend, ManagedTypeOK, Key!LockTypeOK
<1>2. auto[d].timer \in Nat /\ auto[d].lag \in Nat
  BY ManagedAssumption DEF ManagedTypeOK, AutoStates
<1> QED BY <1>1, <1>2, PeriodType, ManagedAssumption DEF OnTime, Waits

\* While no client is late, every step leaves the TTL above the ticker's phase.
LEMMA PunctualStep ==
  ASSUME ExtendPeriod + MaxLag < TTL
  PROVE  ManagedTypeOK /\ Ownership /\ Punctual /\ [ManagedNext]_vars => Punctual'
<1> SUFFICES ASSUME ManagedTypeOK, Ownership, Punctual, [ManagedNext]_vars PROVE Punctual'
  OBVIOUS
<1> USE DEF Ownership, Punctual, OnTime, Waits, ManagedTypeOK, Key!LockTypeOK
<1>1. ASSUME NEW c \in Clients, AcquireSend(c) PROVE Punctual'
  BY <1>1 DEF AcquireSend, history
<1>2. ASSUME NEW c \in Clients, AcquireRuns(c) PROVE Punctual'
  BY <1>2, ManagedAssumption DEF AcquireRuns, Key!Acquire, history
<1>3. ASSUME NEW c \in Clients, AcquireHeld(c) PROVE Punctual'
  BY <1>3 DEF AcquireHeld, history
<1>4. ASSUME NEW c \in Clients, WaitEnds(c) PROVE Punctual'
  BY <1>4 DEF WaitEnds, history
<1>5. ASSUME NEW c \in Clients, AcquireReturns(c) PROVE Punctual'
  BY <1>5, PeriodType DEF AcquireReturns, history, AutoStarts, AutoOff
<1>6. ASSUME NEW c \in Clients, AcquireFails(c) PROVE Punctual'
  BY <1>6, ManagedAssumption DEF AcquireFails, GiveUp, history
<1>7. ASSUME NEW c \in Clients, AutoSend(c) PROVE Punctual'
  BY <1>7, PeriodType DEF AutoSend, history
<1>8. ASSUME NEW c \in Clients, AutoExtends(c) PROVE Punctual'
  <2> SUFFICES ASSUME NEW d \in Managed, d \notin broken, d \notin paused
               PROVE  /\ d \notin lapsed
                      /\ main[d] = "answered" => lock'.holder = d /\ lock'.ttl = TTL
                      /\ main[d] = "held" => OnTime(d)'
    BY <1>8 DEF AutoExtends, history
  <2>1. d \in Clients /\ auto[d] \in AutoStates /\ auto[c] \in AutoStates
    BY ManagedAssumption
  <2>2. CASE d # c
    BY <1>8, <2>1, <2>2, ExtendKeeps DEF AutoExtends
  <2>3. CASE d = c /\ main[c] = "held"
    <3>1. lock.holder = c
      BY <2>3
    <3>2. auto'[c] = [auto[c] EXCEPT !.pc = "select", !.lag = 0] /\ lock'.ttl = TTL /\ lock'.holder = c
      BY <1>8, <3>1 DEF AutoExtends, Key!Extend
    <3> QED BY <2>1, <2>3, <3>1, <3>2, PeriodType, ManagedAssumption DEF AutoStates
  <2>4. CASE d = c /\ main[c] # "held"
    BY <1>8, <2>4 DEF AutoExtends, Key!Extend
  <2> QED BY <2>2, <2>3, <2>4
<1>9. ASSUME NEW c \in Clients, AutoFails(c) PROVE Punctual'
  BY <1>9 DEF AutoFails, GiveUp
<1>10. ASSUME NEW c \in Clients, AutoStop(c) PROVE Punctual'
  BY <1>10 DEF AutoStop, history
<1>11. ASSUME NEW c \in Clients, ReleaseSend(c) PROVE Punctual'
  BY <1>11 DEF ReleaseSend, history
<1>12. ASSUME NEW c \in Clients, ReleaseRuns(c) PROVE Punctual'
  BY <1>12, ManagedAssumption DEF ReleaseRuns, Key!Release
<1>13. ASSUME NEW c \in Clients, ReleaseFails(c) PROVE Punctual'
  BY <1>13 DEF ReleaseFails, GiveUp, history
<1>14. ASSUME NEW c \in Clients, Cancel(c) PROVE Punctual'
  BY <1>14 DEF Cancel, history
<1>15. ASSUME NEW c \in Clients, Crash(c) PROVE Punctual'
  BY <1>15 DEF Crash, history
<1>16. ASSUME NEW m \in stray, StrayRuns(m) PROVE Punctual'
  <2> USE <1>16 DEF StrayRuns, history
  <2>1. CASE m.op = "acquire"
    BY <2>1, ManagedAssumption DEF Key!Acquire
  <2>2. CASE m.op = "release" /\ Key!Release(m.c)
    BY <2>2, ManagedAssumption DEF Key!Release
  <2>3. CASE m.op = "extend" /\ Key!Extend(m.c)
    <3> SUFFICES ASSUME NEW d \in Managed, d \notin broken, d \notin paused
                 PROVE  /\ d \notin lapsed
                        /\ main[d] = "answered" => lock'.holder = d /\ lock'.ttl = TTL
                        /\ main[d] = "held" => OnTime(d)'
      OBVIOUS
    <3>1. d \in Clients /\ m.c \in Clients
      BY ManagedAssumption
    <3> QED BY <2>3, <3>1, ExtendKeeps
  <2> QED BY <2>1, <2>2, <2>3
<1>17. ASSUME Tick PROVE Punctual'
  <2> SUFFICES ASSUME NEW c \in Managed, c \notin broken', c \notin paused'
               PROVE  /\ c \notin lapsed'
                      /\ main'[c] = "answered" => lock'.holder = c /\ lock'.ttl = TTL
                      /\ main'[c] = "held" => OnTime(c)'
    OBVIOUS
  <2>1. /\ c \in Clients /\ c \notin broken /\ c \notin paused /\ c \notin lapsed /\ ~Late(c)
        /\ main' = main
    BY <1>17, ManagedAssumption DEF Tick
  <2>2. main[c] # "answered"
    BY <2>1 DEF Late
  <2>3. CASE main[c] # "held"
    BY <1>17, <2>1, <2>2, <2>3 DEF Tick
  <2>4. CASE main[c] = "held"
    <3> DEFINE a == auto[c]
               t == (a.timer + 1) % ExtendPeriod
    <3>1. OnTime(c) /\ a \in AutoStates /\ auto'[c] = AutoTick(a)
      BY <1>17, <2>1, <2>4 DEF Tick
    <3>2. t = IF a.timer + 1 = ExtendPeriod THEN 0 ELSE a.timer + 1
      BY <3>1, TimerStep DEF AutoStates
    <3>3. ~Waits(c) \/ a.lag < MaxLag
      BY <2>1, <3>1, ManagedAssumption DEF Late, AutoStates
    <3>4. lock.ttl > 1
      BY <3>1, <3>3, PeriodType, ManagedAssumption DEF AutoStates
    <3>5. lock'.holder = c /\ lock'.ttl = lock.ttl - 1 /\ c \notin lapsed'
      BY <1>17, <2>1, <3>1, <3>4 DEF Tick, Key!LockTick
    <3> HIDE DEF t
    <3>6. /\ auto'[c].pc = a.pc /\ auto'[c].timer = t /\ (Waits(c)' <=> Waits(c) \/ t = 0)
          /\ auto'[c].lag = IF Waits(c) THEN a.lag + 1 ELSE 0
      BY <3>1, <3>3 DEF AutoTick, t, AutoStates
    <3> HIDE DEF Waits
    <3>7. OnTime(c)'
      <4>1. /\ t \in Nat /\ t < ExtendPeriod /\ ExtendPeriod \in Nat /\ TTL \in Nat
            /\ a.timer \in Nat /\ a.lag \in Nat /\ lock.ttl \in Nat
        <5>1. a.timer \in Nat /\ a.lag \in Nat /\ a.timer < ExtendPeriod /\ lock.ttl \in Nat
          BY <3>1, ManagedAssumption DEF AutoStates
        <5> QED BY <3>2, <5>1, PeriodType, ManagedAssumption
      <4>2. CASE Waits(c)
        <5>1. Waits(c)' /\ auto'[c].lag = a.lag + 1 /\ TTL - lock.ttl <= ExtendPeriod + a.lag
          BY <3>1, <3>6, <4>2
        <5>2. TTL - lock'.ttl <= ExtendPeriod + auto'[c].lag
          BY <3>5, <4>1, <5>1
        <5> QED BY <3>1, <3>5, <3>6, <4>1, <5>1, <5>2
      <4>3. CASE ~Waits(c) /\ t = 0
        BY <3>1, <3>2, <3>5, <3>6, <4>1, <4>3
      <4>4. CASE ~Waits(c) /\ t # 0
        BY <3>1, <3>2, <3>5, <3>6, <4>1, <4>4
      <4> QED BY <4>2, <4>3, <4>4
    <3> QED BY <2>1, <2>2, <2>4, <3>5, <3>7
  <2> QED BY <2>3, <2>4
<1>18. ASSUME UNCHANGED vars PROVE Punctual'
  BY <1>18 DEF vars
<1> QED
  BY <1>1, <1>2, <1>3, <1>4, <1>5, <1>6, <1>7, <1>8, <1>9, <1>10, <1>11, <1>12,
     <1>13, <1>14, <1>15, <1>16, <1>17, <1>18 DEF ManagedNext, ClientNext

\* Extending every third of the TTL is enough: as long as the lateness that counts
\* as a failure is below the rest of the TTL, the key of a DistributedLock expires
\* under its owner only if an Extend returned an error or the process was late.
THEOREM LapsesOnlyAfterFailureHolds ==
  ASSUME ExtendPeriod + MaxLag < TTL
  PROVE  ManagedSpec => []LapsesOnlyAfterFailure
<1>1. ManagedInit => Ownership /\ Punctual
  BY ManagedAssumption DEF ManagedInit, Ownership, HeldIsOwned, Punctual
<1>2. ManagedTypeOK /\ Punctual => LapsesOnlyAfterFailure
  BY DEF Punctual, LapsesOnlyAfterFailure
<1>3. ManagedTypeOK /\ Ownership /\ Punctual /\ [ManagedNext]_vars => Punctual'
  BY PunctualStep
<1> QED BY <1>1, <1>2, <1>3, OwnershipStep, ManagedTypeCorrect, PTL DEF ManagedSpec
=============================================================================
