-------------------------- MODULE CronEngineProofs --------------------------
(***************************************************************************)
(* Proofs about CronEngine: its variables keep their types, and a matching *)
(* minute yields at most one instance and is passed over only for cause,   *)
(* for every calendar, expression and search limit.                        *)
(***************************************************************************)
EXTENDS CronEngine, WellFoundedInduction, TLAPS

-----------------------------------------------------------------------------
(* Minutes and the parser *)

\* A non-empty set of natural numbers has the least element that ParseCron returns.
LEMMA MinIsLeast ==
  ASSUME NEW S \in SUBSET Nat, S # {}
  PROVE  Min(S) \in S /\ \A y \in S : Min(S) <= y
<1> DEFINE R == OpToRel(<, Nat)
<1>1. IsWellFoundedOn(R, Nat)
  BY NatLessThanWellFounded
<1>2. \A x, y \in Nat : y < x => <<y, x>> \in R
  BY DEF OpToRel
<1> HIDE DEF R
<1>3. PICK x \in S : \A y \in S : ~(<<y, x>> \in R)
  BY <1>1, WFMin
<1>4. ASSUME NEW y \in S PROVE x <= y
  <2>1. ~(y < x)
    BY <1>2, <1>3
  <2> QED BY <2>1
<1> QED BY <1>4 DEF Min

\* The minute of a tick: the clock never leaves LastMinute, and a minute whose
\* first tick has passed is not after it.
LEMMA MinuteBounds ==
  ASSUME NEW t \in 0 .. Horizon
  PROVE  /\ MinuteOf(t) \in 0 .. LastMinute
         /\ \A m \in Nat : m * TicksPerMinute <= t => m <= MinuteOf(t)
<1> DEFINE T == TicksPerMinute
           q == t \div T
<1>1. T \in Nat \ {0} /\ LastMinute \in Nat
  BY CronAssumption
<1>2. t \in Nat /\ t < (LastMinute + 1) * T
  BY <1>1 DEF Horizon
<1>3. q \in Nat /\ q * T <= t /\ t < (q + 1) * T
  BY <1>1, <1>2
<1> HIDE DEF q, T
<1>4. ASSUME NEW a \in Nat, NEW b \in Nat, a * T < b * T PROVE a < b
  <2>1. b <= a => b * T <= a * T
    BY <1>1
  <2> QED BY <1>1, <1>4, <2>1
<1>5. q < LastMinute + 1
  <2>1. q * T < (LastMinute + 1) * T
    BY <1>1, <1>2, <1>3
  <2> QED BY <1>1, <1>3, <1>4, <2>1
<1>6. ASSUME NEW m \in Nat, m * T <= t PROVE m <= q
  <2>1. m * T < (q + 1) * T
    BY <1>1, <1>2, <1>3, <1>6
  <2>2. m < q + 1
    BY <1>3, <1>4, <2>1
  <2> QED BY <1>3, <2>2
<1> QED BY <1>1, <1>3, <1>5, <1>6 DEF MinuteOf, q, T

\* ParseCron fails, or returns a minute after the one it is called in.
LEMMA ParseCronAfter ==
  ASSUME NEW d \in Definitions, NEW from \in 0 .. LastMinute
  PROVE  \/ ParseCron(d, from) = NotFound
         \/ ParseCron(d, from) \in Minutes /\ from < ParseCron(d, from)
<1>1. Candidates(d, from) \in SUBSET Nat
  BY CronAssumption DEF Candidates
<1>2. CASE Candidates(d, from) = {}
  BY <1>2 DEF ParseCron
<1>3. CASE Candidates(d, from) # {}
  <2>1. Min(Candidates(d, from)) \in Candidates(d, from)
    BY <1>1, <1>3, MinIsLeast
  <2>2. ParseCron(d, from) \in from + 1 .. from + MaxIterations
    BY <1>3, <2>1 DEF ParseCron, Candidates
  <2>3. MaxIterations \in Nat /\ LastMinute \in Nat
    BY CronAssumption
  <2> QED BY <2>2, <2>3 DEF Minutes
<1> QED BY <1>2, <1>3
-----------------------------------------------------------------------------
(* The invariants *)

\* What a pass and a registration hold on to: now is not ahead of the clock, a
\* listed definition is registered, the one being fired is due, and a parsed
\* registration has a run.
CronBusy ==
    /\ pass.now <= clock
    /\ \A d \in pass.todo : nextRun[d] # Unregistered
    /\ pass.pc \in Busy => /\ pass.job \in Definitions
                           /\ nextRun[pass.job] # Unregistered
                           /\ nextRun[pass.job] * TicksPerMinute < pass.now
    /\ \A d \in Definitions :
         request[d].pc \in {"persist", "insert"} => request[d].next # Unregistered

\* Nothing fires before registration.  A minute that has fired lies before
\* CronNextRun, or is CronNextRun in a pass that is about to advance it.
RunInv ==
    \A d \in Definitions :
      /\ request[d].pc # "closed" =>
           nextRun[d] = Unregistered /\ \A m \in Minutes : fired[d][m] = 0
      /\ d \notin excused => \A m \in Minutes :
           /\ fired[d][m] <= 1
           /\ fired[d][m] = 1 /\ nextRun[d] # Unregistered =>
                \/ m < nextRun[d]
                \/ m = nextRun[d] /\ pass.pc = "next" /\ pass.job = d
-----------------------------------------------------------------------------
(* Types *)

\* The last tick is a natural number.
LEMMA HorizonNat == Horizon \in Nat
<1>1. TicksPerMinute \in Nat \ {0} /\ LastMinute \in Nat
  BY CronAssumption
<1>2. (LastMinute + 1) * TicksPerMinute >= 1
  BY <1>1
<1> QED BY <1>1, <1>2 DEF Horizon

\* An idle pass has its type.
LEMMA NoPassType ==
  NoPass \in [pc : {"idle", "loop"} \cup Busy, now : 0 .. Horizon,
              todo : SUBSET Definitions, job : Definitions \cup {NoDefinition}]
<1>1. 0 \in 0 .. Horizon
  BY HorizonNat
<1> QED BY <1>1 DEF NoPass

\* The initial state has the right types and no pass or registration under way.
LEMMA InitCron == Init => CronTypeOK /\ CronBusy /\ RunInv
<1> SUFFICES ASSUME Init PROVE CronTypeOK /\ CronBusy /\ RunInv
  OBVIOUS
<1>1. clock \in 0 .. Horizon /\ failures \in 0 .. MaxFailures
  BY HorizonNat, CronAssumption DEF Init
<1>2. /\ nextRun \in [Definitions -> Minutes \cup {Unregistered}]
      /\ fired \in [Definitions -> [Minutes -> Nat]]
      /\ backlog \in [Definitions -> SUBSET Minutes]
      /\ excused \subseteq Definitions
  BY DEF Init
<1>3. request \in [Definitions -> [pc : {"new", "persist", "insert", "closed"},
                                  next : Minutes \cup {Unregistered}]]
  BY DEF Init, NoRequest
<1>4. CronTypeOK
  BY <1>1, <1>2, <1>3, NoPassType DEF Init, CronTypeOK
<1>5. CronBusy
  BY DEF Init, CronBusy, NoRequest, NoPass, Busy
<1>6. RunInv
  BY DEF Init, RunInv, NoRequest
<1> QED BY <1>4, <1>5, <1>6

\* Every step keeps the types, and what passes and registrations rely on.
LEMMA NextCronType ==
  ASSUME CronTypeOK, CronBusy, RunInv, [Next]_vars
  PROVE  CronTypeOK' /\ CronBusy'
<1> DEFINE PassType == [pc : {"idle", "loop"} \cup Busy, now : 0 .. Horizon,
                        todo : SUBSET Definitions, job : Definitions \cup {NoDefinition}]
<1> USE DEF CronTypeOK, CronBusy, Busy
<1>0. TicksPerMinute \in Nat \ {0} /\ LastMinute \in Nat /\ MaxFailures \in Nat
  BY CronAssumption
<1>1. MinuteOf(clock) \in 0 .. LastMinute
  BY MinuteBounds
<1>2. CASE UNCHANGED vars
  BY <1>2 DEF vars, engineVars
<1>3. ASSUME NEW d \in Definitions, RegisterParse(d) PROVE CronTypeOK' /\ CronBusy'
  <2>1. ParseCron(d, MinuteOf(clock)) = NotFound \/ ParseCron(d, MinuteOf(clock)) \in Minutes
    BY <1>1, ParseCronAfter
  <2>2. \A n \in Minutes : n # Unregistered
    BY DEF Minutes, Unregistered
  <2> QED BY <1>3, <2>1, <2>2 DEF RegisterParse
<1>4. ASSUME NEW d \in Definitions, RegisterPersist(d) PROVE CronTypeOK' /\ CronBusy'
  BY <1>4 DEF RegisterPersist
<1>5. ASSUME NEW d \in Definitions, RegisterFails(d) PROVE CronTypeOK' /\ CronBusy'
  <2>1. failures' \in 0 .. MaxFailures
    BY <1>0, <1>5 DEF RegisterFails, Fails
  <2>2. request' \in [Definitions -> [pc : {"new", "persist", "insert", "closed"},
                                     next : Minutes \cup {Unregistered}]]
    BY <1>5 DEF RegisterFails
  <2>3. CronBusy'
    BY <1>5, <2>2 DEF RegisterFails
  <2> QED BY <1>5, <2>1, <2>2, <2>3 DEF RegisterFails
<1>6. ASSUME NEW d \in Definitions, RegisterInsert(d) PROVE CronTypeOK' /\ CronBusy'
  <2>1. nextRun[d] = Unregistered
    BY <1>6 DEF RegisterInsert, RunInv
  <2>2. /\ request' \in [Definitions -> [pc : {"new", "persist", "insert", "closed"},
                                        next : Minutes \cup {Unregistered}]]
        /\ nextRun' \in [Definitions -> Minutes \cup {Unregistered}]
        /\ nextRun'[d] # Unregistered
        /\ \A e \in Definitions \ {d} : nextRun'[e] = nextRun[e] /\ request'[e] = request[e]
        /\ request'[d].pc = "closed"
    BY <1>6 DEF RegisterInsert
  <2>3. pass.pc \in Busy => pass.job # d
    BY <2>1
  <2>4. CronBusy'
    BY <1>6, <2>2, <2>3 DEF RegisterInsert
  <2> QED BY <1>6, <2>2, <2>4 DEF RegisterInsert
<1>7. ASSUME NEW d \in Definitions, PassCheck(d) PROVE CronTypeOK' /\ CronBusy'
  <2>1. nextRun[d] # Unregistered
    BY <1>7 DEF PassCheck
  <2>2. pass' \in PassType
    BY <1>7 DEF PassCheck
  <2>3. CASE Due(d)
    <3>1. pass'.job = d /\ pass'.now = pass.now /\ pass'.todo \subseteq pass.todo
      BY <1>7, <2>3 DEF PassCheck
    <3> QED BY <1>7, <2>1, <2>2, <2>3, <3>1 DEF PassCheck, Due
  <2>4. CASE ~Due(d)
    <3>1. pass'.pc = "loop" /\ pass'.now = pass.now /\ pass'.todo \subseteq pass.todo
      BY <1>7, <2>4 DEF PassCheck
    <3> QED BY <1>7, <2>1, <2>2, <3>1 DEF PassCheck
  <2> QED BY <2>3, <2>4
<1>8. CASE PassStart
  <2>1. /\ pass' \in PassType /\ pass'.pc = "loop" /\ pass'.now = clock
        /\ pass'.todo = {d \in Definitions : nextRun[d] # Unregistered}
    BY <1>8 DEF PassStart
  <2>2. CronBusy'
    <3>1. clock' = clock /\ clock <= clock /\ nextRun' = nextRun /\ request' = request
      BY <1>8 DEF PassStart
    <3> QED BY <2>1, <3>1
  <2> QED BY <1>8, <2>1, <2>2 DEF PassStart
<1>9. CASE PassCreate
  <2>1. pass' \in PassType
    BY <1>9 DEF PassCreate
  <2>2. pass'.job = pass.job /\ pass'.now = pass.now /\ pass'.todo = pass.todo /\ pass.pc \in Busy
    BY <1>9 DEF PassCreate
  <2> QED BY <1>9, <2>1, <2>2 DEF PassCreate
<1>10. CASE PassEnqueue
  <2>1. /\ pass' \in PassType /\ pass'.job = pass.job
        /\ pass'.now = pass.now /\ pass'.todo = pass.todo /\ pass.pc \in Busy
    BY <1>10 DEF PassEnqueue
  <2>2. fired' \in [Definitions -> [Minutes -> Nat]]
    BY <1>10 DEF PassEnqueue
  <2> QED BY <1>10, <2>1, <2>2 DEF PassEnqueue
<1>11. CASE PassNext
  <2>1. ParseCron(pass.job, MinuteOf(clock)) = NotFound
          \/ ParseCron(pass.job, MinuteOf(clock)) \in Minutes
    BY <1>1, <1>11, ParseCronAfter DEF PassNext
  <2>2. \A n \in Minutes : n # Unregistered
    BY DEF Minutes, Unregistered
  <2> QED BY <1>11, <2>1, <2>2 DEF PassNext, NextJob
<1>12. CASE PassFails
  <2>1. failures' \in 0 .. MaxFailures
    BY <1>0, <1>12 DEF PassFails, Fails
  <2>2. pass' \in PassType /\ pass'.pc = "loop" /\ pass'.now = pass.now /\ pass'.todo = pass.todo
    BY <1>12 DEF PassFails, NextJob
  <2> QED BY <1>12, <2>1, <2>2 DEF PassFails
<1>13. CASE PassEnqueueLost
  <2>1. failures' \in 0 .. MaxFailures
    BY <1>0, <1>13 DEF PassEnqueueLost, Fails
  <2>2. pass' \in PassType /\ pass'.pc = "loop" /\ pass'.now = pass.now /\ pass'.todo = pass.todo
    BY <1>13 DEF PassEnqueueLost, NextJob
  <2>3. fired' \in [Definitions -> [Minutes -> Nat]] /\ excused' \subseteq Definitions
    BY <1>13 DEF PassEnqueueLost
  <2> QED BY <1>13, <2>1, <2>2, <2>3 DEF PassEnqueueLost
<1>14. CASE PassDone
  <2>1. pass' \in PassType /\ pass'.pc = "idle" /\ pass'.now = 0 /\ pass'.todo = {}
    BY <1>14, NoPassType DEF PassDone, NoPass
  <2> QED BY <1>14, <2>1 DEF PassDone
<1>15. CASE Crash
  <2>1. pass' \in PassType /\ pass'.pc = "idle" /\ pass'.now = 0 /\ pass'.todo = {}
    BY <1>15, NoPassType DEF Crash, NoPass
  <2>2. request' \in [Definitions -> [pc : {"new", "persist", "insert", "closed"},
                                     next : Minutes \cup {Unregistered}]]
    BY <1>15 DEF Crash
  <2>3. \A d \in Definitions : request'[d].pc \notin {"persist", "insert"}
    BY <1>15 DEF Crash
  <2>4. CronBusy'
    BY <1>15, <2>1, <2>3 DEF Crash
  <2>5. nextRun' \in [Definitions -> Minutes \cup {Unregistered}]
    BY <1>15 DEF Crash
  <2> QED BY <1>15, <2>1, <2>2, <2>4, <2>5 DEF Crash
<1>16. CASE ClockTick
  <2>1. clock' \in 0 .. Horizon
    BY <1>0, <1>16 DEF ClockTick, Horizon
  <2>2. MinuteOf(clock') \in Minutes
    BY <2>1, MinuteBounds, CronAssumption DEF Minutes
  <2> QED BY <1>16, <2>1, <2>2 DEF ClockTick, engineVars
<1> QED BY <1>2, <1>3, <1>4, <1>5, <1>6, <1>7, <1>8, <1>9, <1>10, <1>11, <1>12, <1>13,
           <1>14, <1>15, <1>16 DEF Next
-----------------------------------------------------------------------------
(* One instance for each run *)

\* A step that leaves a definition's run, its instances and its registration alone,
\* and ends no pass over it, keeps what RunInv says of it.  The other steps are the
\* enqueue, whose run has not fired yet, and the advance, which leads past every
\* minute that has fired because the clock has passed the run it leaves.
LEMMA NextRun ==
  ASSUME CronTypeOK, CronBusy, RunInv, [Next]_vars
  PROVE  RunInv'
<1> USE DEF RunInv
<1>1. MinuteOf(clock) \in 0 .. LastMinute
  BY MinuteBounds DEF CronTypeOK
<1>2. CASE UNCHANGED vars
  BY <1>2 DEF vars, engineVars
<1>3. ASSUME NEW d \in Definitions, RegisterParse(d) PROVE RunInv'
  <2>1. \A e \in Definitions : request[e].pc = "closed" => request'[e].pc = "closed"
    BY <1>3 DEF RegisterParse, CronTypeOK
  <2> QED BY <1>3, <2>1 DEF RegisterParse
<1>4. ASSUME NEW d \in Definitions, RegisterPersist(d) PROVE RunInv'
  <2>1. \A e \in Definitions : request[e].pc = "closed" => request'[e].pc = "closed"
    BY <1>4 DEF RegisterPersist, CronTypeOK
  <2> QED BY <1>4, <2>1 DEF RegisterPersist
<1>5. ASSUME NEW d \in Definitions, RegisterFails(d) PROVE RunInv'
  <2>1. \A e \in Definitions : request[e].pc = "closed" => request'[e].pc = "closed"
    BY <1>5 DEF RegisterFails, CronTypeOK
  <2> QED BY <1>5, <2>1 DEF RegisterFails
<1>6. ASSUME NEW d \in Definitions, RegisterInsert(d) PROVE RunInv'
  <2>1. \A m \in Minutes : fired[d][m] = 0
    BY <1>6 DEF RegisterInsert
  <2>2. /\ \A e \in Definitions \ {d} : nextRun'[e] = nextRun[e] /\ request'[e] = request[e]
        /\ request'[d].pc = "closed"
    BY <1>6 DEF RegisterInsert, CronTypeOK
  <2> QED BY <1>6, <2>1, <2>2 DEF RegisterInsert
<1>7. ASSUME NEW d \in Definitions, PassCheck(d) PROVE RunInv'
  BY <1>7 DEF PassCheck
<1>8. CASE PassStart
  BY <1>8 DEF PassStart
<1>9. CASE PassCreate
  BY <1>9 DEF PassCreate
<1>10. CASE PassEnqueue \/ PassEnqueueLost
  <2> DEFINE j == pass.job
             r == nextRun[j]
  <2>1. j \in Definitions /\ r # Unregistered /\ r \in Minutes
    BY <1>10 DEF PassEnqueue, PassEnqueueLost, CronBusy, CronTypeOK, Busy
  <2>2. r \in Nat
    BY <2>1, CronAssumption DEF Minutes
  <2>3. j \notin excused => fired[j][r] = 0
    <3>1. j \notin excused => fired[j][r] <= 1 /\ fired[j][r] # 1
      BY <1>10, <2>1, <2>2 DEF PassEnqueue, PassEnqueueLost
    <3>2. fired[j][r] \in Nat
      BY <2>1 DEF CronTypeOK
    <3> QED BY <3>1, <3>2
  <2>4. request[j].pc = "closed"
    BY <2>1
  <2>5. /\ \A e \in Definitions \ {j} : fired'[e] = fired[e]
        /\ \A m \in Minutes \ {r} : fired'[j][m] = fired[j][m]
        /\ fired'[j][r] = fired[j][r] + 1
    BY <1>10, <2>1 DEF PassEnqueue, PassEnqueueLost, CronTypeOK
  <2>6. nextRun' = nextRun /\ request' = request /\ excused \subseteq excused'
    BY <1>10 DEF PassEnqueue, PassEnqueueLost
  <2>7. j \notin excused' => pass'.pc = "next" /\ pass'.job = j
    BY <1>10 DEF PassEnqueue, PassEnqueueLost, CronTypeOK
  <2>8. pass.pc # "next"
    BY <1>10 DEF PassEnqueue, PassEnqueueLost
  <2> HIDE DEF j
  <2>9. ASSUME NEW d \in Definitions \ {j}, d \notin excused', NEW m \in Minutes
        PROVE  /\ fired'[d][m] <= 1
               /\ fired'[d][m] = 1 /\ nextRun'[d] # Unregistered => m < nextRun'[d]
    BY <2>5, <2>6, <2>8, <2>9
  <2>10. ASSUME j \notin excused', NEW m \in Minutes
         PROVE  fired'[j][m] <= 1 /\ (fired'[j][m] = 1 => m < nextRun'[j] \/ m = nextRun'[j])
    <3>1. CASE m = r
      <4>1. fired'[j][m] = 1
        BY <2>3, <2>5, <2>6, <2>10, <3>1
      <4> QED BY <2>6, <3>1, <4>1
    <3>2. CASE m # r
      BY <2>1, <2>5, <2>6, <2>8, <2>10, <3>2
    <3> QED BY <3>1, <3>2
  <2> QED BY <2>1, <2>4, <2>5, <2>6, <2>7, <2>9, <2>10
<1>11. CASE PassNext
  <2> DEFINE j == pass.job
             n == ParseCron(j, MinuteOf(clock))
  <2>1. j \in Definitions /\ nextRun[j] # Unregistered /\ nextRun[j] \in Minutes
    BY <1>11 DEF PassNext, CronBusy, CronTypeOK, Busy
  <2>2. nextRun[j] <= MinuteOf(clock)
    <3>1. nextRun[j] \in Nat /\ TicksPerMinute \in Nat
      BY <2>1, CronAssumption DEF Minutes
    <3>2. nextRun[j] * TicksPerMinute <= clock
      <4>1. nextRun[j] * TicksPerMinute \in Nat
        BY <3>1
      <4>2. nextRun[j] * TicksPerMinute < pass.now /\ pass.now <= clock
        BY <1>11 DEF PassNext, CronBusy, Busy
      <4>3. pass.now \in Int /\ clock \in Int
        BY DEF CronTypeOK
      <4> QED BY <4>1, <4>2, <4>3
    <3> QED BY <3>1, <3>2, MinuteBounds DEF CronTypeOK
  <2>3. request[j].pc = "closed"
    BY <2>1
  <2>4. pass'.pc = "loop" /\ request' = request /\ fired' = fired
    BY <1>11 DEF PassNext, NextJob, CronTypeOK
  <2>5. \A e \in Definitions \ {j} : nextRun'[e] = nextRun[e]
    BY <1>11 DEF PassNext, CronTypeOK
  <2>6. excused \subseteq excused' /\ (n = NotFound => j \in excused')
    BY <1>11 DEF PassNext
  <2>7. ASSUME n # NotFound PROVE nextRun[j] < n /\ n \in Minutes /\ nextRun'[j] = n
    <3>1. n \in Minutes /\ MinuteOf(clock) < n
      BY <1>1, <2>1, <2>7, ParseCronAfter
    <3>2. nextRun'[j] = n
      BY <1>11, <2>1, <2>7 DEF PassNext, CronTypeOK
    <3>3. nextRun[j] \in Int /\ n \in Int /\ MinuteOf(clock) \in Int
      BY <1>1, <2>1, <3>1, CronAssumption DEF Minutes
    <3> QED BY <2>2, <3>1, <3>2, <3>3
  <2> HIDE DEF j, n
  <2>8. ASSUME j \notin excused', NEW m \in Minutes
        PROVE  fired'[j][m] <= 1 /\ (fired'[j][m] = 1 => m < nextRun'[j])
    <3>1. nextRun[j] < nextRun'[j] /\ nextRun'[j] \in Minutes
      BY <2>6, <2>7, <2>8
    <3>2. fired[j][m] <= 1 /\ (fired[j][m] = 1 => m < nextRun[j] \/ m = nextRun[j])
      BY <2>1, <2>6, <2>8
    <3>3. m \in Int /\ nextRun[j] \in Int /\ nextRun'[j] \in Int
      BY <2>1, <3>1 DEF Minutes
    <3> QED BY <2>4, <3>1, <3>2, <3>3
  <2>9. ASSUME NEW d \in Definitions \ {j}, d \notin excused', NEW m \in Minutes
        PROVE  /\ fired'[d][m] <= 1
               /\ fired'[d][m] = 1 /\ nextRun'[d] # Unregistered => m < nextRun'[d]
    BY <2>4, <2>5, <2>6, <2>9 DEF j
  <2> QED BY <2>3, <2>4, <2>5, <2>8, <2>9
<1>12. CASE PassFails
  BY <1>12 DEF PassFails, NextJob
<1>13. CASE PassDone
  BY <1>13 DEF PassDone
<1>14. CASE Crash
  <2>1. \A e \in Definitions : request[e].pc = "closed" => request'[e].pc = "closed"
    BY <1>14 DEF Crash, CronTypeOK
  <2>2. \A e \in Definitions : nextRun'[e] = Unregistered
    BY <1>14 DEF Crash
  <2> QED BY <1>14, <2>1, <2>2 DEF Crash
<1>15. CASE ClockTick
  BY <1>15 DEF ClockTick, engineVars
<1> QED BY <1>2, <1>3, <1>4, <1>5, <1>6, <1>7, <1>8, <1>9, <1>10, <1>11, <1>12, <1>13,
           <1>14, <1>15 DEF Next

-----------------------------------------------------------------------------
\* The three invariants hold together in every reachable state.
LEMMA CronInvariant == Spec => [](CronTypeOK /\ CronBusy /\ RunInv)
<1>1. CronTypeOK /\ CronBusy /\ RunInv /\ [Next]_vars => (CronTypeOK /\ CronBusy /\ RunInv)'
  BY NextCronType, NextRun
<1> QED BY <1>1, InitCron, PTL DEF Spec

\* The variables of the cron engine keep their types: in particular no failed
\* ParseCron ever leaves its zero time in CronNextRun.
THEOREM CronTypeCorrect == Spec => []CronTypeOK
BY CronInvariant, PTL

\* A matching minute yields at most one enqueued instance of its definition, for
\* every calendar, every set of expressions and every search limit, however long
\* the passes take: the next run is computed from the time at which the instance
\* has been enqueued, which is later than the run itself.
THEOREM OncePerRunHolds == Spec => []OncePerRun
<1>1. RunInv => OncePerRun
  BY DEF RunInv, OncePerRun
<1> QED BY <1>1, CronInvariant, PTL
-----------------------------------------------------------------------------
(* Runs that are passed over *)

\* A minute that began after the run a definition has open is in its backlog.
BacklogInv ==
    \A d \in Definitions : Open(d) # Unregistered =>
      \A m \in Minutes : Open(d) < m /\ m <= MinuteOf(clock) => m \in backlog[d]

\* No minute that ParseCron passes over matches.
LEMMA ParseCronLeast ==
  ASSUME NEW d \in Definitions, NEW from \in 0 .. LastMinute, ParseCron(d, from) # NotFound,
         NEW m \in Nat, from < m, m < ParseCron(d, from)
  PROVE  ~Matches(d, m)
<1>1. Candidates(d, from) \in SUBSET Nat /\ MaxIterations \in Nat
  BY CronAssumption DEF Candidates
<1>2. Candidates(d, from) # {} /\ ParseCron(d, from) = Min(Candidates(d, from))
  BY DEF ParseCron
<1>3. /\ Min(Candidates(d, from)) \in Candidates(d, from)
      /\ \A y \in Candidates(d, from) : Min(Candidates(d, from)) <= y
  BY <1>1, <1>2, MinIsLeast
<1>4. Min(Candidates(d, from)) \in from + 1 .. from + MaxIterations
  BY <1>3 DEF Candidates
<1>5. m \in from + 1 .. from + MaxIterations /\ ~(Min(Candidates(d, from)) <= m)
  BY <1>1, <1>2, <1>4
<1> QED BY <1>3, <1>5 DEF Candidates

\* A tick begins at most one minute, and only on a multiple of its length.
LEMMA MinuteAdvances ==
  ASSUME NEW t \in Nat, NEW m \in Nat, m <= MinuteOf(t + 1), ~(m <= MinuteOf(t))
  PROVE  m = MinuteOf(t + 1) /\ (t + 1) % TicksPerMinute = 0
<1> DEFINE T == TicksPerMinute
           p == t \div T
           q == (t + 1) \div T
           r == (t + 1) % T
<1>1. T \in Nat \ {0}
  BY CronAssumption
<1>2. p \in Nat /\ p * T <= t /\ t < (p + 1) * T
  BY <1>1
<1>3. q \in Nat /\ r \in 0 .. T - 1 /\ t + 1 = q * T + r
  BY <1>1
<1>4. m <= q /\ ~(m <= p)
  BY DEF MinuteOf
<1> HIDE DEF p, q, r, T
<1>5. p + 1 <= q
  BY <1>2, <1>3, <1>4
<1>6. (p + 1) * T <= q * T
  BY <1>1, <1>2, <1>3, <1>5
<1>7. (p + 1) * T \in Nat /\ q * T \in Nat
  BY <1>1, <1>2, <1>3
<1>8. r = 0 /\ (p + 1) * T = q * T
  BY <1>1, <1>2, <1>3, <1>6, <1>7
<1>9. q = p + 1
  <2>1. p + 2 <= q => (p + 2) * T <= q * T
    BY <1>1, <1>2, <1>3
  <2>2. (p + 2) * T = (p + 1) * T + T
    BY <1>1, <1>2
  <2> QED BY <1>1, <1>2, <1>3, <1>5, <1>7, <1>8, <2>1, <2>2
<1> QED BY <1>2, <1>3, <1>4, <1>8, <1>9 DEF MinuteOf, q, r, T

\* A step that does not move the clock, and leaves a definition's open run where it
\* was, drops it or replaces it by one after the clock, keeps its backlog complete.
LEMMA BacklogKept ==
  ASSUME BacklogInv, clock' = clock, backlog' = backlog, CronTypeOK,
         \A d \in Definitions : \/ Open(d)' \in {Open(d), Unregistered}
                                \/ Open(d)' \in Minutes /\ MinuteOf(clock) < Open(d)'
  PROVE  BacklogInv'
<1> SUFFICES ASSUME NEW d \in Definitions, Open(d)' # Unregistered, NEW m \in Minutes,
                    Open(d)' < m, m <= MinuteOf(clock)
             PROVE  m \in backlog[d]
  BY DEF BacklogInv
<1>1. CASE Open(d)' = Open(d)
  BY <1>1 DEF BacklogInv
<1>2. CASE Open(d)' \in Minutes /\ MinuteOf(clock) < Open(d)'
  <2>1. MinuteOf(clock) \in Int
    BY MinuteBounds DEF CronTypeOK
  <2> QED BY <1>2, <2>1, CronAssumption DEF Minutes
<1> QED BY <1>1, <1>2

\* Every step keeps the backlog complete.
LEMMA NextBacklog ==
  ASSUME CronTypeOK, CronBusy, RunInv, BacklogInv, [Next]_vars
  PROVE  BacklogInv'
<1>1. MinuteOf(clock) \in 0 .. LastMinute
  BY MinuteBounds DEF CronTypeOK
<1>2. ASSUME UNCHANGED <<clock, backlog, nextRun, request>> PROVE BacklogInv'
  <2>1. \A d \in Definitions : Open(d)' = Open(d)
    BY <1>2 DEF Open
  <2> QED BY <1>2, <2>1, BacklogKept
<1>3. ASSUME NEW d \in Definitions, RegisterParse(d) PROVE BacklogInv'
  <2> DEFINE n == ParseCron(d, MinuteOf(clock))
  <2>1. ASSUME n # NotFound PROVE n \in Minutes /\ MinuteOf(clock) < n
    BY <1>1, <2>1, ParseCronAfter
  <2>2. \A e \in Definitions \ {d} : Open(e)' = Open(e)
    BY <1>3 DEF RegisterParse, Open, CronTypeOK
  <2>3. nextRun[d] = Unregistered /\ nextRun' = nextRun
    BY <1>3 DEF RegisterParse, RunInv
  <2> HIDE DEF n
  <2>4. n = NotFound => Open(d)' = Unregistered
    BY <1>3, <2>3 DEF RegisterParse, Open, CronTypeOK, n
  <2>5. n # NotFound => Open(d)' = n
    BY <1>3 DEF RegisterParse, Open, CronTypeOK, n
  <2> QED BY <1>3, <2>1, <2>2, <2>4, <2>5, BacklogKept DEF RegisterParse
<1>4. ASSUME NEW d \in Definitions, RegisterPersist(d) PROVE BacklogInv'
  <2>1. \A e \in Definitions : Open(e)' = Open(e)
    BY <1>4 DEF RegisterPersist, Open, CronTypeOK
  <2> QED BY <1>4, <2>1, BacklogKept DEF RegisterPersist
<1>5. ASSUME NEW d \in Definitions, RegisterFails(d) PROVE BacklogInv'
  <2>1. nextRun[d] = Unregistered
    BY <1>5 DEF RegisterFails, RunInv
  <2>2. \A e \in Definitions : Open(e)' \in {Open(e), Unregistered}
    BY <1>5, <2>1 DEF RegisterFails, Open, CronTypeOK
  <2> QED BY <1>5, <2>2, BacklogKept DEF RegisterFails
<1>6. ASSUME NEW d \in Definitions, RegisterInsert(d) PROVE BacklogInv'
  <2>1. \A e \in Definitions : Open(e)' = Open(e)
    BY <1>6 DEF RegisterInsert, Open, CronTypeOK
  <2> QED BY <1>6, <2>1, BacklogKept DEF RegisterInsert
<1>7. CASE PassNext
  <2>1. PICK j \in Definitions : j = pass.job /\ nextRun[j] # Unregistered
    BY <1>7 DEF PassNext, CronBusy, Busy
  <2> DEFINE n == ParseCron(j, MinuteOf(clock))
  <2>2. ASSUME n # NotFound PROVE n \in Minutes /\ MinuteOf(clock) < n
    BY <1>1, <2>2, ParseCronAfter
  <2>3. request[j].pc = "closed" /\ request' = request
    BY <1>7, <2>1 DEF PassNext, RunInv
  <2>4. n = NotFound => nextRun' = nextRun
    BY <1>7, <2>1 DEF PassNext
  <2>5. n # NotFound => nextRun' = [nextRun EXCEPT ![j] = n]
    BY <1>7, <2>1 DEF PassNext
  <2> HIDE DEF n
  <2>6. \A e \in Definitions \ {j} : Open(e)' = Open(e)
    BY <2>3, <2>4, <2>5 DEF Open, CronTypeOK
  <2>7. Open(j)' = Open(j) \/ (n # NotFound /\ Open(j)' = n)
    BY <2>1, <2>3, <2>4, <2>5 DEF Open, CronTypeOK
  <2> QED BY <1>7, <2>2, <2>6, <2>7, BacklogKept DEF PassNext
<1>8. CASE Crash
  <2>1. \A d \in Definitions : Open(d)' = Unregistered
    BY <1>8 DEF Crash, Open, CronTypeOK
  <2> QED BY <1>8, <2>1, BacklogKept DEF Crash
<1>9. CASE ClockTick
  <2>1. \A d \in Definitions : Open(d)' = Open(d)
    BY <1>9 DEF ClockTick, engineVars, Open
  <2> SUFFICES ASSUME NEW d \in Definitions, Open(d) # Unregistered, NEW m \in Minutes,
                      Open(d) < m, m <= MinuteOf(clock')
               PROVE  m \in backlog'[d]
    BY <2>1 DEF BacklogInv
  <2>2. clock' = clock + 1 /\ clock \in Nat /\ m \in Nat
    BY <1>9, CronAssumption, HorizonNat DEF ClockTick, CronTypeOK, Minutes
  <2>3. CASE m <= MinuteOf(clock)
    <3>1. m \in backlog[d]
      BY <2>3 DEF BacklogInv
    <3> QED BY <1>9, <3>1 DEF ClockTick
  <2>4. CASE ~(m <= MinuteOf(clock))
    <3>1. m = MinuteOf(clock') /\ clock' % TicksPerMinute = 0
      BY <2>2, <2>4, MinuteAdvances
    <3> QED BY <1>9, <3>1 DEF ClockTick
  <2> QED BY <2>3, <2>4
<1>10. CASE UNCHANGED vars
  BY <1>2, <1>10 DEF vars, engineVars
<1>11. ASSUME NEW d \in Definitions, PassCheck(d) PROVE BacklogInv'
  BY <1>2, <1>11 DEF PassCheck
<1>12. CASE PassStart \/ PassCreate \/ PassEnqueue \/ PassFails \/ PassEnqueueLost \/ PassDone
  BY <1>2, <1>12 DEF PassStart, PassCreate, PassEnqueue, PassFails, PassEnqueueLost, PassDone
<1> QED BY <1>3, <1>4, <1>5, <1>6, <1>7, <1>8, <1>9, <1>10, <1>11, <1>12 DEF Next

\* The advance of one run to another, the only step that changes a registered
\* definition's run, passes over nothing but the backlog.
LEMMA AdvanceSkipsBacklog ==
  ASSUME CronTypeOK, CronBusy, RunInv, BacklogInv, [Next]_vars,
         NEW d \in Definitions, nextRun[d] # Unregistered, nextRun'[d] # Unregistered,
         nextRun'[d] # nextRun[d],
         NEW m \in nextRun[d] + 1 .. nextRun'[d] - 1, Matches(d, m)
  PROVE  m \in backlog[d]
<1>1. ~Crash
  BY DEF Crash
<1>2. \A e \in Definitions : ~RegisterInsert(e)
  BY DEF RegisterInsert, RunInv, CronTypeOK
<1>3. PassNext
  BY <1>1, <1>2 DEF Next, vars, engineVars, RegisterParse, RegisterPersist, RegisterFails,
                    PassCheck, PassStart, PassCreate, PassEnqueue, PassFails,
                    PassEnqueueLost, PassDone, ClockTick
<1> DEFINE n == ParseCron(d, MinuteOf(clock))
<1>4. n # NotFound /\ nextRun'[d] = n
  BY <1>3 DEF PassNext, CronTypeOK
<1>5. MinuteOf(clock) \in 0 .. LastMinute
  BY MinuteBounds DEF CronTypeOK
<1>6. n \in Minutes /\ nextRun[d] \in Minutes
  <2>1. n \in Minutes
    BY <1>4, <1>5, ParseCronAfter
  <2> QED BY <2>1 DEF CronTypeOK
<1> HIDE DEF n
<1>7. m \in Minutes /\ m \in Nat /\ nextRun[d] < m /\ m < n
  <2>1. LastMinute \in Nat /\ MaxIterations \in Nat /\ nextRun[d] \in Nat
    BY <1>6, CronAssumption DEF Minutes
  <2>2. m \in nextRun[d] + 1 .. n - 1
    BY <1>4
  <2>3. n \in 0 .. LastMinute + MaxIterations
    BY <1>6 DEF Minutes
  <2> QED BY <2>1, <2>2, <2>3 DEF Minutes
<1>8. CASE m <= MinuteOf(clock)
  <2>1. Open(d) = nextRun[d]
    BY DEF Open, RunInv
  <2> QED BY <1>7, <1>8, <2>1 DEF BacklogInv
<1>9. CASE ~(m <= MinuteOf(clock))
  <2>1. MinuteOf(clock) < m
    BY <1>5, <1>7, <1>9
  <2> QED BY <1>4, <1>5, <1>7, <2>1, ParseCronLeast DEF n
<1> QED BY <1>8, <1>9

\* When CronNextRun advances, every matching minute that it passes over began while
\* the run it leaves was open, for every calendar, expression and search limit and
\* however late the pass is: the search starts in the minute of the advance.
THEOREM SkipsOnlyBacklogHolds == Spec => SkipsOnlyBacklog
<1>1. Init => BacklogInv
  BY DEF Init, BacklogInv, Open, NoRequest
<1>2. CronTypeOK /\ CronBusy /\ RunInv /\ BacklogInv /\ [Next]_vars => BacklogInv'
  BY NextBacklog
<1>3. CronTypeOK /\ CronBusy /\ RunInv /\ BacklogInv /\ [Next]_vars =>
        [\A d \in Definitions :
           nextRun[d] # Unregistered /\ nextRun'[d] # Unregistered /\ nextRun'[d] # nextRun[d]
             => \A m \in nextRun[d] + 1 .. nextRun'[d] - 1 : Matches(d, m) => m \in backlog[d]]_vars
  BY AdvanceSkipsBacklog
<1> QED BY <1>1, <1>2, <1>3, CronInvariant, PTL DEF Spec, SkipsOnlyBacklog
=============================================================================
