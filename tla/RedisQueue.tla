----------------------------- MODULE RedisQueue -----------------------------
(***************************************************************************)
(* The Redis side of internal/queue/redis.go.  A Lua script is one step of *)
(* Redis, a pipeline is not: go-redis sends its commands one after the     *)
(* other and commands of other clients run in between.  So this module     *)
(* gives one operator per script and one per command; the callers          *)
(* (WorkerPool, SchedulerCore) take one step for each.                     *)
(*                                                                         *)
(* Time is counted in ticks.  A sorted-set score or an expiry is kept as   *)
(* the number of ticks that remain until it is reached, 0 once it is.      *)
(***************************************************************************)
EXTENDS JobModel, Sequences, FiniteSets

CONSTANTS Workers,    \* worker IDs, one in-flight key each
          StaleAge,   \* ticks from Dequeue until ReclaimOrphaned takes the entry
          DataTTL,    \* ticks a record written by Enqueue or Requeue lives (7 days)
          DLQTTL,     \* ticks a record written by Nack's DLQ branch lives (30 days)
          Expiry,     \* FALSE: no behaviour is long enough for a record to expire
          QueueCap,   \* bound: length of one ready list
          Faults      \* kinds of failing calls that are included:
                      \*   "reply": Redis ran the script, its reply was lost
                      \*   "abort": a command, and what its pipeline had left, did not run
                      \*   "read":  a GET or ZCARD failed although the key exists
                      \*   "db":    an SQL statement did not run

ASSUME QueueAssumption ==
    /\ StaleAge \in Nat \ {0} /\ DataTTL \in Nat \ {0} /\ DLQTTL \in Nat \ {0}
    /\ Expiry \in BOOLEAN /\ QueueCap \in Nat
    /\ Faults \subseteq {"reply", "abort", "read", "db"}

VARIABLES data,       \* scheduler:job:<id>: the stored record, or NoData
          ttl,        \* ticks until that key expires
          due,        \* ticks until the ScheduledAt of the stored record
          ready,      \* scheduler:queue:ready:p<n>, next job to be popped first
          delayed,    \* scheduler:queue:delayed: ticks to each member's score
          inflight,   \* scheduler:inflight:<worker>: ticks until each member is stale
          dlq         \* scheduler:queue:dlq, whose members nothing ever removes

queueVars == <<data, ttl, due, ready, delayed, inflight, dlq>>

NoData == [status |-> "none", retryCount |-> 0]
Absent == -1
Priorities == 0 .. 9

Earlier(t) == IF t > 0 THEN t - 1 ELSE t

QueueTypeOK ==
    /\ data \in [Jobs -> Records \cup {NoData}]
    /\ ttl \in [Jobs -> Nat]
    /\ due \in [Jobs -> Nat]
    /\ ready \in [Priorities -> Seq(Jobs)]
    /\ delayed \in [Jobs -> Nat \cup {Absent}]
    /\ inflight \in [Workers -> [Jobs -> Nat \cup {Absent}]]
    /\ dlq \subseteq Jobs

QueueInit ==
    /\ data = [j \in Jobs |-> NoData]
    /\ ttl = [j \in Jobs |-> 0]
    /\ due = [j \in Jobs |-> 0]
    /\ ready = [p \in Priorities |-> <<>>]
    /\ delayed = [j \in Jobs |-> Absent]
    /\ inflight = [w \in Workers |-> [j \in Jobs |-> Absent]]
    /\ dlq = {}

InReady(j) == \E i \in 1 .. Len(ready[Priority[j]]) : ready[Priority[j]][i] = j
InFlight(w) == {j \in Jobs : inflight[w][j] # Absent}
Stale(w) == {j \in Jobs : inflight[w][j] = 0}

\* Mutant of DueJobs: the range of scores has no upper end.
AllDelayed == {j \in Jobs : delayed[j] # Absent}

DueJobs == {j \in Jobs : delayed[j] = 0}

-----------------------------------------------------------------------------
(* Commands *)

\* SET <job> <record>; scheduledIn is the time to the record's ScheduledAt.
Set(j, rec, scheduledIn, life) ==
    /\ data' = [data EXCEPT ![j] = rec]
    /\ ttl' = [ttl EXCEPT ![j] = life]
    /\ due' = [due EXCEPT ![j] = scheduledIn]

\* LPUSH on the ready list of j's priority.
LPush(j) ==
    /\ Len(ready[Priority[j]]) < QueueCap
    /\ ready' = [ready EXCEPT ![Priority[j]] = Append(@, j)]

Store(j, rec, scheduledIn, life) ==
    Set(j, rec, scheduledIn, life) /\ UNCHANGED <<ready, delayed, inflight, dlq>>

Push(j) == LPush(j) /\ UNCHANGED <<data, ttl, due, delayed, inflight, dlq>>

PushDLQ(j) ==
    /\ dlq' = dlq \cup {j}
    /\ UNCHANGED <<data, ttl, due, ready, delayed, inflight>>

\* DEL <job>
DelData(j) ==
    /\ data' = [data EXCEPT ![j] = NoData]
    /\ UNCHANGED <<ttl, due, ready, delayed, inflight, dlq>>

ZRemDelayed(j) ==
    /\ delayed' = [delayed EXCEPT ![j] = Absent]
    /\ UNCHANGED <<data, ttl, due, ready, inflight, dlq>>

ZRemInflight(w, j) ==
    /\ inflight' = [inflight EXCEPT ![w][j] = Absent]
    /\ UNCHANGED <<data, ttl, due, ready, delayed, dlq>>

\* DEL scheduler:inflight:<w>, whatever it holds by then.
DelInflight(w) ==
    /\ inflight' = [inflight EXCEPT ![w] = [j \in Jobs |-> Absent]]
    /\ UNCHANGED <<data, ttl, due, ready, delayed, dlq>>

-----------------------------------------------------------------------------
(* Lua scripts *)

\* enqueueScript.  toReady is its comparison scheduledAt <= now, both ARGVs
\* computed by the client.
EnqueueScript(j, rec, scheduledIn, toReady) ==
    /\ Set(j, rec, scheduledIn, DataTTL)
    /\ IF toReady
         THEN LPush(j) /\ UNCHANGED delayed
         ELSE delayed' = [delayed EXCEPT ![j] = scheduledIn] /\ UNCHANGED ready
    /\ UNCHANGED <<inflight, dlq>>

\* Mutant of DequeueScript: reads the head of the list without popping it.
DequeuePeek(w, j) ==
    /\ \E p \in Priorities :
         /\ ready[p] # <<>> /\ j = Head(ready[p])
         /\ \A q \in Priorities : q < p => ready[q] = <<>>
    /\ inflight' = [inflight EXCEPT ![w][j] = StaleAge]
    /\ UNCHANGED <<data, ttl, due, ready, delayed, dlq>>

\* dequeueScript: pop j, the oldest job of the first non-empty priority, and
\* enter it in the in-flight set of w.
DequeueScript(w, j) ==
    /\ \E p \in Priorities :
         /\ ready[p] # <<>> /\ j = Head(ready[p])
         /\ \A q \in Priorities : q < p => ready[q] = <<>>
         /\ ready' = [ready EXCEPT ![p] = Tail(@)]
    /\ inflight' = [inflight EXCEPT ![w][j] = StaleAge]
    /\ UNCHANGED <<data, ttl, due, delayed, dlq>>

-----------------------------------------------------------------------------
(* One tick of the clock: scores come nearer, keys may expire.             *)

Expired == {j \in Jobs : Expiry /\ data[j] # NoData /\ ttl[j] <= 1}

QueueTick ==
    /\ data' = [j \in Jobs |-> IF j \in Expired THEN NoData ELSE data[j]]
    /\ ttl' = [j \in Jobs |-> IF Expiry THEN Earlier(ttl[j]) ELSE ttl[j]]
    /\ due' = [j \in Jobs |-> Earlier(due[j])]
    /\ delayed' = [j \in Jobs |-> Earlier(delayed[j])]
    /\ inflight' = [w \in Workers |-> [j \in Jobs |-> Earlier(inflight[w][j])]]
    /\ UNCHANGED <<ready, dlq>>
=============================================================================
