---------------------------- MODULE ManagedLock -----------------------------
(***************************************************************************)
(* The clients of one lock key (internal/lock/redis_lock.go).  A client in *)
(* Managed uses a DistributedLock, whose goroutine extends the key every   *)
(* third of its TTL; the others call TryAcquire and, when done, Release    *)
(* with the same context, as processDelayedJobs does.  A call is sent,     *)
(* runs in Redis and is answered in separate steps, and one that its       *)
(* caller gave up may still run later.                                     *)
(*                                                                         *)
(* A client stands for one use of the lock, so its name stands for the     *)
(* token it was given; the tokens of calls that were given up are known to *)
(* nobody and are all called Orphan.                                       *)
(***************************************************************************)
EXTENDS Naturals, FiniteSets

CONSTANTS Clients,    \* uses of the lock
          Managed,    \* those through a DistributedLock
          Orphan,     \* a token that no client knows
          TTL,        \* of the key, in ticks
          MaxLag,     \* longest a goroutine is expected to be late, in ticks
          MaxFaults   \* bound: failing calls and crashes

ASSUME ManagedAssumption ==
    /\ Managed \subseteq Clients
    /\ Orphan \notin Clients
    /\ "nobody" \notin Clients \cup {Orphan}
    /\ TTL \in Nat /\ TTL >= 3   \* a third of it is at least a tick: NewTicker panics on 0
    /\ MaxLag \in Nat
    /\ MaxFaults \in Nat

VARIABLES lock,       \* the key
          main,       \* main[c]: where the caller is
          auto,       \* auto[c]: its autoExtend goroutine
          cancelled,  \* clients whose context is done
          stray,      \* calls given up by their callers that may still run
          faults,     \* how many faults there have been
          lapsed,     \* clients whose key expired while they relied on it
          broken,     \* clients an Extend of which returned an error
          paused,     \* clients that were late by more than MaxLag
          released    \* clients whose Release reported success

vars == <<lock, main, auto, cancelled, stray, faults, lapsed, broken, paused, released>>
history == <<lapsed, broken, paused, released>>

Key == INSTANCE RedisLock WITH Schedulers <- Clients \cup {Orphan}, LockTTL <- TTL

\* Mutant of ExtendPeriod: the ticker runs with the TTL itself.
ExtendPeriodFull == TTL

\* The ticker of autoExtend.
ExtendPeriod == TTL \div 3

MainPcs == {"idle", "acquiring", "answered", "waiting", "held", "releasing", "done"}
AutoStates == [pc : {"off", "select", "calling"}, timer : 0 .. TTL,
               due : BOOLEAN, lag : 0 .. MaxLag]
AutoOff == [pc |-> "off", timer |-> 0, due |-> FALSE, lag |-> 0]
AutoStarts == [AutoOff EXCEPT !.pc = "select"]

\* Every variable keeps its type; the key never outlives its TTL.
ManagedTypeOK ==
    /\ Key!LockTypeOK /\ lock.ttl <= TTL
    /\ main \in [Clients -> MainPcs]
    /\ auto \in [Clients -> AutoStates]
    /\ stray \subseteq [op : {"acquire", "release", "extend"}, c : Clients]
    /\ faults \in 0 .. MaxFaults
    /\ cancelled \subseteq Clients /\ lapsed \subseteq Clients /\ broken \subseteq Clients
    /\ paused \subseteq Clients /\ released \subseteq Clients

ManagedInit ==
    /\ Key!LockInit
    /\ main = [c \in Clients |-> "idle"]
    /\ auto = [c \in Clients |-> AutoOff]
    /\ cancelled = {} /\ stray = {} /\ faults = 0
    /\ lapsed = {} /\ broken = {} /\ paused = {} /\ released = {}

Fault == faults < MaxFaults /\ faults' = faults + 1

GiveUp(op, c) == stray' = stray \cup {[op |-> op, c |-> c]}

-----------------------------------------------------------------------------
(* Acquire and TryAcquire *)

\* The call of acquireScript is sent.
AcquireSend(c) ==
    /\ main[c] = "idle"
    /\ main' = [main EXCEPT ![c] = "acquiring"]
    /\ UNCHANGED <<lock, auto, cancelled, stray, faults, history>>

\* acquireScript answers 1; the reply is on its way.
AcquireRuns(c) ==
    /\ main[c] = "acquiring"
    /\ Key!Acquire(c)
    /\ main' = [main EXCEPT ![c] = "answered"]
    /\ UNCHANGED <<auto, cancelled, stray, faults, history>>

\* It answers 0: TryAcquire waits for its ticker, DistributedLock returns ErrLockHeld.
AcquireHeld(c) ==
    /\ main[c] = "acquiring"
    /\ lock # Key!Unlocked
    /\ main' = [main EXCEPT ![c] = IF c \in Managed THEN "idle" ELSE "waiting"]
    /\ UNCHANGED <<lock, auto, cancelled, stray, faults, history>>

\* The select of TryAcquire: another attempt, or ErrLockTimeout; an attempt with a
\* context that is done is not sent and returns its error.
WaitEnds(c) ==
    /\ main[c] = "waiting"
    /\ main' = [main EXCEPT ![c] = IF c \in cancelled THEN "done" ELSE "acquiring"]
    /\ UNCHANGED <<lock, auto, cancelled, stray, faults, history>>

\* The token arrives; DistributedLock starts autoExtend.
AcquireReturns(c) ==
    /\ main[c] = "answered"
    /\ main' = [main EXCEPT ![c] = "held"]
    /\ auto' = IF c \in Managed THEN [auto EXCEPT ![c] = AutoStarts] ELSE auto
    /\ UNCHANGED <<lock, cancelled, stray, faults, history>>

\* The call returns an error other than ErrLockHeld, or its context ends: the
\* script may have run, may still run, or not run at all.
AcquireFails(c) ==
    /\ IF c \in cancelled THEN UNCHANGED faults ELSE Fault
    /\ \/ /\ main[c] = "acquiring"
          /\ GiveUp("acquire", c)
          /\ UNCHANGED lock
       \/ /\ main[c] = "answered"
          /\ lock' = IF lock.holder = c THEN [lock EXCEPT !.holder = Orphan] ELSE lock
          /\ UNCHANGED stray
    /\ main' = [main EXCEPT ![c] = "done"]
    /\ UNCHANGED <<auto, cancelled, history>>

-----------------------------------------------------------------------------
(* autoExtend *)

\* ticker.C: when done is closed too, the select may still take this branch.
AutoSend(c) ==
    /\ auto[c].pc = "select" /\ auto[c].due
    /\ auto' = [auto EXCEPT ![c] = [@ EXCEPT !.pc = "calling", !.due = FALSE]]
    /\ UNCHANGED <<lock, main, cancelled, stray, faults, history>>

\* extendScript runs; ErrLockNotHeld ends the goroutine.
AutoExtends(c) ==
    /\ auto[c].pc = "calling"
    /\ Key!Extend(c)
    /\ auto' = [auto EXCEPT ![c] = IF lock.holder = c
                                     THEN [@ EXCEPT !.pc = "select", !.lag = 0]
                                     ELSE AutoOff]
    /\ UNCHANGED <<main, cancelled, stray, faults, history>>

\* Extend returns another error, after 5 s at the latest: the goroutine ends too,
\* and the caller is not told.
AutoFails(c) ==
    /\ Fault
    /\ auto[c].pc = "calling"
    /\ auto' = [auto EXCEPT ![c] = AutoOff]
    /\ GiveUp("extend", c)
    /\ broken' = broken \cup {c}
    /\ UNCHANGED <<lock, main, cancelled, lapsed, paused, released>>

\* Mutant of AutoStop: done is closed only when the key has been deleted.
AutoStopIfReleased(c) ==
    /\ auto[c].pc = "select" /\ c \in released
    /\ auto' = [auto EXCEPT ![c] = AutoOff]
    /\ UNCHANGED <<lock, main, cancelled, stray, faults, history>>

\* The closed done channel is seen.
AutoStop(c) ==
    /\ auto[c].pc = "select" /\ main[c] \in {"releasing", "done"}
    /\ auto' = [auto EXCEPT ![c] = AutoOff]
    /\ UNCHANGED <<lock, main, cancelled, stray, faults, history>>

-----------------------------------------------------------------------------
(* Release *)

\* Release closes done and sends releaseScript, unless the context is done.
ReleaseSend(c) ==
    /\ main[c] = "held"
    /\ main' = [main EXCEPT ![c] = IF c \in cancelled THEN "done" ELSE "releasing"]
    /\ UNCHANGED <<lock, auto, cancelled, stray, faults, history>>

ReleaseRuns(c) ==
    /\ main[c] = "releasing"
    /\ Key!Release(c)
    /\ main' = [main EXCEPT ![c] = "done"]
    /\ released' = IF lock.holder = c THEN released \cup {c} ELSE released
    /\ UNCHANGED <<auto, cancelled, stray, faults, lapsed, broken, paused>>

ReleaseFails(c) ==
    /\ IF c \in cancelled THEN UNCHANGED faults ELSE Fault
    /\ main[c] = "releasing"
    /\ main' = [main EXCEPT ![c] = "done"]
    /\ GiveUp("release", c)
    /\ UNCHANGED <<lock, auto, cancelled, history>>

-----------------------------------------------------------------------------
(* The environment *)

\* The context of a client ends (a timeout, or the scheduler's shutdown).
Cancel(c) ==
    /\ c \notin cancelled
    /\ cancelled' = cancelled \cup {c}
    /\ UNCHANGED <<lock, main, auto, stray, faults, history>>

\* Redis runs a call whose caller has given it up.
StrayRuns(m) ==
    /\ m \in stray
    /\ stray' = stray \ {m}
    /\ \/ m.op = "acquire" /\ (IF lock = Key!Unlocked THEN Key!Acquire(Orphan) ELSE UNCHANGED lock)
       \/ m.op = "release" /\ Key!Release(m.c)
       \/ m.op = "extend" /\ Key!Extend(m.c)
    /\ UNCHANGED <<main, auto, cancelled, faults, history>>

\* The process of c dies; a call it has sent may still run.
Crash(c) ==
    /\ Fault
    /\ main[c] \notin {"idle", "done"}
    /\ main' = [main EXCEPT ![c] = "done"]
    /\ auto' = [auto EXCEPT ![c] = AutoOff]
    /\ stray' = stray \cup (IF main[c] = "acquiring" THEN {[op |-> "acquire", c |-> c]} ELSE {})
                      \cup (IF main[c] = "releasing" THEN {[op |-> "release", c |-> c]} ELSE {})
                      \cup (IF auto[c].pc = "calling" THEN {[op |-> "extend", c |-> c]} ELSE {})
    /\ UNCHANGED <<lock, cancelled, history>>

\* One tick of autoExtend: the ticker fires on its own schedule, holding at most
\* one tick for a late receiver.
AutoTick(a) ==
    IF a.pc = "off" THEN a
    ELSE LET t == (a.timer + 1) % ExtendPeriod
             waits == a.due \/ a.pc = "calling"
         IN [a EXCEPT !.timer = t, !.due = a.due \/ t = 0,
                      !.lag = IF ~waits THEN 0 ELSE IF a.lag < MaxLag THEN a.lag + 1 ELSE a.lag]

\* The reply of Acquire takes more than a tick, or a tick of autoExtend waits for
\* longer than MaxLag.
Late(c) ==
    \/ main[c] = "answered"
    \/ auto[c].pc # "off" /\ (auto[c].due \/ auto[c].pc = "calling") /\ auto[c].lag >= MaxLag

Tick ==
    /\ Key!LockTick
    /\ auto' = [c \in Clients |-> AutoTick(auto[c])]
    /\ lapsed' = lapsed \cup {c \in Clients : /\ lock.holder = c /\ lock.ttl <= 1
                                              /\ main[c] \in {"answered", "held"}}
    /\ paused' = paused \cup {c \in Clients : Late(c)}
    /\ UNCHANGED <<main, cancelled, stray, faults, broken, released>>

ClientNext(c) ==
    \/ AcquireSend(c) \/ AcquireRuns(c) \/ AcquireHeld(c) \/ WaitEnds(c)
    \/ AcquireReturns(c) \/ AcquireFails(c)
    \/ AutoSend(c) \/ AutoExtends(c) \/ AutoFails(c) \/ AutoStop(c)
    \/ ReleaseSend(c) \/ ReleaseRuns(c) \/ ReleaseFails(c)
    \/ Cancel(c) \/ Crash(c)

ManagedNext ==
    \/ \E c \in Clients : ClientNext(c)
    \/ \E m \in stray : StrayRuns(m)
    \/ Tick

ManagedSpec == ManagedInit /\ [][ManagedNext]_vars

\* Goroutines run, replies arrive, the work under the lock ends, and time passes.
\* AutoStop needs strong fairness: a select with two ready branches picks one at
\* random, so it does not pass over the closed channel for ever.
ManagedFairSpec ==
    /\ ManagedSpec
    /\ WF_vars(Tick)
    /\ \A c \in Clients :
         /\ WF_vars(AcquireRuns(c) \/ AcquireHeld(c) \/ WaitEnds(c) \/ AcquireReturns(c))
         /\ WF_vars(AutoSend(c) \/ AutoExtends(c))
         /\ SF_vars(AutoStop(c))
         /\ WF_vars(ReleaseSend(c) \/ ReleaseRuns(c))

-----------------------------------------------------------------------------
\* Mutual exclusion: a client that relies on the lock owns the key, so no two do,
\* unless the key expired under it.  Neither a release or an extension that runs
\* late nor one sent by an earlier owner disturbs the present one.
HeldIsOwned ==
    \A c \in Clients \ lapsed : main[c] \in {"answered", "held"} => lock.holder = c

\* The key of a DistributedLock expires under its owner only if an Extend returned
\* an error or the process was late: extending every third of the TTL is enough.
LapsesOnlyAfterFailure == lapsed \cap Managed \subseteq broken \cup paused

\* Once Release has reported success no call of that client, not even an Extend
\* in flight when done was closed, brings its key back.
ReleasedStaysReleased == \A c \in released : lock.holder # c

\* A TryAcquire returns although owners crash, their releases fail or come too
\* late, and calls that were given up take the key: autoExtend ends with its
\* owner and the key expires.
WaiterReturns ==
    \A c \in Clients \ Managed :
        main[c] \in {"acquiring", "waiting"} ~> main[c] \notin {"acquiring", "waiting"}
=============================================================================
