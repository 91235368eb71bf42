------------------------------ MODULE RedisLock -----------------------------
(***************************************************************************)
(* The lock key of internal/lock/redis_lock.go that guards the delayed-job *)
(* processor.  Acquire draws a random token each time; a scheduler runs    *)
(* one pass at a time and so holds at most one live token, which lets the  *)
(* scheduler's own name stand for it.                                      *)
(***************************************************************************)
EXTENDS Integers

CONSTANTS Schedulers,  \* scheduler processes
          LockTTL      \* the 5 s of processDelayedJobs, in ticks

Nobody == "nobody"     \* the holder of a key that does not exist

ASSUME LockAssumption == LockTTL \in Nat \ {0} /\ Nobody \notin Schedulers

VARIABLE lock          \* [holder, ttl], or Unlocked

Unlocked == [holder |-> Nobody, ttl |-> 0]

LockTypeOK == lock \in [holder : Schedulers \cup {Nobody}, ttl : Nat]

LockInit == lock = Unlocked

\* Mutant of Acquire: SET without looking whether the key exists.
AcquireAlways(s) == lock' = [holder |-> s, ttl |-> LockTTL]

\* acquireScript answering 1; while it answers 0 nothing changes.
Acquire(s) == lock = Unlocked /\ lock' = [holder |-> s, ttl |-> LockTTL]

\* Mutant of Release: DEL without comparing the token.
ReleaseAny(s) == s \in Schedulers /\ lock' = Unlocked

\* releaseScript: the key is deleted only if it still holds the caller's token.
Release(s) == lock' = IF lock.holder = s THEN Unlocked ELSE lock

\* Mutant of Extend: SET with a new expiry when the key has gone.
ExtendSets(s) ==
    lock' = IF lock.holder \in {s, Nobody} THEN [holder |-> s, ttl |-> LockTTL] ELSE lock

\* extendScript: PEXPIRE only if the key still holds the caller's token.
Extend(s) == lock' = IF lock.holder = s THEN [lock EXCEPT !.ttl = LockTTL] ELSE lock

\* Mutant of LockTick: SET without PX.
LockStays == UNCHANGED lock

\* Mutant of LockTick: the TTL runs out and the key stays.
LockOutlivesTTL == lock' = IF lock = Unlocked THEN lock ELSE [lock EXCEPT !.ttl = @ - 1]

\* The key expires by itself.
LockTick == lock' = IF lock.ttl <= 1 THEN Unlocked ELSE [lock EXCEPT !.ttl = @ - 1]
=============================================================================
