---------------------------- MODULE RetryExecutor ---------------------------
(***************************************************************************)
(* Executor.Execute of internal/retry/retry.go: attempts, backoff and      *)
(* cancellation, for several callers whose function asks one shared        *)
(* circuit breaker, calls a service and records the outcome.  The          *)
(* repository has no such caller yet: the function and the service are     *)
(* modelled from what the comments of the file say they are for.           *)
(***************************************************************************)
EXTENDS CircuitBreaker, FiniteSetsExt

CONSTANTS Callers,
          RetryLimit,  \* Policy.MaxRetries
          BaseDelay,   \* Policy.BaseDelay, in ticks
          MaxDelay,    \* Policy.MaxDelay, in ticks
          MaxJitter,   \* Policy.MaxJitter, in ticks
          Retryable,   \* the errors for which Policy.Retryable answers true
          WordBits     \* width of time.Duration (64)

Errors == {"transient", "fatal", "rejected"}

ASSUME PolicyAssumption ==
    /\ NoCaller \notin Callers
    /\ RetryLimit \in Nat /\ MaxDelay \in Nat /\ MaxJitter \in Nat
    /\ BaseDelay \in Nat \ {0}
    /\ WordBits \in Nat \ {0, 1}
    /\ Retryable \subseteq Errors

VARIABLES exec,  \* exec[c]: the Execute of c
          up     \* the service answers

vars == <<breakerVars, exec, up>>

Pcs == {"allow", "allowing", "calling", "succeeded", "recordingSuccess",
        "failed", "recordingFailure", "decide", "waiting", "returned"}

Start == [pc |-> "allow", attempt |-> 0, calls |-> 1, err |-> "none", delay |-> 0,
          waited |-> 0, result |-> "none"]
NotStarted == [Start EXCEPT !.pc = "returned", !.calls = 0]

Results == {"none", "ok", "exhausted", "cancelled", "non-retryable"}
Executions == [pc : Pcs, attempt : 0 .. RetryLimit, calls : Nat, err : Errors \cup {"none"},
               delay : Int, waited : Nat, result : Results]

Init == BreakerInit /\ exec = [c \in Callers |-> NotStarted] /\ up = TRUE

-----------------------------------------------------------------------------
(* calculateBackoff *)

\* Two's complement in WordBits bits.
Wrap(n) == ((n + 2 ^ (WordBits - 1)) % 2 ^ WordBits) - 2 ^ (WordBits - 1)

\* base * (1 << n): the shift yields 0 from WordBits on, and the product wraps.
Shifted(base, n) == IF n >= WordBits THEN 0 ELSE Wrap(base * Wrap(2 ^ n))

Jitter == IF MaxJitter > 0 THEN 0 .. MaxJitter - 1 ELSE {0}

\* Mutant of calculateBackoff: the exponent is that of the next attempt.
BackoffOfNext(n) ==
    {(IF Shifted(BaseDelay, n + 1) > MaxDelay THEN MaxDelay ELSE Shifted(BaseDelay, n + 1)) + j :
       j \in Jitter}

\* The delays calculateBackoff(n, policy) can return.
calculateBackoff(n) ==
    {(IF Shifted(BaseDelay, n) > MaxDelay THEN MaxDelay ELSE Shifted(BaseDelay, n)) + j : j \in Jitter}

-----------------------------------------------------------------------------
(* One attempt: fn() *)

Goto(c, pc) == exec' = [exec EXCEPT ![c].pc = pc]

Begin(c) ==
    /\ exec[c].pc = "returned"
    /\ exec' = [exec EXCEPT ![c] = Start]
    /\ UNCHANGED <<breakerVars, up>>

Fails(c, err) == exec' = [exec EXCEPT ![c].pc = "decide", ![c].err = err]

\* cb.Allow()
CallAllow(c) ==
    /\ exec[c].pc = "allow"
    /\ \/ Enter(c) /\ Goto(c, "allowing")
       \/ Contended /\ Fails(c, "rejected") /\ UNCHANGED breakerVars
    /\ UNCHANGED up

\* The delay and the last error are not looked at any more.
Calling(e) == [e EXCEPT !.pc = "calling", !.err = "none", !.delay = 0, !.waited = 0]

AllowReturns(c) ==
    /\ exec[c].pc = "allowing"
    /\ Allow(c)
    /\ IF Admits THEN exec' = [exec EXCEPT ![c] = Calling(@)] ELSE Fails(c, "rejected")
    /\ UNCHANGED up

\* The service answers, or it is down and the call fails, for good or not.
ServiceReturns(c) ==
    /\ exec[c].pc = "calling"
    /\ \/ up /\ Goto(c, "succeeded")
       \/ ~up /\ \E err \in {"transient", "fatal"} :
                     exec' = [exec EXCEPT ![c].pc = "failed", ![c].err = err]
    /\ UNCHANGED <<breakerVars, up>>

Returns(c, result) ==
    exec' = [exec EXCEPT ![c] = [NotStarted EXCEPT !.calls = exec[c].calls, !.result = result]]

\* cb.RecordSuccess(), and Execute returns nil; a record that meets another is dropped.
CallRecordSuccess(c) ==
    /\ exec[c].pc = "succeeded"
    /\ \/ Enter(c) /\ Goto(c, "recordingSuccess")
       \/ Contended /\ Returns(c, "ok") /\ UNCHANGED breakerVars
    /\ UNCHANGED up

SuccessRecorded(c) ==
    /\ exec[c].pc = "recordingSuccess"
    /\ RecordSuccess(c)
    /\ Returns(c, "ok")
    /\ UNCHANGED up

\* cb.RecordFailure()
CallRecordFailure(c) ==
    /\ exec[c].pc = "failed"
    /\ \/ Enter(c) /\ Goto(c, "recordingFailure")
       \/ Contended /\ Goto(c, "decide") /\ UNCHANGED breakerVars
    /\ UNCHANGED up

FailureRecorded(c) ==
    /\ exec[c].pc = "recordingFailure"
    /\ RecordFailure(c)
    /\ Goto(c, "decide")
    /\ UNCHANGED up

-----------------------------------------------------------------------------
(* The loop of Execute *)

\* Mutant of Decide: one attempt too many.
DecideLate(c) ==
    /\ exec[c].pc = "decide"
    /\ \/ exec[c].err \notin Retryable /\ Returns(c, "non-retryable")
       \/ exec[c].attempt > RetryLimit /\ Returns(c, "exhausted")
       \/ /\ exec[c].err \in Retryable /\ exec[c].attempt <= RetryLimit
          /\ \E d \in calculateBackoff(exec[c].attempt) :
               exec' = [exec EXCEPT ![c] = [@ EXCEPT !.pc = "waiting", !.delay = d, !.waited = 0]]
    /\ UNCHANGED <<breakerVars, up>>

\* The attempt failed: return, or compute the delay and wait.
Decide(c) ==
    /\ exec[c].pc = "decide"
    /\ \/ exec[c].err \notin Retryable /\ Returns(c, "non-retryable")
       \/ /\ exec[c].err \in Retryable /\ exec[c].attempt >= RetryLimit
          /\ Returns(c, "exhausted")
       \/ /\ exec[c].err \in Retryable /\ exec[c].attempt < RetryLimit
          /\ \E d \in calculateBackoff(exec[c].attempt) :
               exec' = [exec EXCEPT ![c] = [@ EXCEPT !.pc = "waiting", !.delay = d, !.waited = 0]]
    /\ UNCHANGED <<breakerVars, up>>

\* Mutant of NextAttempt: an attempt the breaker rejected is not counted.
NextAttemptUncounted(c) ==
    /\ exec[c].pc = "waiting" /\ exec[c].waited >= exec[c].delay
    /\ exec' = [exec EXCEPT ![c].pc = "allow",
                            ![c].calls = @ + 1,
                            ![c].attempt = IF exec[c].err = "rejected" THEN @ ELSE @ + 1]
    /\ UNCHANGED <<breakerVars, up>>

\* Mutant of NextAttempt: waits for the context alone.
NextAttemptOnCancel(c) ==
    /\ exec[c].pc = "waiting" /\ exec[c].waited > exec[c].delay
    /\ exec' = [exec EXCEPT ![c].pc = "allow"]
    /\ UNCHANGED <<breakerVars, up>>

\* time.After(delay), which is at once when the delay is not positive.
NextAttempt(c) ==
    /\ exec[c].pc = "waiting" /\ exec[c].waited >= exec[c].delay
    /\ exec' = [exec EXCEPT ![c].pc = "allow", ![c].attempt = @ + 1, ![c].calls = @ + 1]
    /\ UNCHANGED <<breakerVars, up>>

\* ctx.Done(): the context ended before or during the wait.
Cancelled(c) ==
    /\ exec[c].pc = "waiting"
    /\ Returns(c, "cancelled")
    /\ UNCHANGED <<breakerVars, up>>

-----------------------------------------------------------------------------
ServiceChanges == up' = ~up /\ UNCHANGED <<breakerVars, exec>>

Tick ==
    /\ BreakerTick
    /\ exec' = [c \in Callers |-> IF exec[c].pc = "waiting" /\ exec[c].waited < exec[c].delay
                                    THEN [exec[c] EXCEPT !.waited = @ + 1] ELSE exec[c]]
    /\ UNCHANGED up

Step(c) ==
    \/ CallAllow(c) \/ AllowReturns(c) \/ ServiceReturns(c)
    \/ CallRecordSuccess(c) \/ SuccessRecorded(c) \/ CallRecordFailure(c) \/ FailureRecorded(c)
    \/ Decide(c) \/ NextAttempt(c)

Next == (\E c \in Callers : Begin(c) \/ Step(c) \/ Cancelled(c)) \/ ServiceChanges \/ Tick

Spec == Init /\ [][Next]_vars

\* Callers come back, their steps are taken, the service answers or fails, and
\* time passes.  Nothing keeps two callers from meeting at mu again and again.
FairSpec ==
    /\ Spec
    /\ WF_vars(Tick)
    /\ \A c \in Callers : WF_vars(Begin(c)) /\ WF_vars(Step(c))

-----------------------------------------------------------------------------
\* Every variable keeps its type, and the caller inside a method holds mu.
TypeOK ==
    /\ state \in {"closed", "open", "half-open"}
    /\ failures \in 0 .. Threshold + 1 /\ since \in 0 .. Cooldown + 1
    /\ lateSuccess \in BOOLEAN /\ up \in BOOLEAN
    /\ exec \in [Callers -> Executions]
    /\ \A c \in Callers :
         exec[c].pc \in {"allowing", "recordingSuccess", "recordingFailure"} <=> mu = c

\* A closed circuit has seen fewer failures than the threshold, and a circuit on
\* trial is one failure away from opening again, unless a success of a call let
\* through earlier was recorded while it was open and reset the count: then the
\* trial lasts for up to Threshold failures.
TrialEndsAtFirstFailure ==
    /\ state = "closed" => failures < Threshold
    /\ state \in {"open", "half-open"} /\ ~lateSuccess => failures >= Threshold

Fits(n) == BaseDelay * 2 ^ n < 2 ^ (WordBits - 1)

\* "min(base * 2^attempt, maxDelay) + random(0, maxJitter)": a caller waits that
\* long before its next attempt, while the delay doubles and at its cap, as long as
\* the product fits a time.Duration.
WaitsOutBackoff ==
    \A c \in Callers : LET e == exec[c] n == e.attempt - 1 IN
        e.pc = "allow" /\ n >= 0 /\ Fits(n) =>
            e.waited - Min({BaseDelay * 2 ^ n, MaxDelay}) \in Jitter

\* Execute gives up only after MaxRetries + 1 calls of its function, no more and no
\* less, whatever mixture of rejections, dropped records and errors they met.
ExhaustedAfterAllCalls ==
    \A c \in Callers : exec[c].calls <= RetryLimit + 1
                       /\ (exec[c].result = "exhausted" => exec[c].calls = RetryLimit + 1)

\* Execute returns, with the service up or down and the circuit open or closed.
ExecuteReturns ==
    \A c \in Callers : exec[c].pc = "allow" ~> exec[c].pc = "returned"

Dropped(pc) == Contended /\ \E c \in Callers : exec[c].pc = pc

\* Once the service stays up the circuit closes and stays closed; only records
\* that meet another caller at mu, again and again, can prevent it.
RecoversUnlessContended ==
    <>[]up => <>[](state = "closed") \/ []<>Dropped("succeeded")

\* Once the service stays down the circuit does not stay closed, with the same
\* exception for failures.
OpensUnlessContended ==
    <>[](~up) => []<>(state # "closed") \/ []<>Dropped("failed")
=============================================================================
