--------------------------- MODULE CircuitBreaker ---------------------------
(***************************************************************************)
(* CircuitBreaker of internal/retry/retry.go.  mu is a channel of capacity *)
(* one used as a try-lock: a method that finds it full does nothing, and   *)
(* Allow then answers false.  A method that gets it runs in two steps,     *)
(* Enter and its body, so that others can meet it in between.              *)
(***************************************************************************)
EXTENDS Integers

CONSTANTS Threshold,  \* failures that open the circuit
          Cooldown    \* timeout, in ticks: how long it stays open

ASSUME BreakerAssumption == Threshold \in Nat \ {0} /\ Cooldown \in Nat

VARIABLES state,      \* CircuitState
          failures,   \* counted to one above the threshold: no test tells more apart
          since,      \* ticks since lastFailure, to one above the cooldown
          mu,         \* the caller inside a method, or NoCaller
          lateSuccess \* a success was recorded while the circuit was open

breakerVars == <<state, failures, since, mu, lateSuccess>>

NoCaller == "no caller"

BreakerInit ==
    /\ state = "closed" /\ failures = 0 /\ since = 0
    /\ mu = NoCaller /\ lateSuccess = FALSE

\* cb.mu <- struct{}{}: the select takes this branch when the channel is empty ...
Enter(c) ==
    /\ mu = NoCaller
    /\ mu' = c
    /\ UNCHANGED <<state, failures, since, lateSuccess>>

\* ... and the default branch when it is full.
Contended == mu # NoCaller

Admits == state # "open" \/ since > Cooldown

\* Mutant of Allow: a circuit that opens again needs Threshold new failures.
AllowResets(c) ==
    /\ mu = c
    /\ state' = IF Admits /\ state = "open" THEN "half-open" ELSE state
    /\ failures' = IF Admits /\ state = "open" THEN 0 ELSE failures
    /\ mu' = NoCaller
    /\ UNCHANGED <<since, lateSuccess>>

\* Mutant of Allow: lets a request through and leaves the circuit open.
AllowStaysOpen(c) == mu = c /\ mu' = NoCaller /\ UNCHANGED <<state, failures, since, lateSuccess>>

\* Allow answers Admits.
Allow(c) ==
    /\ mu = c
    /\ state' = IF Admits /\ state = "open" THEN "half-open" ELSE state
    /\ mu' = NoCaller
    /\ UNCHANGED <<failures, since, lateSuccess>>

RecordSuccess(c) ==
    /\ mu = c
    /\ failures' = 0
    /\ state' = IF state = "half-open" THEN "closed" ELSE state
    /\ lateSuccess' = (state = "open")
    /\ mu' = NoCaller
    /\ UNCHANGED since

CountFailure == IF failures > Threshold THEN failures ELSE failures + 1

\* Mutant of RecordFailure: the failure is not counted.
RecordFailureUncounted(c) ==
    mu = c /\ since' = 0 /\ mu' = NoCaller /\ UNCHANGED <<state, failures, lateSuccess>>

RecordFailure(c) ==
    /\ mu = c
    /\ failures' = CountFailure
    /\ since' = 0
    /\ state' = IF CountFailure >= Threshold THEN "open" ELSE state
    /\ lateSuccess' = (lateSuccess /\ ~(CountFailure >= Threshold))
    /\ mu' = NoCaller

BreakerTick ==
    /\ since' = IF since > Cooldown THEN since ELSE since + 1
    /\ UNCHANGED <<state, failures, mu, lateSuccess>>
=============================================================================
