------------------------- MODULE RetryExecutorProofs ------------------------
(***************************************************************************)
(* Proofs about RetryExecutor and its CircuitBreaker, for every number of  *)
(* callers, every policy and every width of a duration: types, the number  *)
(* of calls before Execute gives up, when a trial of the circuit ends, and *)
(* how long a caller waits.                                                *)
(***************************************************************************)
EXTENDS RetryExecutor, FiniteSetTheorems, TLAPS

-----------------------------------------------------------------------------
(* Powers of two.  The provers know nothing of them but that a set of n      *)
(* elements has 2^n subsets.                                                 *)

\* 2^n counts the subsets of 1..n: the fact that makes powers reachable without induction.
LEMMA PowerIsSubsets ==
  ASSUME NEW n \in Nat
  PROVE  /\ IsFiniteSet(SUBSET (1 .. n))
         /\ Cardinality(SUBSET (1 .. n)) = 2 ^ n
         /\ 2 ^ n \in Nat
<1>1. IsFiniteSet(1 .. n) /\ Cardinality(1 .. n) = n
  <2>1. 1 \in Int /\ n \in Int
    OBVIOUS
  <2>2. Cardinality(1 .. n) = IF 1 > n THEN 0 ELSE n - 1 + 1
    BY <2>1, FS_Interval
  <2>3. IsFiniteSet(1 .. n)
    BY <2>1, FS_Interval
  <2> QED BY <2>2, <2>3
<1>2. IsFiniteSet(SUBSET (1 .. n)) /\ Cardinality(SUBSET (1 .. n)) = 2 ^ Cardinality(1 .. n)
  BY <1>1, FS_SUBSET
<1>3. Cardinality(SUBSET (1 .. n)) \in Nat
  BY <1>2, FS_CardinalityType
<1> QED BY <1>1, <1>2, <1>3

\* Powers of two do not decrease, because subsets of a smaller set are fewer.
LEMMA PowerMonotone ==
  ASSUME NEW m \in Nat, NEW n \in Nat, m <= n
  PROVE  2 ^ m <= 2 ^ n
<1>1. SUBSET (1 .. m) \in SUBSET (SUBSET (1 .. n))
  OBVIOUS
<1>2. Cardinality(SUBSET (1 .. m)) <= Cardinality(SUBSET (1 .. n))
  BY <1>1, PowerIsSubsets, FS_Subset
<1> QED BY <1>2, PowerIsSubsets

\* A power of two is a positive natural.
LEMMA PowerPositive ==
  ASSUME NEW n \in Nat
  PROVE  2 ^ n \in Nat \ {0}
<1>1. SUBSET (1 .. n) # {}
  OBVIOUS
<1>2. Cardinality(SUBSET (1 .. n)) # 0
  BY <1>1, PowerIsSubsets, FS_EmptySet
<1> QED BY <1>2, PowerIsSubsets

\* The subsets of 1 .. n + 1 are those of 1 .. n, without and with n + 1.
LEMMA PowerDoubles ==
  ASSUME NEW n \in Nat
  PROVE  2 ^ (n + 1) = 2 ^ n + 2 ^ n
<1> DEFINE S == SUBSET (1 .. n)
           T == {A \cup {n + 1} : A \in S}
           f == [A \in S |-> A \cup {n + 1}]
<1>1. IsFiniteSet(S) /\ Cardinality(S) = 2 ^ n /\ 2 ^ n \in Nat
  BY PowerIsSubsets
<1>2. SUBSET (1 .. n + 1) = S \cup T
  <2>1. ASSUME NEW B \in SUBSET (1 .. n + 1) PROVE B \in S \cup T
    <3>1. CASE n + 1 \in B
      <4>1. B \ {n + 1} \in S /\ B = (B \ {n + 1}) \cup {n + 1}
        BY <3>1
      <4> QED BY <4>1
    <3>2. CASE n + 1 \notin B
      BY <3>2
    <3> QED BY <3>1, <3>2
  <2>2. 1 .. n \subseteq 1 .. n + 1 /\ n + 1 \in 1 .. n + 1
    OBVIOUS
  <2>3. ASSUME NEW B \in S \cup T PROVE B \in SUBSET (1 .. n + 1)
    BY <2>2
  <2> QED BY <2>1, <2>3
<1>3. n + 1 \notin 1 .. n
  OBVIOUS
<1>4. S \cap T = {}
  BY <1>3
<1>5. f \in Bijection(S, T)
  <2>1. f \in [S -> T]
    OBVIOUS
  <2>2. \A A, B \in S : f[A] = f[B] => A = B
    <3> SUFFICES ASSUME NEW A \in S, NEW B \in S, A \cup {n + 1} = B \cup {n + 1} PROVE A = B
      OBVIOUS
    <3>1. n + 1 \notin A /\ n + 1 \notin B
      BY <1>3
    <3> QED BY <3>1
  <2>3. \A B \in T : \E A \in S : f[A] = B
    OBVIOUS
  <2> QED BY <2>1, <2>2, <2>3 DEF Bijection, Injection, Surjection, IsInjective
<1>6. ExistsBijection(S, T)
  BY <1>5 DEF ExistsBijection
<1> HIDE DEF S, T, f
<1>7. IsFiniteSet(T) /\ Cardinality(T) = Cardinality(S)
  BY <1>1, <1>6, FS_Bijection
<1>8. Cardinality(S \cup T) = Cardinality(S) + Cardinality(T) - Cardinality(S \cap T)
  BY <1>1, <1>7, FS_Union
<1>9. Cardinality(S \cap T) = 0
  BY <1>4, FS_EmptySet
<1>10. Cardinality(SUBSET (1 .. n + 1)) = 2 ^ (n + 1)
  <2>1. n + 1 \in Nat
    OBVIOUS
  <2> QED BY <2>1, PowerIsSubsets
<1>11. Cardinality(S \cup T) = 2 ^ n + 2 ^ n
  BY <1>1, <1>7, <1>8, <1>9
<1> QED BY <1>2, <1>10, <1>11

-----------------------------------------------------------------------------
(* Durations *)

\* A word holds twice as many values as its non-negative half.
LEMMA WordSize ==
    /\ 2 ^ (WordBits - 1) \in Nat \ {0}
    /\ 2 ^ WordBits = 2 ^ (WordBits - 1) + 2 ^ (WordBits - 1)
<1>1. WordBits - 1 \in Nat /\ WordBits = (WordBits - 1) + 1
  BY PolicyAssumption
<1> QED BY <1>1, PowerPositive, PowerDoubles

\* Two's complement wrap-around yields an integer.
LEMMA WrapType ==
  ASSUME NEW n \in Int
  PROVE  Wrap(n) \in Int
<1> DEFINE H == 2 ^ (WordBits - 1)
           F == 2 ^ WordBits
<1>1. H \in Nat \ {0} /\ F = H + H
  BY WordSize
<1> HIDE DEF H, F
<1>2. (n + H) % F \in Int
  BY <1>1
<1>3. ((n + H) % F) - H \in Int
  BY <1>1, <1>2
<1> QED BY <1>3 DEF Wrap, H, F

\* A duration that fits is not changed.
LEMMA WrapIdentity ==
  ASSUME NEW n \in Nat, n < 2 ^ (WordBits - 1)
  PROVE  Wrap(n) = n
<1> DEFINE H == 2 ^ (WordBits - 1)
           F == 2 ^ WordBits
<1>1. H \in Nat \ {0} /\ F = H + H /\ n < H
  BY WordSize
<1> HIDE DEF H, F
<1>2. (n + H) % F = n + H
  BY <1>1
<1>3. ((n + H) % F) - H = n
  BY <1>1, <1>2
<1> QED BY <1>3 DEF Wrap, H, F

\* The shifted delay is an integer, whatever the shift.
LEMMA ShiftedType ==
  ASSUME NEW n \in Nat
  PROVE  Shifted(BaseDelay, n) \in Int
<1>1. BaseDelay * Wrap(2 ^ n) \in Int
  BY PowerPositive, WrapType, PolicyAssumption
<1> QED BY <1>1, WrapType DEF Shifted

\* As long as the product fits, base * (1 << n) is base * 2^n.
LEMMA ShiftedFits ==
  ASSUME NEW n \in Nat, Fits(n)
  PROVE  Shifted(BaseDelay, n) = BaseDelay * 2 ^ n /\ BaseDelay * 2 ^ n \in Nat
<1> DEFINE p == 2 ^ n
           H == 2 ^ (WordBits - 1)
<1>1. p \in Nat \ {0} /\ BaseDelay \in Nat \ {0} /\ BaseDelay * p < H /\ H \in Nat
  BY PowerPositive, WordSize, PolicyAssumption DEF Fits
<1>2. n < WordBits
  <2> SUFFICES ASSUME n >= WordBits PROVE FALSE
    BY PolicyAssumption
  <2>1. 2 ^ WordBits <= p
    BY PowerMonotone, PolicyAssumption
  <2>2. H + H <= p
    BY <2>1, WordSize
  <2> HIDE DEF p, H
  <2>3. p <= BaseDelay * p
    BY <1>1
  <2> QED BY <1>1, <2>2, <2>3
<1>3. p < H /\ BaseDelay * p \in Nat
  <2> HIDE DEF p, H
  <2>1. p <= BaseDelay * p /\ BaseDelay * p \in Nat
    BY <1>1
  <2> QED BY <1>1, <2>1
<1>4. Wrap(p) = p
  BY <1>1, <1>3, WrapIdentity
<1>5. Wrap(BaseDelay * p) = BaseDelay * p
  BY <1>1, <1>3, WrapIdentity
<1>6. ~(n >= WordBits)
  BY <1>2, PolicyAssumption
<1> QED BY <1>3, <1>4, <1>5, <1>6 DEF Shifted

\* The jitter is never negative.
LEMMA JitterType == Jitter \subseteq Nat
BY PolicyAssumption DEF Jitter

\* Every back-off the executor may choose is an integer.
LEMMA BackoffType ==
  ASSUME NEW n \in Nat
  PROVE  calculateBackoff(n) \subseteq Int
BY ShiftedType, JitterType, PolicyAssumption DEF calculateBackoff

\* A delay of calculateBackoff is the documented one when the product fits.
LEMMA BackoffFits ==
  ASSUME NEW n \in Nat, Fits(n), NEW d \in calculateBackoff(n)
  PROVE  d \in Nat /\ d - Min({BaseDelay * 2 ^ n, MaxDelay}) \in Jitter
<1> DEFINE b == BaseDelay * 2 ^ n
<1>1. b \in Nat /\ Shifted(BaseDelay, n) = b /\ MaxDelay \in Nat
  BY ShiftedFits, PolicyAssumption
<1> HIDE DEF b
<1>2. Min({b, MaxDelay}) = IF b > MaxDelay THEN MaxDelay ELSE b
  <2>1. CASE b > MaxDelay
    BY <1>1, <2>1 DEF Min
  <2>2. CASE ~(b > MaxDelay)
    BY <1>1, <2>2 DEF Min
  <2> QED BY <2>1, <2>2
<1>3. PICK j \in Jitter : d = (IF b > MaxDelay THEN MaxDelay ELSE b) + j
  BY <1>1 DEF calculateBackoff
<1>4. d \in Nat /\ d - Min({b, MaxDelay}) = j
  BY <1>1, <1>2, <1>3, JitterType
<1> QED BY <1>4 DEF b

-----------------------------------------------------------------------------
(* The circuit *)

BreakerTypeOK == state \in {"closed", "open", "half-open"} /\ failures \in Nat /\ lateSuccess \in BOOLEAN

\* Every step keeps the breaker typed and a half-open trial free of failures.
LEMMA TrialStep ==
    BreakerTypeOK /\ TrialEndsAtFirstFailure /\ [Next]_vars => (BreakerTypeOK /\ TrialEndsAtFirstFailure)'
<1> DEFINE Inv == BreakerTypeOK /\ TrialEndsAtFirstFailure
<1> SUFFICES ASSUME Inv, [Next]_vars PROVE Inv'
  OBVIOUS
<1> USE DEF BreakerTypeOK, TrialEndsAtFirstFailure
<1>1. ASSUME NEW c \in Callers, Begin(c) PROVE Inv'
  BY <1>1 DEF Begin, breakerVars
<1>2. ASSUME NEW c \in Callers, CallAllow(c) PROVE Inv'
  BY <1>2, BreakerAssumption DEF CallAllow, Enter, Contended, breakerVars
<1>3. ASSUME NEW c \in Callers, AllowReturns(c) PROVE Inv'
  BY <1>3, BreakerAssumption DEF AllowReturns, Allow, breakerVars
<1>4. ASSUME NEW c \in Callers, ServiceReturns(c) PROVE Inv'
  BY <1>4 DEF ServiceReturns, breakerVars
<1>5. ASSUME NEW c \in Callers, CallRecordSuccess(c) PROVE Inv'
  BY <1>5, BreakerAssumption DEF CallRecordSuccess, Enter, Contended, breakerVars
<1>6. ASSUME NEW c \in Callers, SuccessRecorded(c) PROVE Inv'
  <2>1. (lateSuccess' <=> state = "open") /\ lateSuccess' \in BOOLEAN
    BY <1>6 DEF SuccessRecorded, RecordSuccess
  <2>2. failures' = 0 /\ state' = IF state = "half-open" THEN "closed" ELSE state
    BY <1>6 DEF SuccessRecorded, RecordSuccess
  <2> QED BY <2>1, <2>2, BreakerAssumption
<1>7. ASSUME NEW c \in Callers, CallRecordFailure(c) PROVE Inv'
  BY <1>7, BreakerAssumption DEF CallRecordFailure, Enter, Contended, breakerVars
<1>8. ASSUME NEW c \in Callers, FailureRecorded(c) PROVE Inv'
  <2>1. RecordFailure(c) /\ CountFailure \in Nat /\ CountFailure >= failures
    BY <1>8 DEF FailureRecorded, CountFailure
  <2>2. CASE CountFailure >= Threshold
    BY <2>1, <2>2, BreakerAssumption DEF RecordFailure
  <2>3. CASE ~(CountFailure >= Threshold)
    <3>1. state' = state /\ failures' = CountFailure /\ failures' < Threshold /\ failures < Threshold
      BY <2>1, <2>3, BreakerAssumption DEF RecordFailure
    <3>2. lateSuccess' <=> lateSuccess
      BY <2>1, <2>3 DEF RecordFailure
    <3>3. lateSuccess' \in BOOLEAN
      BY <2>1 DEF RecordFailure
    <3> QED BY <2>1, <3>1, <3>2, <3>3, BreakerAssumption
  <2> QED BY <2>2, <2>3
<1>9. ASSUME NEW c \in Callers, Decide(c) PROVE Inv'
  BY <1>9 DEF Decide, breakerVars
<1>10. ASSUME NEW c \in Callers, NextAttempt(c) PROVE Inv'
  BY <1>10 DEF NextAttempt, breakerVars
<1>11. ASSUME NEW c \in Callers, Cancelled(c) PROVE Inv'
  BY <1>11 DEF Cancelled, breakerVars
<1>12. ASSUME ServiceChanges PROVE Inv'
  BY <1>12 DEF ServiceChanges, breakerVars
<1>13. ASSUME Tick PROVE Inv'
  BY <1>13 DEF Tick, BreakerTick
<1>14. ASSUME UNCHANGED vars PROVE Inv'
  BY <1>14 DEF vars, breakerVars
<1> QED
  BY <1>1, <1>2, <1>3, <1>4, <1>5, <1>6, <1>7, <1>8, <1>9, <1>10, <1>11, <1>12, <1>13, <1>14
  DEF Next, Step

\* A closed circuit has seen fewer failures than the threshold, and the first
\* failure of a trial opens it again unless a late success was recorded, for any
\* number of callers that meet at mu.
THEOREM TrialEndsAtFirstFailureHolds == Spec => []TrialEndsAtFirstFailure
<1>1. Init => BreakerTypeOK /\ TrialEndsAtFirstFailure
  <2> SUFFICES ASSUME Init PROVE BreakerTypeOK /\ TrialEndsAtFirstFailure
    OBVIOUS
  <2>1. lateSuccess \in BOOLEAN
    BY DEF Init, BreakerInit
  <2>2. state = "closed" /\ failures = 0
    BY DEF Init, BreakerInit
  <2> QED BY <2>1, <2>2, BreakerAssumption DEF BreakerTypeOK, TrialEndsAtFirstFailure
<1> QED BY <1>1, TrialStep, PTL DEF Spec

-----------------------------------------------------------------------------
(* Types and the count of calls *)

ScalarTypes ==
    /\ state \in {"closed", "open", "half-open"}
    /\ failures \in 0 .. Threshold + 1 /\ since \in 0 .. Cooldown + 1
    /\ lateSuccess \in BOOLEAN /\ up \in BOOLEAN

\* Every step keeps the types of clock, breaker and service.
LEMMA ScalarStep == ScalarTypes /\ [Next]_vars => ScalarTypes'
<1> SUFFICES ASSUME ScalarTypes, [Next]_vars PROVE ScalarTypes'
  OBVIOUS
<1> USE DEF ScalarTypes
<1>1. ASSUME NEW c \in Callers, Begin(c) PROVE ScalarTypes'
  BY <1>1, BreakerAssumption DEF Begin, breakerVars
<1>2. ASSUME NEW c \in Callers, CallAllow(c) PROVE ScalarTypes'
  BY <1>2, BreakerAssumption DEF CallAllow, Enter, Contended, breakerVars
<1>3. ASSUME NEW c \in Callers, AllowReturns(c) PROVE ScalarTypes'
  BY <1>3, BreakerAssumption DEF AllowReturns, Allow, Admits, breakerVars
<1>4. ASSUME NEW c \in Callers, ServiceReturns(c) PROVE ScalarTypes'
  BY <1>4, BreakerAssumption DEF ServiceReturns, breakerVars
<1>5. ASSUME NEW c \in Callers, CallRecordSuccess(c) PROVE ScalarTypes'
  BY <1>5, BreakerAssumption DEF CallRecordSuccess, Enter, Contended, breakerVars
<1>6. ASSUME NEW c \in Callers, SuccessRecorded(c) PROVE ScalarTypes'
  BY <1>6, BreakerAssumption DEF SuccessRecorded, RecordSuccess, breakerVars
<1>7. ASSUME NEW c \in Callers, CallRecordFailure(c) PROVE ScalarTypes'
  BY <1>7, BreakerAssumption DEF CallRecordFailure, Enter, Contended, breakerVars
<1>8. ASSUME NEW c \in Callers, FailureRecorded(c) PROVE ScalarTypes'
  BY <1>8, BreakerAssumption DEF FailureRecorded, RecordFailure, CountFailure, breakerVars
<1>9. ASSUME NEW c \in Callers, Decide(c) PROVE ScalarTypes'
  BY <1>9, BreakerAssumption DEF Decide, breakerVars
<1>10. ASSUME NEW c \in Callers, NextAttempt(c) PROVE ScalarTypes'
  BY <1>10, BreakerAssumption DEF NextAttempt, breakerVars
<1>11. ASSUME NEW c \in Callers, Cancelled(c) PROVE ScalarTypes'
  BY <1>11, BreakerAssumption DEF Cancelled, breakerVars
<1>12. ASSUME ServiceChanges PROVE ScalarTypes'
  BY <1>12, BreakerAssumption DEF ServiceChanges, breakerVars
<1>13. ASSUME Tick PROVE ScalarTypes'
  BY <1>13, BreakerAssumption DEF Tick, breakerVars, BreakerTick
<1>14. ASSUME UNCHANGED vars PROVE ScalarTypes'
  BY <1>14 DEF vars, breakerVars
<1> QED
  BY <1>1, <1>2, <1>3, <1>4, <1>5, <1>6, <1>7, <1>8, <1>9, <1>10, <1>11, <1>12, <1>13, <1>14
  DEF Next, Step

\* An execution under way has made one call more than it has counted attempts, and
\* waits for another attempt only below the limit; one that is over keeps its calls.
Counted(e) ==
    /\ e.pc # "returned" => e.calls = e.attempt + 1 /\ e.result = "none"
    /\ e.pc = "waiting" => e.attempt < RetryLimit
    /\ e.calls <= RetryLimit + 1
    /\ e.result = "exhausted" => e.calls = RetryLimit + 1

Counting == exec \in [Callers -> Executions] /\ \A c \in Callers : Counted(exec[c])

\* Replacing one execution by a counted one keeps Counting.
LEMMA CountingUpdate ==
  ASSUME Counting, NEW c \in Callers, NEW e \in Executions, Counted(e),
         exec' = [exec EXCEPT ![c] = e]
  PROVE  Counting'
BY DEF Counting, Counted

\* What a return leaves behind.
LEMMA ReturnsTo ==
  ASSUME Counting, NEW c \in Callers, NEW r \in Results, Returns(c, r),
         r = "exhausted" => exec[c].calls = RetryLimit + 1
  PROVE  /\ Counting'
         /\ exec'[c].pc = "returned"
         /\ \A d \in Callers \ {c} : exec'[d] = exec[d]
<1> DEFINE e == [NotStarted EXCEPT !.calls = exec[c].calls, !.result = r]
<1>1. exec[c] \in Executions /\ Counted(exec[c])
  BY DEF Counting
<1>2. Start \in Executions
  BY PolicyAssumption DEF Start, Executions, Pcs, Results, Errors
<1>3. NotStarted \in Executions /\ NotStarted.pc = "returned"
  BY <1>2 DEF NotStarted, Executions, Pcs
<1>4. /\ e \in Executions /\ Counted(e)
      /\ e.pc = "returned"
  <2>1. e \in Executions /\ e.pc = "returned" /\ e.calls = exec[c].calls /\ e.result = r
    BY <1>1, <1>3 DEF Executions
  <2> HIDE DEF e
  <2> QED BY <1>1, <2>1 DEF Counted
<1> HIDE DEF e
<1>5. exec' = [exec EXCEPT ![c] = e]
  BY DEF Returns, e
<1> QED BY <1>4, <1>5, CountingUpdate DEF Counting

\* Every step keeps attempts and calls in step for each caller.
LEMMA CountingStep == Counting /\ [Next]_vars => Counting'
<1> SUFFICES ASSUME Counting, [Next]_vars PROVE Counting'
  OBVIOUS
<1> DEFINE Moves(c, e) == e \in Executions /\ Counted(e) /\ exec' = [exec EXCEPT ![c] = e]
<1>0. ASSUME NEW c \in Callers, NEW e, Moves(c, e) PROVE Counting'
  BY <1>0, CountingUpdate
<1> HIDE DEF Moves
<1>a. ASSUME NEW c \in Callers PROVE exec[c] \in Executions /\ Counted(exec[c])
  BY DEF Counting
<1>b. ASSUME NEW c \in Callers, NEW pc \in Pcs, Goto(c, pc), exec[c].pc # "returned",
             pc \notin {"waiting", "returned"}
      PROVE  Counting'
  <2>1. Moves(c, [exec[c] EXCEPT !.pc = pc])
    BY <1>a, <1>b DEF Moves, Goto, Executions, Counted
  <2> QED BY <1>0, <2>1
<1>c. ASSUME NEW c \in Callers, NEW err \in Errors, Fails(c, err), exec[c].pc # "returned"
      PROVE  Counting'
  <2>1. Moves(c, [exec[c] EXCEPT !.pc = "decide", !.err = err])
    BY <1>a, <1>c DEF Moves, Fails, Executions, Counted, Pcs
  <2> QED BY <1>0, <2>1
<1>1. ASSUME NEW c \in Callers, Begin(c) PROVE Counting'
  <2>1. Moves(c, Start)
    BY <1>1, PolicyAssumption DEF Moves, Begin, Start, Executions, Counted, Pcs, Results, Errors
  <2> QED BY <1>0, <2>1
<1>2. ASSUME NEW c \in Callers, CallAllow(c) PROVE Counting'
  BY <1>2, <1>b, <1>c DEF CallAllow, Pcs, Errors
<1>3. ASSUME NEW c \in Callers, AllowReturns(c) PROVE Counting'
  <2>1. CASE Admits
    <3>0. exec[c] \in Executions /\ Counted(exec[c]) /\ exec[c].pc = "allowing"
      BY <1>a, <1>3 DEF AllowReturns
    <3>1. Calling(exec[c]) \in Executions /\ Counted(Calling(exec[c]))
      <4> DEFINE e == Calling(exec[c])
      <4>0. e \in Executions
        <5>1. [exec[c] EXCEPT !.pc = "calling", !.err = "none"] \in Executions
          BY <3>0 DEF Executions, Pcs
        <5>2. \A x \in Executions : [x EXCEPT !.delay = 0, !.waited = 0] \in Executions
          <6>1. \A x \in Executions : [x EXCEPT !.delay = 0] \in Executions
            BY DEF Executions
          <6>2. \A x \in Executions : [x EXCEPT !.waited = 0] \in Executions
            BY DEF Executions
          <6>3. \A x : [x EXCEPT !.delay = 0, !.waited = 0] = [[x EXCEPT !.delay = 0] EXCEPT !.waited = 0]
            OBVIOUS
          <6> QED BY <6>1, <6>2, <6>3
        <5>3. e = [[exec[c] EXCEPT !.pc = "calling", !.err = "none"] EXCEPT !.delay = 0, !.waited = 0]
          BY DEF Calling
        <5> QED BY <5>1, <5>2, <5>3
      <4>1. /\ e.pc = "calling" /\ e.calls = exec[c].calls
            /\ e.attempt = exec[c].attempt /\ e.result = exec[c].result
        BY <3>0 DEF Calling, Executions
      <4> HIDE DEF e
      <4>2. Counted(e)
        BY <3>0, <4>1 DEF Counted
      <4> QED BY <4>0, <4>2 DEF e
    <3>2. Moves(c, Calling(exec[c]))
      BY <1>3, <2>1, <3>1 DEF AllowReturns, Moves
    <3> QED BY <1>0, <3>2
  <2>2. CASE ~Admits
    BY <1>3, <1>c, <2>2 DEF AllowReturns, Errors
  <2> QED BY <2>1, <2>2
<1>4. ASSUME NEW c \in Callers, ServiceReturns(c) PROVE Counting'
  <2>1. CASE Goto(c, "succeeded")
    BY <1>4, <1>b, <2>1 DEF ServiceReturns, Pcs
  <2>2. ASSUME NEW err \in {"transient", "fatal"},
               exec' = [exec EXCEPT ![c].pc = "failed", ![c].err = err]
        PROVE  Counting'
    <3> DEFINE e == [exec[c] EXCEPT !.pc = "failed", !.err = err]
    <3>0. exec[c] \in Executions /\ Counted(exec[c]) /\ exec[c].pc = "calling"
      BY <1>a, <1>4 DEF ServiceReturns
    <3>1. e \in Executions /\ Counted(e)
      BY <3>0 DEF Executions, Counted, Pcs, Errors
    <3>2. exec' = [exec EXCEPT ![c] = e]
      BY <2>2 DEF Counting
    <3> QED BY <1>0, <3>1, <3>2 DEF Moves
  <2> QED BY <1>4, <2>1, <2>2 DEF ServiceReturns
<1>5. ASSUME NEW c \in Callers, CallRecordSuccess(c) PROVE Counting'
  BY <1>5, <1>b, ReturnsTo DEF CallRecordSuccess, Pcs, Results
<1>6. ASSUME NEW c \in Callers, SuccessRecorded(c) PROVE Counting'
  BY <1>6, ReturnsTo DEF SuccessRecorded, Results
<1>7. ASSUME NEW c \in Callers, CallRecordFailure(c) PROVE Counting'
  BY <1>7, <1>b DEF CallRecordFailure, Pcs
<1>8. ASSUME NEW c \in Callers, FailureRecorded(c) PROVE Counting'
  BY <1>8, <1>b DEF FailureRecorded, Pcs
<1>9. ASSUME NEW c \in Callers, Decide(c) PROVE Counting'
  <2>1. CASE Returns(c, "non-retryable")
    BY <2>1, ReturnsTo DEF Results
  <2>2. CASE exec[c].attempt >= RetryLimit /\ Returns(c, "exhausted")
    <3>0. exec[c] \in Executions /\ Counted(exec[c]) /\ exec[c].pc = "decide"
      BY <1>a, <1>9 DEF Decide
    <3>1. exec[c].calls = RetryLimit + 1
      BY <2>2, <3>0, PolicyAssumption DEF Counted, Executions
    <3> QED BY <2>2, <3>1, ReturnsTo DEF Results
  <2>3. ASSUME exec[c].attempt < RetryLimit, NEW d \in calculateBackoff(exec[c].attempt),
               exec' = [exec EXCEPT ![c] = [@ EXCEPT !.pc = "waiting", !.delay = d, !.waited = 0]]
        PROVE  Counting'
    <3>1. d \in Int
      BY <1>a, <2>3, BackoffType DEF Executions
    <3>2. Moves(c, [exec[c] EXCEPT !.pc = "waiting", !.delay = d, !.waited = 0])
      BY <1>a, <1>9, <2>3, <3>1 DEF Decide, Moves, Executions, Counted, Pcs
    <3> QED BY <1>0, <3>2
  <2> QED BY <1>9, <2>1, <2>2, <2>3 DEF Decide
<1>10. ASSUME NEW c \in Callers, NextAttempt(c) PROVE Counting'
  <2> DEFINE n == exec[c].attempt + 1
             m == exec[c].calls + 1
             e == [exec[c] EXCEPT !.pc = "allow", !.attempt = n, !.calls = m]
  <2>1. exec' = [exec EXCEPT ![c] = e]
    BY <1>10 DEF NextAttempt, Counting, Executions
  <2>2. /\ exec[c] \in Executions /\ exec[c].calls = n /\ exec[c].result = "none"
        /\ n \in 0 .. RetryLimit /\ m \in Nat /\ m = n + 1
    BY <1>a, <1>10, PolicyAssumption DEF NextAttempt, Executions, Counted
  <2> HIDE DEF n, m
  <2>3. e \in Executions
    BY <2>2 DEF Executions, Pcs
  <2>4. e.pc = "allow" /\ e.attempt = n /\ e.calls = m /\ e.result = exec[c].result
    BY <2>2 DEF Executions
  <2> HIDE DEF e
  <2>5. Counted(e)
    BY <2>2, <2>4, PolicyAssumption DEF Counted
  <2> QED BY <1>0, <2>1, <2>3, <2>5 DEF Moves
<1>11. ASSUME NEW c \in Callers, Cancelled(c) PROVE Counting'
  BY <1>11, ReturnsTo DEF Cancelled, Results
<1>12. ASSUME ServiceChanges PROVE Counting'
  BY <1>12 DEF ServiceChanges, Counting
<1>13. ASSUME Tick PROVE Counting'
  <2>1. \A c \in Callers : \/ exec'[c] = exec[c]
                           \/ exec'[c] = [exec[c] EXCEPT !.waited = exec[c].waited + 1]
    BY <1>13 DEF Tick
  <2>2. \A c \in Callers : exec'[c] \in Executions /\ Counted(exec'[c])
    <3> SUFFICES ASSUME NEW c \in Callers PROVE exec'[c] \in Executions /\ Counted(exec'[c])
      OBVIOUS
    <3>1. exec[c] \in Executions /\ Counted(exec[c])
      BY <1>a
    <3>2. CASE exec'[c] = exec[c]
      BY <3>1, <3>2
    <3>3. CASE exec'[c] = [exec[c] EXCEPT !.waited = exec[c].waited + 1]
      BY <3>1, <3>3 DEF Executions, Counted
    <3> QED BY <2>1, <3>2, <3>3
  <2> QED BY <1>13, <2>2 DEF Tick, Counting
<1>14. ASSUME UNCHANGED vars PROVE Counting'
  BY <1>14 DEF vars, Counting
<1> QED
  BY <1>1, <1>2, <1>3, <1>4, <1>5, <1>6, <1>7, <1>8, <1>9, <1>10, <1>11, <1>12, <1>13, <1>14
  DEF Next, Step

\* Where the steps of an attempt go.
LEMMA GotoPc ==
  ASSUME Counting, NEW c \in Callers, NEW pc, Goto(c, pc)
  PROVE  exec'[c].pc = pc /\ \A d \in Callers \ {c} : exec'[d] = exec[d]
BY DEF Counting, Goto, Executions

\* A failing call brings its caller, and only it, to the decision to retry.
LEMMA FailsPc ==
  ASSUME Counting, NEW c \in Callers, NEW err, Fails(c, err)
  PROVE  exec'[c].pc = "decide" /\ \A d \in Callers \ {c} : exec'[d] = exec[d]
BY DEF Counting, Fails, Executions

\* Allow lets its caller, and only it, call or turns it away.
LEMMA AllowReturnsPc ==
  ASSUME Counting, NEW c \in Callers, AllowReturns(c)
  PROVE  exec'[c].pc \in {"calling", "decide"} /\ \A d \in Callers \ {c} : exec'[d] = exec[d]
<1>1. CASE ~Admits
  BY <1>1, FailsPc DEF AllowReturns
<1>2. CASE Admits
  BY <1>2 DEF AllowReturns, Calling, Counting, Executions
<1> QED BY <1>1, <1>2

\* The service's answer moves only the caller it is for.
LEMMA ServiceReturnsPc ==
  ASSUME Counting, NEW c \in Callers, ServiceReturns(c)
  PROVE  exec'[c].pc \in {"succeeded", "failed"} /\ \A d \in Callers \ {c} : exec'[d] = exec[d]
BY GotoPc DEF ServiceReturns, Counting, Executions

\* The caller inside a method of the breaker is the one that holds mu.
Inside == \A c \in Callers :
    exec[c].pc \in {"allowing", "recordingSuccess", "recordingFailure"} <=> mu = c

\* Every step keeps the breaker's mutex and its holder consistent.
LEMMA InsideStep == Counting /\ Inside /\ [Next]_vars => Inside'
<1> SUFFICES ASSUME Counting, Inside, [Next]_vars PROVE Inside'
  OBVIOUS
<1> USE DEF Inside
<1>0. exec \in [Callers -> Executions]
  BY DEF Counting
<1>1. ASSUME NEW c \in Callers, Begin(c) PROVE Inside'
  BY <1>0, <1>1, PolicyAssumption DEF Begin, Start, breakerVars
<1>2. ASSUME NEW c \in Callers, CallAllow(c) PROVE Inside'
  <2>1. CASE Enter(c) /\ Goto(c, "allowing")
    BY GotoPc, <2>1, PolicyAssumption DEF Enter
  <2>2. CASE Fails(c, "rejected") /\ UNCHANGED breakerVars
    BY FailsPc, <1>2, <2>2 DEF CallAllow, breakerVars
  <2> QED BY <1>2, <2>1, <2>2 DEF CallAllow
<1>3. ASSUME NEW c \in Callers, AllowReturns(c) PROVE Inside'
  BY <1>3, AllowReturnsPc, PolicyAssumption DEF AllowReturns, Allow
<1>4. ASSUME NEW c \in Callers, ServiceReturns(c) PROVE Inside'
  BY <1>4, ServiceReturnsPc DEF ServiceReturns, breakerVars
<1>5. ASSUME NEW c \in Callers, CallRecordSuccess(c) PROVE Inside'
  <2>1. CASE Returns(c, "ok") /\ UNCHANGED breakerVars
    BY <1>5, <2>1, ReturnsTo DEF CallRecordSuccess, Results, breakerVars
  <2>2. CASE Enter(c) /\ Goto(c, "recordingSuccess")
    BY <1>0, <2>2, PolicyAssumption DEF Enter, Goto
  <2> QED BY <1>5, <2>1, <2>2 DEF CallRecordSuccess
<1>6. ASSUME NEW c \in Callers, SuccessRecorded(c) PROVE Inside'
  BY <1>6, ReturnsTo, PolicyAssumption DEF SuccessRecorded, RecordSuccess, Results
<1>7. ASSUME NEW c \in Callers, CallRecordFailure(c) PROVE Inside'
  <2>1. CASE Enter(c) /\ Goto(c, "recordingFailure")
    BY GotoPc, <2>1, PolicyAssumption DEF Enter
  <2>2. CASE Goto(c, "decide") /\ UNCHANGED breakerVars
    BY GotoPc, <1>7, <2>2 DEF CallRecordFailure, breakerVars
  <2> QED BY <1>7, <2>1, <2>2 DEF CallRecordFailure
<1>8. ASSUME NEW c \in Callers, FailureRecorded(c) PROVE Inside'
  BY <1>0, <1>8, PolicyAssumption DEF FailureRecorded, Goto, RecordFailure, CountFailure, breakerVars
<1>9. ASSUME NEW c \in Callers, Decide(c) PROVE Inside'
  <2>1. exec'[c].pc \in {"returned", "waiting"} /\ \A d \in Callers \ {c} : exec'[d] = exec[d]
    <3>1. ASSUME NEW r, Returns(c, r)
          PROVE  exec'[c].pc = "returned" /\ \A d \in Callers \ {c} : exec'[d] = exec[d]
      BY <1>0, <3>1 DEF Returns, NotStarted, Start
    <3>2. ASSUME NEW d, exec' = [exec EXCEPT ![c] = [@ EXCEPT !.pc = "waiting", !.delay = d, !.waited = 0]]
          PROVE  exec'[c].pc = "waiting" /\ \A e \in Callers \ {c} : exec'[e] = exec[e]
      BY <1>0, <3>2 DEF Executions
    <3> QED BY <1>9, <3>1, <3>2 DEF Decide
  <2> QED BY <1>9, <2>1 DEF Decide, breakerVars
<1>10. ASSUME NEW c \in Callers, NextAttempt(c) PROVE Inside'
  BY <1>0, <1>10, PolicyAssumption DEF NextAttempt, breakerVars
<1>11. ASSUME NEW c \in Callers, Cancelled(c) PROVE Inside'
  BY <1>11, ReturnsTo DEF Cancelled, Results, breakerVars
<1>12. ASSUME ServiceChanges PROVE Inside'
  BY <1>0, <1>12, PolicyAssumption DEF ServiceChanges, breakerVars
<1>13. ASSUME Tick PROVE Inside'
  BY <1>0, <1>13, PolicyAssumption DEF Tick, breakerVars, BreakerTick
<1>14. ASSUME UNCHANGED vars PROVE Inside'
  BY <1>14 DEF vars, breakerVars
<1> QED
  BY <1>1, <1>2, <1>3, <1>4, <1>5, <1>6, <1>7, <1>8, <1>9, <1>10, <1>11, <1>12, <1>13, <1>14
  DEF Next, Step

\* The three parts of the type argument hold at the start.
LEMMA InitTypes == Init => ScalarTypes /\ Counting /\ Inside
<1> SUFFICES ASSUME Init PROVE ScalarTypes /\ Counting /\ Inside
  OBVIOUS
<1>1. Start \in Executions
  BY PolicyAssumption DEF Start, Executions, Pcs, Results, Errors
<1>2. /\ NotStarted \in Executions
      /\ NotStarted.pc = "returned" /\ NotStarted.calls = 0 /\ NotStarted.result = "none"
  <2>1. Start.result = "none"
    BY DEF Start
  <2> QED BY <1>1, <2>1 DEF NotStarted, Executions, Pcs
<1>3. Counting
  BY <1>2, PolicyAssumption DEF Init, Counting, Counted
<1>4. Inside
  BY <1>2, PolicyAssumption DEF Init, BreakerInit, Inside
<1>5. lateSuccess \in BOOLEAN /\ up \in BOOLEAN
  BY DEF Init, BreakerInit
<1>6. state \in {"closed", "open", "half-open"} /\ failures \in 0 .. Threshold + 1 /\ since \in 0 .. Cooldown + 1
  BY BreakerAssumption DEF Init, BreakerInit
<1> QED BY <1>3, <1>4, <1>5, <1>6 DEF ScalarTypes

\* Every variable keeps its type, no execution counts more attempts than the policy
\* allows, and the caller inside a method of the breaker holds mu.
THEOREM RetryTypeCorrect == Spec => []TypeOK
<1>1. ScalarTypes /\ Counting /\ Inside => TypeOK
  BY DEF ScalarTypes, Counting, Inside, TypeOK
<1> QED BY <1>1, InitTypes, ScalarStep, CountingStep, InsideStep, PTL DEF Spec

\* Execute calls its function at most MaxRetries + 1 times and gives up as exhausted
\* only after exactly that many calls, whatever they met.
THEOREM ExhaustedAfterAllCallsHolds == Spec => []ExhaustedAfterAllCalls
<1>1. Counting => ExhaustedAfterAllCalls
  BY DEF Counting, Counted, ExhaustedAfterAllCalls
<1> QED BY <1>1, InitTypes, CountingStep, PTL DEF Spec

-----------------------------------------------------------------------------
(* Backoff *)

\* A caller that waits does so for a delay of calculateBackoff, and one that has
\* waited has waited for all of it and, unless it was negative, for no more.
Delayed(e, n) ==
    /\ e.delay \in calculateBackoff(n)
    /\ e.waited = 0 \/ e.waited <= e.delay

Backoffs == \A c \in Callers : LET e == exec[c] IN
    /\ e.pc = "waiting" => Delayed(e, e.attempt)
    /\ e.pc = "allow" /\ e.attempt > 0 => Delayed(e, e.attempt - 1) /\ e.waited >= e.delay

\* A step of one caller that ends neither in a wait nor before an attempt.
LEMMA BackoffsKept ==
  ASSUME Backoffs, NEW c \in Callers, exec'[c].pc \notin {"waiting", "allow"},
         \A d \in Callers \ {c} : exec'[d] = exec[d]
  PROVE  Backoffs'
BY DEF Backoffs, Delayed

\* Every step keeps the delay drawn from calculateBackoff, and waited out before the next attempt.
LEMMA BackoffsStep == Counting /\ Backoffs /\ [Next]_vars => Backoffs'
<1> SUFFICES ASSUME Counting, Backoffs, [Next]_vars PROVE Backoffs'
  OBVIOUS
<1>0. ASSUME NEW c \in Callers PROVE exec[c] \in Executions /\ Counted(exec[c])
  BY DEF Counting
<1>1. ASSUME NEW c \in Callers, Begin(c) PROVE Backoffs'
  <2>1. exec'[c].attempt = 0 /\ exec'[c].pc = "allow" /\ \A d \in Callers \ {c} : exec'[d] = exec[d]
    BY <1>1 DEF Begin, Start, Counting
  <2> QED BY <2>1 DEF Backoffs, Delayed
<1>2. ASSUME NEW c \in Callers, CallAllow(c) PROVE Backoffs'
  BY <1>2, GotoPc, FailsPc, BackoffsKept DEF CallAllow
<1>3. ASSUME NEW c \in Callers, AllowReturns(c) PROVE Backoffs'
  BY <1>3, AllowReturnsPc, BackoffsKept
<1>4. ASSUME NEW c \in Callers, ServiceReturns(c) PROVE Backoffs'
  BY <1>4, ServiceReturnsPc, BackoffsKept
<1>5. ASSUME NEW c \in Callers, CallRecordSuccess(c) PROVE Backoffs'
  BY <1>5, GotoPc, ReturnsTo, BackoffsKept DEF CallRecordSuccess, Results
<1>6. ASSUME NEW c \in Callers, SuccessRecorded(c) PROVE Backoffs'
  BY <1>6, ReturnsTo, BackoffsKept DEF SuccessRecorded, Results
<1>7. ASSUME NEW c \in Callers, CallRecordFailure(c) PROVE Backoffs'
  BY <1>7, GotoPc, BackoffsKept DEF CallRecordFailure
<1>8. ASSUME NEW c \in Callers, FailureRecorded(c) PROVE Backoffs'
  BY <1>8, GotoPc, BackoffsKept DEF FailureRecorded
<1>9. ASSUME NEW c \in Callers, Decide(c) PROVE Backoffs'
  <2>1. ASSUME NEW r, Returns(c, r) PROVE Backoffs'
    <3>1. exec'[c].pc = "returned" /\ \A d \in Callers \ {c} : exec'[d] = exec[d]
      BY <2>1 DEF Returns, NotStarted, Start, Counting
    <3> QED BY <3>1, BackoffsKept
  <2>2. ASSUME NEW d \in calculateBackoff(exec[c].attempt),
               exec' = [exec EXCEPT ![c] = [@ EXCEPT !.pc = "waiting", !.delay = d, !.waited = 0]]
        PROVE  Backoffs'
    <3>1. exec[c] \in Executions
      BY <1>0
    <3>2. /\ exec'[c].pc = "waiting" /\ exec'[c].delay = d /\ exec'[c].waited = 0
          /\ exec'[c].attempt = exec[c].attempt
          /\ \A e \in Callers \ {c} : exec'[e] = exec[e]
      BY <2>2, <3>1 DEF Counting, Executions
    <3> QED BY <2>2, <3>2 DEF Backoffs, Delayed
  <2> QED BY <1>9, <2>1, <2>2 DEF Decide
<1>10. ASSUME NEW c \in Callers, NextAttempt(c) PROVE Backoffs'
  <2>1. exec[c] \in Executions
    BY <1>0
  <2>2. /\ exec'[c].pc = "allow" /\ exec'[c].attempt = exec[c].attempt + 1
        /\ exec'[c].delay = exec[c].delay /\ exec'[c].waited = exec[c].waited
        /\ \A e \in Callers \ {c} : exec'[e] = exec[e]
    BY <1>10, <2>1 DEF NextAttempt, Counting, Executions
  <2>3. exec'[c].attempt - 1 = exec[c].attempt
    BY <2>1, <2>2 DEF Executions
  <2>4. Delayed(exec[c], exec[c].attempt) /\ exec[c].waited >= exec[c].delay
    BY <1>10 DEF NextAttempt, Backoffs
  <2>5. Delayed(exec'[c], exec'[c].attempt - 1) /\ exec'[c].waited >= exec'[c].delay
    BY <2>2, <2>3, <2>4 DEF Delayed
  <2> SUFFICES ASSUME NEW e \in Callers \ {c}
               PROVE  /\ exec'[e].pc = "waiting" => Delayed(exec'[e], exec'[e].attempt)
                      /\ exec'[e].pc = "allow" /\ exec'[e].attempt > 0
                           => Delayed(exec'[e], exec'[e].attempt - 1) /\ exec'[e].waited >= exec'[e].delay
    BY <2>2, <2>5 DEF Backoffs, Delayed
  <2> QED BY <2>2 DEF Backoffs
<1>11. ASSUME NEW c \in Callers, Cancelled(c) PROVE Backoffs'
  BY <1>11, ReturnsTo, BackoffsKept DEF Cancelled, Results
<1>12. ASSUME ServiceChanges PROVE Backoffs'
  BY <1>12 DEF ServiceChanges, Backoffs, Delayed
<1>13. ASSUME Tick PROVE Backoffs'
  <2> SUFFICES ASSUME NEW c \in Callers
               PROVE  LET e == exec'[c] IN
                        /\ e.pc = "waiting" => Delayed(e, e.attempt)
                        /\ e.pc = "allow" /\ e.attempt > 0
                             => Delayed(e, e.attempt - 1) /\ e.waited >= e.delay
    BY DEF Backoffs, Delayed
  <2>1. exec[c] \in Executions
    BY <1>0
  <2>2. CASE exec[c].pc = "waiting" /\ exec[c].waited < exec[c].delay
    <3>1. /\ exec'[c].pc = "waiting" /\ exec'[c].delay = exec[c].delay
          /\ exec'[c].attempt = exec[c].attempt /\ exec'[c].waited = exec[c].waited + 1
      BY <1>13, <2>1, <2>2 DEF Tick, Executions
    <3>2. exec[c].waited + 1 <= exec[c].delay
      BY <2>1, <2>2 DEF Executions
    <3> QED BY <2>2, <3>1, <3>2 DEF Backoffs, Delayed
  <2>3. CASE ~(exec[c].pc = "waiting" /\ exec[c].waited < exec[c].delay)
    <3>1. exec'[c] = exec[c]
      BY <1>13, <2>3 DEF Tick
    <3> QED BY <3>1 DEF Backoffs
  <2> QED BY <2>2, <2>3
<1>14. ASSUME UNCHANGED vars PROVE Backoffs'
  BY <1>14 DEF vars, Backoffs, Delayed
<1> QED
  BY <1>1, <1>2, <1>3, <1>4, <1>5, <1>6, <1>7, <1>8, <1>9, <1>10, <1>11, <1>12, <1>13, <1>14
  DEF Next, Step

\* A caller waits min(base * 2^attempt, maxDelay) + random(0, maxJitter) before its
\* next attempt, for every policy, as long as the product fits a time.Duration.
THEOREM WaitsOutBackoffHolds == Spec => []WaitsOutBackoff
<1>1. Init => Backoffs
  <2> SUFFICES ASSUME Init PROVE Backoffs
    OBVIOUS
  <2>1. \A c \in Callers : exec[c].pc = "returned"
    BY DEF Init, NotStarted, Start
  <2> QED BY <2>1 DEF Backoffs
<1>2. Counting /\ Backoffs => WaitsOutBackoff
  <2> SUFFICES ASSUME Counting, Backoffs, NEW c \in Callers,
                      exec[c].pc = "allow", exec[c].attempt - 1 >= 0, Fits(exec[c].attempt - 1)
               PROVE  exec[c].waited - Min({BaseDelay * 2 ^ (exec[c].attempt - 1), MaxDelay}) \in Jitter
    BY DEF WaitsOutBackoff
  <2> DEFINE n == exec[c].attempt - 1
             d == exec[c].delay
             w == exec[c].waited
  <2>1. n \in Nat /\ w \in Nat /\ exec[c].attempt > 0
    BY DEF Counting, Executions
  <2>2. Delayed(exec[c], n) /\ w >= d
    BY <2>1 DEF Backoffs
  <2>3. d \in Nat /\ d - Min({BaseDelay * 2 ^ n, MaxDelay}) \in Jitter
    <3>1. Fits(n) /\ d \in calculateBackoff(n)
      BY <2>2 DEF Delayed
    <3> HIDE DEF n, d
    <3> QED BY <2>1, <3>1, BackoffFits
  <2>4. w = d
    BY <2>1, <2>2, <2>3 DEF Delayed
  <2> QED BY <2>3, <2>4
<1> QED BY <1>1, <1>2, InitTypes, CountingStep, BackoffsStep, PTL DEF Spec
=============================================================================
