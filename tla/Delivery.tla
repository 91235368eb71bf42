------------------------------ MODULE Delivery ------------------------------
(***************************************************************************)
(* What the scheduler promises of its jobs, without lists, sets, passes    *)
(* and calls: a job that entered is owed an outcome until it is settled or *)
(* its client deletes it, executions of it begin and end, and its row is   *)
(* written by executions and clients.  DeliveryRefinement shows that       *)
(* TaskScheduler does no more.                                             *)
(***************************************************************************)
CONSTANTS Jobs, Goroutines, NoJob

VARIABLES state,   \* state[j]: "new", "owed", "settled" or "excused"
          exec,    \* exec[g]: the job that g executes and how that ended
          row      \* row[j]: the status in the row of j, "none" without one

deliveryVars == <<state, exec, row>>

Resting == [job |-> NoJob, end |-> "none"]

DeliveryInit ==
    /\ state = [j \in Jobs |-> "new"]
    /\ exec = [g \in Goroutines |-> Resting]
    /\ row = [j \in Jobs |-> "none"]

\* A client submits j: its row is there before the job is owed.
Accept(j) ==
    /\ row[j] = "none"
    /\ row' = [row EXCEPT ![j] = "pending"]
    /\ UNCHANGED <<state, exec>>

\* j is enqueued, for the first time or because a client retries it.
Enter(j) ==
    /\ state[j] \in {"new", "settled"}
    /\ state' = [state EXCEPT ![j] = "owed"]
    /\ UNCHANGED <<exec, row>>

\* The promise ends for the jobs in S.
Excuse(S) ==
    /\ state' = [j \in Jobs |-> IF j \in S THEN "excused" ELSE state[j]]
    /\ UNCHANGED <<exec, row>>

\* g begins to execute a job that entered; it may be excused at that moment.
HandOut(g, j) ==
    /\ exec[g] = Resting /\ state[j] # "new"
    /\ exec' = [exec EXCEPT ![g] = [job |-> j, end |-> "open"]]
    /\ state' \in {state, [state EXCEPT ![j] = "excused"]}
    /\ UNCHANGED row

Settle(j) == state' = IF state[j] = "owed" THEN [state EXCEPT ![j] = "settled"] ELSE state

Succeed(g) ==
    /\ exec[g].end = "open"
    /\ exec' = [exec EXCEPT ![g].end = "success"]
    /\ Settle(exec[g].job)
    /\ UNCHANGED row

Fail(g) ==
    /\ exec[g].end = "open"
    /\ exec' = [exec EXCEPT ![g].end = "failure"]
    /\ UNCHANGED <<state, row>>

\* The job that g failed to execute reaches the dead letter queue.
Bury(g) ==
    /\ exec[g].end = "failure"
    /\ Settle(exec[g].job)
    /\ UNCHANGED <<exec, row>>

\* What an execution may write, by how it ended.
Writes(end) ==
    CASE end = "open" -> {"running"}
      [] end = "success" -> {"completed"}
      [] end = "failure" -> {"failed", "dead_letter"}

\* g writes the row, if there is one, and is done unless its job still runs.
Write(g) ==
    /\ exec[g] # Resting
    /\ \/ row[exec[g].job] = "none" /\ UNCHANGED row
       \/ /\ row[exec[g].job] # "none"
          /\ \E s \in Writes(exec[g].end) : row' = [row EXCEPT ![exec[g].job] = s]
    /\ exec' = IF exec[g].end = "open" THEN exec ELSE [exec EXCEPT ![g] = Resting]
    /\ UNCHANGED state

\* The goroutines in G die, or one of them gives up writing the row.
Die(G) ==
    /\ exec' = [g \in Goroutines |-> IF g \in G THEN Resting ELSE exec[g]]
    /\ UNCHANGED <<state, row>>

\* A client retries a job with a row ...
Reopen(j) ==
    /\ row[j] # "none"
    /\ row' = [row EXCEPT ![j] = "pending"]
    /\ UNCHANGED <<state, exec>>

\* ... or deletes it: a job that entered is owed no longer.
Withdraw(j) ==
    /\ row[j] # "none"
    /\ row' = [row EXCEPT ![j] = "none"]
    /\ state' = IF state[j] = "new" THEN state ELSE [state EXCEPT ![j] = "excused"]
    /\ UNCHANGED exec

DeliveryNext ==
    \/ \E G \in SUBSET Goroutines : Die(G)
    \/ \E j \in Jobs : Accept(j) \/ Enter(j) \/ Reopen(j) \/ Withdraw(j)
    \/ \E S \in SUBSET Jobs : Excuse(S)
    \/ \E g \in Goroutines : Succeed(g) \/ Fail(g) \/ Bury(g) \/ Write(g)
    \/ \E g \in Goroutines, j \in Jobs : HandOut(g, j)

DeliverySpec == DeliveryInit /\ [][DeliveryNext]_deliveryVars
=============================================================================
