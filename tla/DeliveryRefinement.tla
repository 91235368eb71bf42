------------------------- MODULE DeliveryRefinement -------------------------
(***************************************************************************)
(* TaskScheduler implements Delivery: where in Redis a job is, and who     *)
(* holds it, is hidden; what remains is whether it can still be delivered. *)
(***************************************************************************)
EXTENDS TaskScheduler

\* Some worker can still come by j.
Deliverable(j) ==
    /\ data[j] # NoData
    /\ InReady(j) \/ delayed[j] # Absent \/ \E w \in Workers : inflight[w][j] # Absent

\* A race or a loss has ended the promise, or the client has deleted the job.
Excused(j) == j \in raced \cup lost \/ (j \in enqueued /\ ~Exists(j))

\* A job that is owed and not deliverable is "gone", which Delivery does not know.
StateOf(j) ==
    CASE Excused(j) -> "excused"
      [] ~Excused(j) /\ j \notin enqueued -> "new"
      [] ~Excused(j) /\ j \in enqueued \cap settled -> "settled"
      [] OTHER -> IF Deliverable(j) THEN "owed" ELSE "gone"

EndOf(pc) ==
    CASE pc = "idle" -> "none"
      [] pc \in {"begin", "run"} -> "open"
      [] pc \in AckPcs \cup {"dbDone"} -> "success"
      [] pc \in NackPcs \cup {"dbFail"} -> "failure"

Promise == INSTANCE Delivery WITH
    state <- [j \in Jobs |-> StateOf(j)],
    exec <- [g \in Goroutines |-> [job |-> gor[g].job, end |-> EndOf(gor[g].pc)]],
    row <- [j \in Jobs |-> db[j].status]

\* TaskScheduler implements Delivery: an enqueued job stays deliverable until an
\* execution of it succeeded, it reached the DLQ or the client deleted it, only jobs
\* that were enqueued are executed, and every status in the table was written by a client or by an
\* execution that ended accordingly.
ImplementsDelivery == Promise!DeliverySpec

\* A terminal row is final ("no further transitions") unless a client retries or
\* deletes the job or the job is delivered more than once: CanTransitionTo is never
\* called, so only single delivery keeps a late worker from overwriting the row.
TerminalUnlessRedelivered ==
    [][\A j \in Jobs \ disturbed :
         IsTerminal(db[j].status) /\ db'[j] # db[j]
           => \E r \in Requests : api[r].job = j /\ api[r].pc \in {"retryUpdate", "delete"}]_vars
=============================================================================
