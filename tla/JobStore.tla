------------------------------ MODULE JobStore ------------------------------
(***************************************************************************)
(* The jobs table as internal/store/postgres.go reads and writes it.  Each *)
(* method is one SQL statement, hence one step.  A row keeps its status    *)
(* and whether worker_id is set: GetJob scans worker_id and error_message  *)
(* into Go strings, which fails on NULL, and a row gets both when a worker *)
(* first marks it running.                                                 *)
(***************************************************************************)
EXTENDS JobModel

VARIABLE db

NoRow == [status |-> "none", hasWorker |-> FALSE]
Rows == [status : Statuses, hasWorker : BOOLEAN]

StoreTypeOK == db \in [Jobs -> Rows \cup {NoRow}]

StoreInit == db = [j \in Jobs |-> NoRow]

Exists(j) == db[j] # NoRow

CreateJob(j) == db' = [db EXCEPT ![j] = [status |-> NewJob.status, hasWorker |-> FALSE]]

\* GetJob returns the row rather than an error.
Readable(j) == Exists(j) /\ db[j].hasWorker

\* Mutant of UpdateJobStatus: inserts the row when there is none.
UpsertJobStatus(j, status, withWorkerID) ==
    db' = [db EXCEPT ![j] = [status |-> status, hasWorker |-> @.hasWorker \/ withWorkerID]]

\* UPDATE ... WHERE id = $6; worker_id = COALESCE(NULLIF($2, ''), worker_id).
\* A missing row makes it an error that changes nothing.
UpdateJobStatus(j, status, withWorkerID) ==
    db' = IF Exists(j)
            THEN [db EXCEPT ![j] = [status |-> status,
                                    hasWorker |-> @.hasWorker \/ withWorkerID]]
            ELSE db

DeleteRow(j) == db' = [db EXCEPT ![j] = NoRow]
=============================================================================
