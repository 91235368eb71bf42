------------------------------- MODULE JobApi -------------------------------
(***************************************************************************)
(* The HTTP API of internal/scheduler/api.go on the jobs table: requests   *)
(* that submit, read, delete and retry jobs, and a client that walks       *)
(* through GET /jobs page by page, while workers write the rows.  A        *)
(* request takes one step per SQL statement; one that is answered at once  *)
(* with an error changes nothing and is left out.  Redis is reduced to the *)
(* jobs a worker may start.                                                *)
(***************************************************************************)
EXTENDS JobStore, FiniteSets

CONSTANTS Requests,   \* concurrent requests on single jobs
          CreatedAt,  \* CreatedAt[j]: set by NewJob, before the INSERT
          Limit,      \* page size of the walk
          Filters     \* status filters of a walk; "any" for none

ASSUME ApiAssumption ==
    /\ IsFiniteSet(Jobs)
    /\ CreatedAt \in [Jobs -> Nat]
    /\ Limit \in Nat \ {0}
    /\ Filters \subseteq Statuses \cup {"any"}

VARIABLES req,      \* req[r]: the request in progress
          walk,     \* the walk through the pages
          queued,   \* jobs a worker may start
          working,  \* jobs a worker has started and not finished
          born,     \* jobs ever inserted
          told,     \* jobs whose submission was answered with 201
          deletions, \* deletions[j]: how many requests were answered 204 for j
          missed    \* rows that a finished walk should have shown and did not

vars == <<db, req, walk, queued, working, born, told, deletions, missed>>

NoRequest == [pc |-> "idle", job |-> NoJob]
NoWalk == [pc |-> "idle", filter |-> "any", desc |-> FALSE, offset |-> 0,
           seen |-> {}, stay |-> {}, shrunk |-> FALSE]

\* Every variable keeps its type, a row has one of the statuses of the schema, and it
\* exists only for a job that was inserted.
ApiTypeOK ==
    /\ StoreTypeOK
    /\ req \in [Requests -> [pc : {"idle", "enqueue", "delete", "update", "requeue"},
                             job : Jobs \cup {NoJob}]]
    /\ walk \in [pc : {"idle", "page"}, filter : Filters \cup {"any"},
                 desc : BOOLEAN, offset : Nat, seen : SUBSET Jobs, stay : SUBSET Jobs,
                 shrunk : BOOLEAN]
    /\ queued \cup working \cup told \subseteq born /\ born \subseteq Jobs
    /\ \A j \in Jobs : Exists(j) => j \in born
    /\ deletions \in [Jobs -> Nat] /\ missed \subseteq Jobs

ApiInit ==
    /\ StoreInit
    /\ req = [r \in Requests |-> NoRequest]
    /\ walk = NoWalk
    /\ queued = {} /\ working = {} /\ born = {} /\ told = {}
    /\ deletions = [j \in Jobs |-> 0] /\ missed = {}

Match(rows, f) == {j \in Jobs : rows[j] # NoRow /\ (f = "any" \/ rows[j].status = f)}

\* What happens to the rows the walk is about: those that matched all along, and
\* whether one stopped matching.
Observe ==
    walk' = [walk EXCEPT !.stay = @ \cap Match(db', walk.filter),
                         !.shrunk = @ \/ ~(Match(db, walk.filter) \subseteq Match(db', walk.filter))]

Answer(r) == req' = [req EXCEPT ![r] = NoRequest]
Proceed(r, j, pc) == req' = [req EXCEPT ![r] = [pc |-> pc, job |-> j]]

-----------------------------------------------------------------------------
(* Requests on one job *)

\* handleSubmitJob, for a request and a job that pass Validate: the row is there.
Submit(r, j) ==
    /\ req[r].pc = "idle" /\ j \notin born
    /\ CreateJob(j)
    /\ Proceed(r, j, "enqueue")
    /\ born' = born \cup {j}
    /\ Observe
    /\ UNCHANGED <<queued, working, told, deletions, missed>>

\* Enqueue, whose failure is only logged, and 201.
SubmitEnqueue(r, ok) ==
    /\ req[r].pc = "enqueue"
    /\ queued' = IF ok THEN queued \cup {req[r].job} ELSE queued
    /\ Answer(r)
    /\ told' = told \cup {req[r].job}
    /\ UNCHANGED <<db, walk, working, born, deletions, missed>>

\* What handleGetJob, handleGetJobStatus and the first SELECT of the others answer.
GetCode(j) == IF ~Exists(j) THEN 404 ELSE IF ~Readable(j) THEN 500 ELSE 200

\* handleDeleteJob: GetJob, and the job must not be running.
Delete(r, j) ==
    /\ req[r].pc = "idle"
    /\ GetCode(j) = 200 /\ db[j].status # "running"
    /\ Proceed(r, j, "delete")
    /\ UNCHANGED <<db, walk, queued, working, born, told, deletions, missed>>

\* Mutant of DeleteJob: RowsAffected is not looked at.
DeleteUnchecked(r) ==
    LET j == req[r].job IN
    /\ req[r].pc = "delete"
    /\ DeleteRow(j)
    /\ Answer(r)
    /\ deletions' = [deletions EXCEPT ![j] = @ + 1]
    /\ Observe
    /\ UNCHANGED <<queued, working, born, told, missed>>

\* The DELETE: 204, or 404 when it affected no row.
DeleteJob(r) ==
    LET j == req[r].job IN
    /\ req[r].pc = "delete"
    /\ DeleteRow(j)
    /\ Answer(r)
    /\ deletions' = IF Exists(j) THEN [deletions EXCEPT ![j] = @ + 1] ELSE deletions
    /\ Observe
    /\ UNCHANGED <<queued, working, born, told, missed>>

\* handleRetryJob: GetJob, and the status must be terminal.
Retry(r, j) ==
    /\ req[r].pc = "idle"
    /\ GetCode(j) = 200 /\ IsTerminal(db[j].status)
    /\ Proceed(r, j, "update")
    /\ UNCHANGED <<db, walk, queued, working, born, told, deletions, missed>>

\* Mutant of RetryUpdate: the status of an empty Job is written.
RetryUpdateBlank(r) ==
    LET j == req[r].job IN
    /\ req[r].pc = "update"
    /\ UpdateJobStatus(j, "", FALSE)
    /\ IF Exists(j) THEN Proceed(r, j, "requeue") ELSE Answer(r)
    /\ Observe
    /\ UNCHANGED <<queued, working, born, told, deletions, missed>>

RetryUpdate(r) ==
    LET j == req[r].job IN
    /\ req[r].pc = "update"
    /\ UpdateJobStatus(j, "pending", FALSE)
    /\ IF Exists(j) THEN Proceed(r, j, "requeue") ELSE Answer(r)
    /\ Observe
    /\ UNCHANGED <<queued, working, born, told, deletions, missed>>

RetryEnqueue(r, ok) ==
    /\ req[r].pc = "requeue"
    /\ queued' = IF ok THEN queued \cup {req[r].job} ELSE queued
    /\ Answer(r)
    /\ UNCHANGED <<db, walk, working, born, told, deletions, missed>>

-----------------------------------------------------------------------------
(* Workers, as the table sees them *)

WorkerStarts(j) ==
    /\ j \in queued
    /\ queued' = queued \ {j} /\ working' = working \cup {j}
    /\ UpdateJobStatus(j, "running", TRUE)
    /\ Observe
    /\ UNCHANGED <<req, born, told, deletions, missed>>

WorkerEnds(j, status) ==
    /\ j \in working
    /\ working' = working \ {j}
    /\ UpdateJobStatus(j, status, FALSE)
    /\ Observe
    /\ UNCHANGED <<req, queued, born, told, deletions, missed>>

-----------------------------------------------------------------------------
(* handleListJobs and ListJobs *)

WalkStart(f, desc) ==
    /\ walk.pc = "idle"
    /\ walk' = [NoWalk EXCEPT !.pc = "page", !.filter = f, !.desc = desc, !.stay = Match(db, f)]
    /\ UNCHANGED <<db, req, queued, working, born, told, deletions, missed>>

Before(i, j) == IF walk.desc THEN CreatedAt[i] >= CreatedAt[j] ELSE CreatedAt[i] <= CreatedAt[j]

AtMost(a, b) == IF a < b THEN a ELSE b

\* Mutant of Page: no ORDER BY.
PageAnyOrder(M) ==
    {B \in SUBSET M : Cardinality(B) = AtMost(Limit, Cardinality(M) - AtMost(walk.offset, Cardinality(M)))}

\* ORDER BY created_at LIMIT Limit OFFSET offset: the rows that may be on the page,
\* for any order of rows with the same created_at.
Page(M) ==
    {B \in SUBSET M :
        \E A \in SUBSET (M \ B) :
            /\ Cardinality(A) = AtMost(walk.offset, Cardinality(M))
            /\ Cardinality(B) = AtMost(Limit, Cardinality(M) - Cardinality(A))
            /\ \A i \in A, j \in M \ A : Before(i, j)
            /\ \A i \in B, j \in M \ (A \cup B) : Before(i, j)}

\* One page; the COUNT before it only fills total.  A row that no worker has started
\* cannot be scanned, and the whole page is answered 500.
WalkPage(B) ==
    LET last == Cardinality(B) < Limit
        rest == walk.stay \ (walk.seen \cup B)
    IN
    /\ walk.pc = "page"
    /\ \/ (\E j \in B : ~Readable(j)) /\ walk' = NoWalk /\ UNCHANGED missed
       \/ /\ \A j \in B : Readable(j)
          /\ walk' = IF last THEN NoWalk
                     ELSE [walk EXCEPT !.seen = @ \cup B, !.offset = @ + Limit]
          /\ missed' = IF last /\ ~walk.shrunk THEN missed \cup rest ELSE missed
    /\ UNCHANGED <<db, req, queued, working, born, told, deletions>>

RequestNext(r) ==
    \/ \E j \in Jobs : Submit(r, j) \/ Delete(r, j) \/ Retry(r, j)
    \/ DeleteJob(r) \/ RetryUpdate(r)
    \/ \E ok \in BOOLEAN : SubmitEnqueue(r, ok) \/ RetryEnqueue(r, ok)

ApiNext ==
    \/ \E r \in Requests : RequestNext(r)
    \/ \E j \in Jobs : WorkerStarts(j) \/ \E s \in {"completed", "dead_letter"} : WorkerEnds(j, s)
    \/ \E f \in Filters, desc \in BOOLEAN : WalkStart(f, desc)
    \/ \E B \in Page(Match(db, walk.filter)) : WalkPage(B)

ApiSpec == ApiInit /\ [][ApiNext]_vars

-----------------------------------------------------------------------------
Ties == \E i, j \in Jobs : i # j /\ CreatedAt[i] = CreatedAt[j]

\* A walk that reaches its last page has shown every row that matched from its
\* first page to its last, while jobs are submitted, also with an earlier
\* created_at, started and finished; the exceptions of OFFSET are a row that stopped
\* matching on the way (a deletion, another status) and equal times.
WalkListsAll == ~Ties => missed = {}

\* Of any number of concurrent DELETEs of a job one is answered 204.
OneDeleteSucceeds == \A j \in Jobs : deletions[j] <= 1

\* A job whose submission was answered 201 has its row until a DELETE was answered
\* 204, and is never shown as live or finished after that: neither the worker that
\* still runs it nor a retry that had read the row before brings it back.  Whether the
\* row then is gone or says cancelled is left open here.
RowUntilDeleted ==
    \A j \in told : IF deletions[j] = 0 THEN Exists(j) ELSE db[j].status \in {"none", "cancelled"}
=============================================================================
