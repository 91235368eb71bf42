---------------------------- MODULE JobApiProofs ----------------------------
(***************************************************************************)
(* Proofs about JobApi, for every finite set of jobs, any number of        *)
(* concurrent requests, every page size and all filters: types, the one    *)
(* DELETE that succeeds, the life of a row, and that a walk through the    *)
(* pages misses nothing.                                                   *)
(***************************************************************************)
EXTENDS JobApi, FiniteSetTheorems, TLAPS

-----------------------------------------------------------------------------
(* Rows and requests *)

ReqStates == [pc : {"idle", "enqueue", "delete", "update", "requeue"}, job : Jobs \cup {NoJob}]

\* A request past its first statement is about a job that was inserted.
ReqInv ==
    /\ req \in [Requests -> ReqStates]
    /\ \A r \in Requests : req[r].pc # "idle" => req[r].job \in born

\* A row exists from the INSERT to the one DELETE that affected it.
RowInv ==
    /\ StoreTypeOK /\ deletions \in [Jobs -> Nat]
    /\ born \subseteq Jobs
    /\ \A j \in Jobs \ born : ~Exists(j) /\ deletions[j] = 0
    /\ \A j \in born : \/ Exists(j) /\ deletions[j] = 0
                       \/ ~Exists(j) /\ deletions[j] = 1

SetsInv == queued \cup working \cup told \subseteq born

CoreInv == ReqInv /\ RowInv /\ SetsInv

\* A request that goes on to a next call keeps ReqInv when its job is born.
LEMMA ProceedReq ==
  ASSUME ReqInv, NEW r \in Requests, NEW j \in Jobs,
         NEW pc \in {"enqueue", "delete", "update", "requeue"}, Proceed(r, j, pc),
         j \in born', born \subseteq born'
  PROVE  ReqInv'
<1>1. [pc |-> pc, job |-> j] \in ReqStates
  BY DEF ReqStates
<1> QED BY <1>1 DEF ReqInv, Proceed

\* A request that answers its caller keeps ReqInv.
LEMMA AnswerReq ==
  ASSUME ReqInv, NEW r \in Requests, Answer(r), born' = born
  PROVE  ReqInv'
<1>1. NoRequest \in ReqStates /\ NoRequest.pc = "idle"
  BY DEF NoRequest, ReqStates
<1> QED BY <1>1 DEF ReqInv, Answer

\* An UPDATE changes a row and makes or removes none.
LEMMA UpdateRow ==
  ASSUME RowInv, NEW j \in Jobs, NEW status \in Statuses, NEW w \in BOOLEAN,
         UpdateJobStatus(j, status, w), UNCHANGED <<born, deletions>>
  PROVE  RowInv'
<1>1. CASE ~Exists(j)
  BY <1>1 DEF RowInv, UpdateJobStatus, StoreTypeOK, Exists
<1>2. CASE Exists(j)
  <2> DEFINE row == [status |-> status, hasWorker |-> db[j].hasWorker \/ w]
  <2>1. row \in Rows /\ row # NoRow
    <3>1. row \in Rows
      BY DEF Rows
    <3>2. row.status # "none"
      BY DEF Statuses
    <3> QED BY <3>1, <3>2 DEF NoRow
  <2>2. db' = [db EXCEPT ![j] = row]
    BY <1>2 DEF UpdateJobStatus
  <2> HIDE DEF row
  <2>3. StoreTypeOK'
    BY <2>1, <2>2 DEF RowInv, StoreTypeOK
  <2>4. \A k \in Jobs : Exists(k)' <=> Exists(k)
    BY <1>2, <2>1, <2>2 DEF RowInv, StoreTypeOK, Exists
  <2> QED BY <2>3, <2>4 DEF RowInv
<1> QED BY <1>1, <1>2

\* Every step of the API keeps what relates rows, born jobs and requests.
LEMMA CoreStep == CoreInv /\ [ApiNext]_vars => CoreInv'
<1> SUFFICES ASSUME CoreInv, [ApiNext]_vars PROVE CoreInv'
  OBVIOUS
<1>0. ReqInv /\ RowInv /\ SetsInv
  BY DEF CoreInv
<1>a. \A r \in Requests : req[r].pc # "idle" => req[r].job \in born /\ req[r].job \in Jobs
  BY <1>0 DEF ReqInv, RowInv
<1>1. ASSUME NEW r \in Requests, NEW j \in Jobs, Submit(r, j) PROVE CoreInv'
  <2> DEFINE row == [status |-> NewJob.status, hasWorker |-> FALSE]
  <2>1. row \in Rows /\ row # NoRow
    <3>1. NewJob.status = "pending"
      BY DEF NewJob
    <3>2. row \in Rows
      BY <3>1 DEF Rows, Statuses
    <3>3. row.status # "none"
      BY <3>1
    <3> QED BY <3>2, <3>3 DEF NoRow
  <2>2. /\ j \notin born /\ db' = [db EXCEPT ![j] = row] /\ born' = born \cup {j}
        /\ UNCHANGED <<queued, working, told, deletions>> /\ Proceed(r, j, "enqueue")
    BY <1>1 DEF Submit, CreateJob
  <2> HIDE DEF row
  <2>3. RowInv'
    BY <1>0, <2>1, <2>2 DEF RowInv, StoreTypeOK, Exists
  <2>4. ReqInv'
    BY <1>0, <2>2, ProceedReq
  <2> QED BY <1>0, <2>2, <2>3, <2>4 DEF CoreInv, SetsInv
<1>2. ASSUME NEW r \in Requests, NEW ok \in BOOLEAN, SubmitEnqueue(r, ok) PROVE CoreInv'
  <2>1. ReqInv'
    BY <1>0, <1>2, AnswerReq DEF SubmitEnqueue
  <2>2. RowInv'
    BY <1>0, <1>2 DEF SubmitEnqueue, RowInv, StoreTypeOK, Exists
  <2>3. SetsInv'
    BY <1>0, <1>a, <1>2 DEF SubmitEnqueue, SetsInv
  <2> QED BY <2>1, <2>2, <2>3 DEF CoreInv
<1>3. ASSUME NEW j \in Jobs, GetCode(j) = 200 PROVE j \in born
  BY <1>0, <1>3 DEF GetCode, RowInv
<1>4. ASSUME NEW r \in Requests, NEW j \in Jobs, Delete(r, j) \/ Retry(r, j) PROVE CoreInv'
  <2>1. j \in born /\ UNCHANGED <<db, queued, working, born, told, deletions>>
    BY <1>3, <1>4 DEF Delete, Retry
  <2>2. ReqInv'
    BY <1>0, <1>4, <2>1, ProceedReq DEF Delete, Retry
  <2> QED BY <1>0, <2>1, <2>2 DEF CoreInv, RowInv, SetsInv, StoreTypeOK, Exists
<1>5. ASSUME NEW r \in Requests, DeleteJob(r) PROVE CoreInv'
  <2> DEFINE j == req[r].job
  <2>1. j \in born /\ j \in Jobs
    BY <1>a, <1>5 DEF DeleteJob
  <2>2. /\ db' = [db EXCEPT ![j] = NoRow]
        /\ deletions' = IF Exists(j) THEN [deletions EXCEPT ![j] = @ + 1] ELSE deletions
        /\ UNCHANGED <<queued, working, born, told>>
    BY <1>5 DEF DeleteJob, DeleteRow
  <2>3. ReqInv'
    BY <1>0, <1>5, AnswerReq DEF DeleteJob
  <2>4. RowInv'
    BY <1>0, <2>1, <2>2 DEF RowInv, StoreTypeOK, Exists
  <2> QED BY <1>0, <2>2, <2>3, <2>4 DEF CoreInv, SetsInv
<1>6. ASSUME NEW r \in Requests, RetryUpdate(r) PROVE CoreInv'
  <2>1. req[r].job \in born /\ req[r].job \in Jobs
    BY <1>a, <1>6 DEF RetryUpdate
  <2>2. UNCHANGED <<queued, working, born, told, deletions>>
    BY <1>6 DEF RetryUpdate
  <2>3. RowInv'
    BY <1>0, <1>6, <2>1, <2>2, UpdateRow DEF RetryUpdate, Statuses
  <2>4. ReqInv'
    BY <1>0, <1>6, <2>1, <2>2, ProceedReq, AnswerReq DEF RetryUpdate
  <2> QED BY <1>0, <2>2, <2>3, <2>4 DEF CoreInv, SetsInv
<1>7. ASSUME NEW r \in Requests, NEW ok \in BOOLEAN, RetryEnqueue(r, ok) PROVE CoreInv'
  <2>1. ReqInv'
    BY <1>0, <1>7, AnswerReq DEF RetryEnqueue
  <2>2. RowInv'
    BY <1>0, <1>7 DEF RetryEnqueue, RowInv, StoreTypeOK, Exists
  <2>3. SetsInv'
    BY <1>0, <1>a, <1>7 DEF RetryEnqueue, SetsInv
  <2> QED BY <2>1, <2>2, <2>3 DEF CoreInv
<1>8. ASSUME NEW j \in Jobs, WorkerStarts(j) PROVE CoreInv'
  <2>1. RowInv'
    BY <1>0, <1>8, UpdateRow DEF WorkerStarts, Statuses
  <2> QED BY <1>0, <1>8, <2>1 DEF WorkerStarts, CoreInv, ReqInv, SetsInv
<1>9. ASSUME NEW j \in Jobs, NEW s \in {"completed", "dead_letter"}, WorkerEnds(j, s) PROVE CoreInv'
  <2>1. RowInv'
    BY <1>0, <1>9, UpdateRow DEF WorkerEnds, Statuses
  <2> QED BY <1>0, <1>9, <2>1 DEF WorkerEnds, CoreInv, ReqInv, SetsInv
<1>10. ASSUME UNCHANGED <<db, req, queued, working, born, told, deletions>> PROVE CoreInv'
  BY <1>10 DEF CoreInv, ReqInv, RowInv, SetsInv, StoreTypeOK, Exists
<1>11. ASSUME NEW f, NEW desc, WalkStart(f, desc) PROVE CoreInv'
  BY <1>10, <1>11 DEF WalkStart
<1>12. ASSUME NEW B, WalkPage(B) PROVE CoreInv'
  BY <1>10, <1>12 DEF WalkPage
<1>13. ASSUME UNCHANGED vars PROVE CoreInv'
  BY <1>10, <1>13 DEF vars
<1> QED
  BY <1>1, <1>2, <1>4, <1>5, <1>6, <1>7, <1>8, <1>9, <1>11, <1>12, <1>13 DEF ApiNext, RequestNext

\* The core invariant holds before the first request.
LEMMA InitCore == ApiInit => CoreInv
<1> SUFFICES ASSUME ApiInit PROVE CoreInv
  OBVIOUS
<1>1. NoRequest \in ReqStates /\ NoRequest.pc = "idle"
  BY DEF NoRequest, ReqStates
<1>2. ReqInv /\ SetsInv
  BY <1>1 DEF ApiInit, ReqInv, SetsInv
<1>3. RowInv
  BY DEF ApiInit, StoreInit, RowInv, StoreTypeOK, Exists
<1> QED BY <1>2, <1>3 DEF CoreInv

\* Of any number of concurrent DELETEs of a job at most one is answered 204.
THEOREM OneDeleteSucceedsHolds == ApiSpec => []OneDeleteSucceeds
<1>1. CoreInv => OneDeleteSucceeds
  <2> SUFFICES ASSUME RowInv, NEW j \in Jobs PROVE deletions[j] <= 1
    BY DEF CoreInv, OneDeleteSucceeds
  <2>1. CASE j \in born
    BY <2>1 DEF RowInv, Exists
  <2>2. CASE j \notin born
    BY <2>2 DEF RowInv, Exists
  <2> QED BY <2>1, <2>2
<1> QED BY <1>1, InitCore, CoreStep, PTL DEF ApiSpec

\* A job whose submission was answered 201 has its row until a DELETE was answered
\* 204 and is never shown as live or finished after, whatever workers and retries still
\* do with it.
THEOREM RowUntilDeletedHolds == ApiSpec => []RowUntilDeleted
<1>1. CoreInv => RowUntilDeleted
  <2> SUFFICES ASSUME RowInv, SetsInv, NEW j \in told
               PROVE  IF deletions[j] = 0 THEN Exists(j) ELSE db[j].status \in {"none", "cancelled"}
    BY DEF CoreInv, RowUntilDeleted
  <2>1. j \in born
    BY DEF SetsInv
  <2>2. deletions[j] # 0 => db[j] = NoRow
    BY <2>1 DEF RowInv, Exists
  <2> QED BY <2>1, <2>2 DEF RowInv, Exists, NoRow
<1> QED BY <1>1, InitCore, CoreStep, PTL DEF ApiSpec

-----------------------------------------------------------------------------
(* The walk through the pages *)

Walks == [pc : {"idle", "page"}, filter : Filters \cup {"any"}, desc : BOOLEAN, offset : Nat,
          seen : SUBSET Jobs, stay : SUBSET Jobs, shrunk : BOOLEAN]

\* The matching rows that ORDER BY puts before j.
Ahead(j) == {i \in Match(db, walk.filter) : i # j /\ Before(i, j)}

\* While no row stopped matching, a row that is to be shown and was not yet has at
\* least OFFSET rows before it: it is on this page or on a later one.
ShownOrAhead ==
    walk.pc = "page" /\ ~walk.shrunk =>
        /\ walk.stay \subseteq Match(db, walk.filter)
        /\ \A j \in walk.stay \ walk.seen : Cardinality(Ahead(j)) >= walk.offset

WalkInv ==
    /\ walk \in Walks /\ missed \subseteq Jobs
    /\ ~Ties => missed = {} /\ ShownOrAhead

\* The jobs ordered before j are finitely many, so their number is a natural.
LEMMA AheadFinite ==
  ASSUME NEW j \in Jobs
  PROVE  IsFiniteSet(Ahead(j)) /\ Cardinality(Ahead(j)) \in Nat
<1>1. Ahead(j) \subseteq Jobs /\ IsFiniteSet(Jobs)
  BY ApiAssumption DEF Ahead, Match
<1> QED BY <1>1, FS_Subset, FS_CardinalityType

\* A row that has OFFSET rows before it and is not on the page has a full page more
\* of them before it.
LEMMA NotOnPage ==
  ASSUME walk \in Walks, ~Ties, NEW B \in Page(Match(db, walk.filter)),
         NEW j \in Match(db, walk.filter) \ B, Cardinality(Ahead(j)) >= walk.offset
  PROVE  /\ ~(Cardinality(B) < Limit)
         /\ Cardinality(Ahead(j)) >= walk.offset + Limit
<1> DEFINE M == Match(db, walk.filter)
<1>1. PICK A \in SUBSET (M \ B) :
         /\ Cardinality(A) = AtMost(walk.offset, Cardinality(M))
         /\ Cardinality(B) = AtMost(Limit, Cardinality(M) - Cardinality(A))
         /\ \A i \in A, k \in M \ A : Before(i, k)
         /\ \A i \in B, k \in M \ (A \cup B) : Before(i, k)
  BY DEF Page
<1>2. M \subseteq Jobs /\ B \subseteq M /\ j \in Jobs /\ IsFiniteSet(Jobs)
  BY ApiAssumption DEF Match, Page
<1> HIDE DEF M
<1>3. IsFiniteSet(M) /\ IsFiniteSet(A) /\ IsFiniteSet(B) /\ IsFiniteSet(A \cup B)
  <2>1. A \subseteq Jobs /\ A \cup B \subseteq Jobs /\ B \subseteq Jobs
    BY <1>2
  <2> QED BY <1>2, <2>1, FS_Subset
<1>4. /\ Cardinality(M) \in Nat /\ Cardinality(A) \in Nat /\ Cardinality(B) \in Nat
      /\ walk.offset \in Nat /\ Limit \in Nat /\ Limit > 0
  BY <1>3, FS_CardinalityType, ApiAssumption DEF Walks
<1>5. j \notin A
  <2> SUFFICES ASSUME j \in A PROVE FALSE
    OBVIOUS
  <2>1. Ahead(j) \subseteq A \ {j}
    <3> SUFFICES ASSUME NEW i \in Ahead(j), i \notin A PROVE FALSE
      BY DEF Ahead
    <3>1. i \in M /\ i # j /\ Before(i, j)
      BY DEF Ahead, M
    <3>2. Before(j, i)
      BY <1>1, <3>1
    <3>3. CreatedAt[i] \in Nat /\ CreatedAt[j] \in Nat /\ i \in Jobs
      BY <1>2, <3>1, ApiAssumption
    <3>4. CreatedAt[i] = CreatedAt[j]
      BY <3>1, <3>2, <3>3 DEF Before
    <3> QED BY <1>2, <3>1, <3>3, <3>4 DEF Ties
  <2>2. IsFiniteSet(A \ {j}) /\ Cardinality(A \ {j}) = Cardinality(A) - 1
    BY <1>3, FS_RemoveElement
  <2>3. Cardinality(Ahead(j)) <= Cardinality(A) - 1
    BY <2>1, <2>2, FS_Subset
  <2> QED BY <1>1, <1>2, <1>4, <2>3, AheadFinite DEF AtMost
<1>6. Cardinality(A \cup B) = Cardinality(A) + Cardinality(B)
  <2>1. A \cap B = {}
    OBVIOUS
  <2>2. Cardinality(A \cap B) = 0
    BY <2>1, FS_EmptySet
  <2>3. Cardinality(A \cup B) = Cardinality(A) + Cardinality(B) - Cardinality(A \cap B)
    BY <1>3, FS_Union
  <2> QED BY <1>4, <2>2, <2>3
<1>7. Cardinality(A \cup B) <= Cardinality(Ahead(j))
  <2>1. A \cup B \subseteq Ahead(j)
    BY <1>1, <1>2, <1>5 DEF Ahead, M
  <2> QED BY <1>2, <2>1, AheadFinite, FS_Subset
<1>8. Cardinality(Ahead(j)) < Cardinality(M)
  <2>1. Ahead(j) \subseteq M \ {j} /\ j \in M
    BY DEF Ahead, M
  <2>2. IsFiniteSet(M \ {j}) /\ Cardinality(M \ {j}) = Cardinality(M) - 1
    BY <1>3, <2>1, FS_RemoveElement
  <2>3. Cardinality(Ahead(j)) <= Cardinality(M) - 1
    BY <2>1, <2>2, FS_Subset
  <2> QED BY <1>2, <1>4, <2>3, AheadFinite
<1>9. Cardinality(Ahead(j)) \in Nat
  BY <1>2, AheadFinite
<1> QED BY <1>1, <1>4, <1>6, <1>7, <1>8, <1>9 DEF AtMost

\* A statement on the table: rows may start to match, and one that stops is noted.
LEMMA ObserveWalk ==
  ASSUME WalkInv, Observe, missed' = missed
  PROVE  WalkInv'
<1> DEFINE S == walk.stay \cap Match(db', walk.filter)
           b == walk.shrunk \/ ~(Match(db, walk.filter) \subseteq Match(db', walk.filter))
<1>1. walk \in Walks /\ missed \subseteq Jobs
  BY DEF WalkInv
<1>2. walk' = [walk EXCEPT !.stay = S, !.shrunk = b]
  BY DEF Observe
<1>3. S \in SUBSET Jobs /\ S \subseteq walk.stay /\ S \subseteq Match(db', walk.filter)
  BY <1>1 DEF Walks
<1>4. b \in BOOLEAN
  OBVIOUS
<1>5. b <=> (walk.shrunk \/ ~(Match(db, walk.filter) \subseteq Match(db', walk.filter)))
  OBVIOUS
<1> HIDE DEF S, b
<1>6. walk' \in Walks
  BY <1>1, <1>2, <1>3, <1>4 DEF Walks
<1>7. /\ walk'.pc = walk.pc /\ walk'.filter = walk.filter /\ walk'.desc = walk.desc
      /\ walk'.offset = walk.offset /\ walk'.seen = walk.seen
      /\ walk'.stay = S /\ walk'.shrunk = b
  BY <1>1, <1>2 DEF Walks
<1>8. ASSUME ~Ties PROVE ShownOrAhead'
  <2> SUFFICES ASSUME walk.pc = "page", ~b
               PROVE  /\ S \subseteq Match(db', walk.filter)
                      /\ \A j \in S \ walk.seen : Cardinality(Ahead(j)') >= walk.offset
    BY <1>7 DEF ShownOrAhead
  <2>1. ~walk.shrunk /\ Match(db, walk.filter) \subseteq Match(db', walk.filter)
    BY <1>5
  <2>2. ASSUME NEW j \in S \ walk.seen PROVE Cardinality(Ahead(j)') >= walk.offset
    <3>1. j \in Jobs /\ walk.offset \in Nat
      BY <1>1, <1>3 DEF Walks
    <3>2. Cardinality(Ahead(j)) >= walk.offset
      BY <1>3, <1>8, <2>1 DEF WalkInv, ShownOrAhead
    <3>3. Ahead(j) \subseteq Ahead(j)'
      BY <1>7, <2>1 DEF Ahead, Before
    <3>4. IsFiniteSet(Ahead(j)') /\ Ahead(j)' \subseteq Jobs
      <4>1. Ahead(j)' \subseteq Jobs
        BY DEF Ahead, Match
      <4> QED BY <4>1, ApiAssumption, FS_Subset
    <3>5. Cardinality(Ahead(j)) <= Cardinality(Ahead(j)') /\ Cardinality(Ahead(j)') \in Nat
      BY <3>3, <3>4, FS_Subset, FS_CardinalityType
    <3> QED BY <3>1, <3>2, <3>5, AheadFinite
  <2> QED BY <1>3, <2>2
<1>9. ~Ties => missed' = {}
  BY DEF WalkInv
<1> QED BY <1>1, <1>6, <1>8, <1>9 DEF WalkInv

\* The absent walk is a walk, at rest.
LEMMA NoWalkInv == NoWalk \in Walks /\ NoWalk.pc = "idle"
BY DEF NoWalk, Walks

\* Ending a walk keeps WalkInv when it misses nothing without ties.
LEMMA WalkEnds ==
  ASSUME WalkInv, walk' = NoWalk, missed' \subseteq Jobs, ~Ties => missed' = {}
  PROVE  WalkInv'
BY NoWalkInv DEF WalkInv, ShownOrAhead

\* Reading one page keeps WalkInv: the rows it does not show are still ahead.
LEMMA PageWalk ==
  ASSUME WalkInv, NEW B \in Page(Match(db, walk.filter)), WalkPage(B)
  PROVE  WalkInv'
<1>1. walk \in Walks /\ missed \subseteq Jobs /\ (~Ties => missed = {} /\ ShownOrAhead)
  BY DEF WalkInv
<1>2. B \subseteq Jobs
  BY DEF Page, Match
<1>3. CASE walk' = NoWalk /\ UNCHANGED missed
  BY <1>1, <1>3, WalkEnds
<1>4. CASE /\ walk' = NoWalk /\ Cardinality(B) < Limit /\ ~walk.shrunk
           /\ missed' = missed \cup (walk.stay \ (walk.seen \cup B))
  <2>1. missed' \subseteq Jobs
    BY <1>1, <1>4 DEF Walks
  <2>2. ASSUME ~Ties PROVE missed' = {}
    <3> SUFFICES ASSUME NEW j \in walk.stay \ (walk.seen \cup B) PROVE FALSE
      BY <1>1, <1>4, <2>2
    <3>1. walk.pc = "page"
      BY DEF WalkPage
    <3>2. j \in Match(db, walk.filter) \ B /\ Cardinality(Ahead(j)) >= walk.offset
      BY <1>1, <1>4, <2>2, <3>1 DEF ShownOrAhead
    <3> QED BY <1>1, <1>4, <2>2, <3>2, NotOnPage
  <2> QED BY <1>4, <2>1, <2>2, WalkEnds
<1>5. CASE /\ walk' = [walk EXCEPT !.seen = @ \cup B, !.offset = @ + Limit]
           /\ UNCHANGED <<db, missed>>
  <2> DEFINE seen == walk.seen \cup B
             offset == walk.offset + Limit
  <2>1. seen \in SUBSET Jobs /\ offset \in Nat
    BY <1>1, <1>2, ApiAssumption DEF Walks
  <2>2. walk' = [walk EXCEPT !.seen = seen, !.offset = offset]
    BY <1>5
  <2> HIDE DEF seen, offset
  <2>3. walk' \in Walks
    BY <1>1, <2>1, <2>2 DEF Walks
  <2>4. /\ walk'.pc = walk.pc /\ walk'.filter = walk.filter /\ walk'.desc = walk.desc
        /\ walk'.offset = offset /\ walk'.seen = seen
        /\ walk'.stay = walk.stay /\ walk'.shrunk = walk.shrunk
    BY <1>1, <2>2 DEF Walks
  <2>5. ASSUME ~Ties PROVE ShownOrAhead'
    <3> SUFFICES ASSUME walk.pc = "page", ~walk.shrunk
                 PROVE  /\ walk.stay \subseteq Match(db, walk.filter)
                        /\ \A j \in walk.stay \ seen : Cardinality(Ahead(j)') >= offset
      BY <1>5, <2>4 DEF ShownOrAhead, Match
    <3>1. ASSUME NEW j \in walk.stay \ seen PROVE Cardinality(Ahead(j)') >= offset
      <4>1. j \in Match(db, walk.filter) \ B /\ Cardinality(Ahead(j)) >= walk.offset
        BY <1>1, <2>5 DEF ShownOrAhead, seen
      <4>2. Ahead(j)' = Ahead(j)
        BY <1>5, <2>4 DEF Ahead, Before, Match
      <4>3. Cardinality(Ahead(j)) >= offset
        BY <1>1, <2>5, <4>1, NotOnPage DEF offset
      <4> QED BY <4>2, <4>3
    <3> QED BY <1>1, <2>5, <3>1 DEF ShownOrAhead
  <2> QED BY <1>1, <1>5, <2>3, <2>5 DEF WalkInv
<1> QED BY <1>3, <1>4, <1>5 DEF WalkPage

\* Starting a walk makes every matching row a row ahead.
LEMMA StartWalk ==
  ASSUME WalkInv, NEW f \in Filters, NEW desc \in BOOLEAN, WalkStart(f, desc)
  PROVE  WalkInv'
<1> DEFINE S == Match(db, f)
<1>1. S \in SUBSET Jobs
  BY DEF Match
<1>2. walk' = [NoWalk EXCEPT !.pc = "page", !.filter = f, !.desc = desc, !.stay = S]
  BY DEF WalkStart
<1> HIDE DEF S
<1>3. walk' \in Walks
  BY <1>1, <1>2, NoWalkInv DEF Walks
<1>4. walk'.filter = f /\ walk'.stay = S /\ walk'.offset = 0
  BY <1>2, NoWalkInv DEF Walks, NoWalk
<1>5. S = Match(db, f) /\ UNCHANGED <<db, missed>>
  BY DEF S, WalkStart
<1>6. ShownOrAhead'
  <2>1. walk'.stay \subseteq Match(db', walk'.filter)
    BY <1>4, <1>5 DEF Match
  <2>2. ASSUME NEW j \in walk'.stay PROVE Cardinality(Ahead(j)') >= 0
    <3>1. Ahead(j)' \subseteq Jobs
      BY DEF Ahead, Match
    <3> QED BY <3>1, ApiAssumption, FS_Subset, FS_CardinalityType
  <2> QED BY <1>4, <2>1, <2>2 DEF ShownOrAhead
<1> QED BY <1>3, <1>5, <1>6 DEF WalkInv

\* A step that touches neither rows nor walk keeps WalkInv.
LEMMA WalkKept ==
  ASSUME WalkInv, UNCHANGED <<db, walk, missed>>
  PROVE  WalkInv'
BY DEF WalkInv, ShownOrAhead, Ahead, Before, Match

\* Every step of the API keeps the walk invariant.
LEMMA WalkStep == WalkInv /\ [ApiNext]_vars => WalkInv'
<1> SUFFICES ASSUME WalkInv, [ApiNext]_vars PROVE WalkInv'
  OBVIOUS
<1>1. ASSUME NEW r \in Requests, RequestNext(r) PROVE WalkInv'
  <2>1. ASSUME NEW j, Submit(r, j) PROVE WalkInv'
    BY <2>1, ObserveWalk DEF Submit
  <2>2. ASSUME NEW j, Delete(r, j) \/ Retry(r, j) PROVE WalkInv'
    BY <2>2, WalkKept DEF Delete, Retry
  <2>3. ASSUME DeleteJob(r) \/ RetryUpdate(r) PROVE WalkInv'
    BY <2>3, ObserveWalk DEF DeleteJob, RetryUpdate
  <2>4. ASSUME NEW ok, SubmitEnqueue(r, ok) \/ RetryEnqueue(r, ok) PROVE WalkInv'
    BY <2>4, WalkKept DEF SubmitEnqueue, RetryEnqueue
  <2> QED BY <1>1, <2>1, <2>2, <2>3, <2>4 DEF RequestNext
<1>2. ASSUME NEW j, WorkerStarts(j) PROVE WalkInv'
  BY <1>2, ObserveWalk DEF WorkerStarts
<1>3. ASSUME NEW j, NEW s, WorkerEnds(j, s) PROVE WalkInv'
  BY <1>3, ObserveWalk DEF WorkerEnds
<1>4. ASSUME UNCHANGED vars PROVE WalkInv'
  BY <1>4, WalkKept DEF vars
<1> QED BY <1>1, <1>2, <1>3, <1>4, StartWalk, PageWalk DEF ApiNext

\* No walk is under way at the start.
LEMMA InitWalk == ApiInit => WalkInv
BY NoWalkInv DEF ApiInit, WalkInv, ShownOrAhead

\* A walk that reaches its last page has shown every row that matched from its first
\* page to its last, for every page size and filter and any interleaving with
\* submissions, workers, deletions and retries: the exceptions are the two of
\* WalkListsAll, a row that stopped matching and equal times.
THEOREM WalkListsAllHolds == ApiSpec => []WalkListsAll
<1>1. WalkInv => WalkListsAll
  BY DEF WalkInv, WalkListsAll
<1> QED BY <1>1, InitWalk, WalkStep, PTL DEF ApiSpec

\* Types, and that a row, a queue entry and a 201 are only there for inserted jobs.
THEOREM ApiTypeCorrect == ApiSpec => []ApiTypeOK
<1>1. CoreInv /\ WalkInv => ApiTypeOK
  BY DEF CoreInv, ReqInv, ReqStates, RowInv, SetsInv, WalkInv, Walks, ApiTypeOK
<1> QED BY <1>1, InitCore, CoreStep, InitWalk, WalkStep, PTL DEF ApiSpec
=============================================================================
