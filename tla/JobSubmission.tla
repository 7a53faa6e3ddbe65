---------------------------- MODULE JobSubmission ---------------------------
(***************************************************************************)
(* The submission and query API of the job processing system: concurrent   *)
(* POST /jobs requests with idempotency keys, against one jobs table that  *)
(* workers change meanwhile.                                               *)
(*                                                                         *)
(* A request is one READ COMMITTED transaction: the INSERT .. ON CONFLICT  *)
(* DO NOTHING waits for a pending row with the same key; when it inserted  *)
(* nothing, a second statement reads the row that owns the key.  After the *)
(* commit a third statement, in a transaction of its own, refreshes the    *)
(* job that is returned.                                                   *)
(***************************************************************************)
EXTENDS Naturals, FiniteSets, SequencesExt

CONSTANTS
  Key,      \* idempotency keys
  Work,     \* what a job is to do: queue, task_name, payload, priority, max_attempts
  Queue,
  QueueOf,  \* [Work -> Queue]
  Request,  \* the requests of a behaviour
  Ops,      \* the operations they may ask for
  None

JobStatus == {"queued", "running", "retry_scheduled", "succeeded", "dead_lettered", "cancelled"}

JobCreate == [kind : {"create"}, work : Work, key : Key \cup {None}]
JobRead == [kind : {"get"}]
JobList == [kind : {"list"}, queue : Queue \cup {None}, status : JobStatus \cup {None},
            limit : 1..100, offset : Nat]

ASSUME SubmissionAssumption ==
  /\ QueueOf \in [Work -> Queue]
  /\ None \notin Key \cup Queue \cup Request
  /\ \A op \in Ops : op \in JobCreate \cup JobRead \cup JobList

VARIABLES
  jobs,  \* set of the committed rows
  req    \* [Request -> record]: the session of each request

vars == <<jobs, req>>

\* id names the request that inserted the row; created_at is PostgreSQL's now(),
\* the start of its transaction, here the rank of the request.
Row == [id : Request, work : Work, key : Key \cup {None}, status : JobStatus,
        created_at : Nat \ {0}]
NewRow(r) ==
  [id |-> r, work |-> req[r].op.work, key |-> req[r].op.key, status |-> "queued",
   created_at |-> req[r].rank]

\* A session: job is the id of the row that is returned, created whether this
\* request inserted it, page the ids of a listing.
Blank == [pc |-> "idle", op |-> None, rank |-> 0, job |-> None, created |-> FALSE,
          answer |-> 0, page |-> <<>>]

Init == jobs = {} /\ req = [r \in Request |-> Blank]

At(r, pc) == req[r].pc = pc
Set(r, s) == req' = [req EXCEPT ![r] = s]
Started(op) == [Blank EXCEPT !.op = op]
Ended(s, answer) == [s EXCEPT !.pc = "ended", !.answer = answer]

Ids == {j.id : j \in jobs}
OwnerOf(key) == {j \in jobs : j.key = key}

-----------------------------------------------------------------------------
\* create_or_get_idempotent_job.  NULL keys are never equal.
KeyPending(r, key) ==
  /\ key # None
  /\ \E q \in Request \ {r} : At(q, "inserted") /\ req[q].op.key = key
KeyNotUnique(key) == FALSE
KeyTaken(key) == key # None /\ OwnerOf(key) # {}

Begin(r, op) ==
  /\ At(r, "idle") /\ op.kind = "create"
  /\ Set(r, [Started(op) EXCEPT !.pc = "begun",
                                !.rank = 1 + Cardinality({q \in Request : req[q].rank > 0})])
  /\ UNCHANGED jobs

Insert(r) ==
  LET s == req[r] IN
  /\ At(r, "begun") /\ ~KeyPending(r, s.op.key)
  /\ Set(r, IF KeyTaken(s.op.key) THEN [s EXCEPT !.pc = "conflict"]
            ELSE [s EXCEPT !.pc = "inserted", !.job = r, !.created = TRUE])
  /\ UNCHANGED jobs

\* job_matches_submission compares what the job is to do, nothing a worker
\* changes.
MatchesQueued(row, op) == row.work = op.work /\ row.status = "queued"
Matches(row, op) == row.work = op.work

\* A conflict without a row would raise RuntimeError; no job is ever deleted.
ReadExisting(r) ==
  LET found == OwnerOf(req[r].op.key) IN
  /\ At(r, "conflict")
  /\ Set(r, IF found = {} THEN Ended(req[r], 500)
            ELSE LET row == CHOOSE j \in found : TRUE IN
                 IF Matches(row, req[r].op) THEN [req[r] EXCEPT !.pc = "committed", !.job = row.id]
                 ELSE Ended(req[r], 409))
  /\ UNCHANGED jobs

Commit(r) ==
  /\ At(r, "inserted")
  /\ jobs' = jobs \cup {NewRow(r)}
  /\ Set(r, [req[r] EXCEPT !.pc = "committed"])

\* The refresh, and the answer 201 whether the job was created or replayed.
Refresh(r) ==
  /\ At(r, "committed")
  /\ Set(r, IF req[r].job \in Ids THEN Ended(req[r], 201) ELSE Ended(req[r], 500))
  /\ UNCHANGED jobs

\* Any statement may raise, the commit may raise after it took effect, and the
\* answer may be lost: the client only knows that it has no answer.
Fail(r) ==
  /\ req[r].pc \in {"begun", "conflict", "inserted", "committed"}
  /\ Set(r, Ended(req[r], 500))
  /\ UNCHANGED jobs

-----------------------------------------------------------------------------
\* GET /jobs/{id} and GET /jobs.
Get(r, op) ==
  /\ At(r, "idle") /\ op.kind = "get"
  /\ \/ Set(r, Ended(Started(op), 404))
     \/ \E id \in Ids : Set(r, Ended([Started(op) EXCEPT !.job = id], 200))
  /\ UNCHANGED jobs

Selected(op, row) ==
  /\ op.queue \in {None, QueueOf[row.work]}
  /\ op.status \in {None, row.status}

\* LIMIT and OFFSET: the last of n rows that is on the page.
LastOnPageInclusive(op, n) == IF op.offset + op.limit < n THEN op.offset + op.limit + 1 ELSE n
LastOnPage(op, n) == IF op.offset + op.limit < n THEN op.offset + op.limit ELSE n

Selection(op) == {j \in jobs : Selected(op, j)}
NewestFirst(op) == SetToSortSeq(Selection(op), LAMBDA i, j : i.created_at > j.created_at)

\* One page of the selected rows, newest first.
PageOf(op) ==
  LET last == LastOnPage(op, Cardinality(Selection(op))) IN
  [n \in 1..(last - op.offset) |-> NewestFirst(op)[op.offset + n].id]

List(r, op) ==
  /\ At(r, "idle") /\ op.kind = "list"
  /\ Set(r, Ended([Started(op) EXCEPT !.page = PageOf(op)], 200))
  /\ UNCHANGED jobs

\* What workers do to a row (module JobQueue), as far as this API can tell.
Worked(status) ==
  CASE status \in {"queued", "retry_scheduled"} -> {"running"}
    [] status = "running" -> {"retry_scheduled", "succeeded", "dead_lettered"}
    [] OTHER -> {}

Progress(j) ==
  /\ \E s \in Worked(j.status) : jobs' = (jobs \ {j}) \cup {[j EXCEPT !.status = s]}
  /\ UNCHANGED req

Next ==
  \/ \E r \in Request :
       \/ \E op \in Ops : Begin(r, op) \/ Get(r, op) \/ List(r, op)
       \/ Insert(r) \/ ReadExisting(r) \/ Commit(r) \/ Refresh(r) \/ Fail(r)
  \/ \E j \in jobs : Progress(j)

Spec == Init /\ [][Next]_vars

-----------------------------------------------------------------------------
\* The table holds rows of the model class, and a page no more rows than its
\* limit.
TypeOK ==
  /\ jobs \subseteq Row /\ Cardinality(Ids) = Cardinality(jobs)
  /\ \A r \in Request :
       /\ req[r].pc \in {"idle", "begun", "conflict", "inserted", "committed", "ended"}
       /\ req[r].answer \in {0, 200, 201, 404, 409, 500}
       /\ req[r].job \in Request \cup {None} /\ req[r].created \in BOOLEAN
       /\ Len(req[r].page) <= IF req[r].page = <<>> THEN 0 ELSE req[r].op.limit

Creating(r) == At(r, "ended") /\ req[r].op.kind = "create"

\* A submission may be repeated until it is answered, while others use the same
\* key and workers run the job: every request with one key that is told 201 is
\* given the same job, that job does what each of them asked for, exactly one
\* of them may have created it, and a 409 means that another submission owns
\* the key.
OneJobPerKey ==
  \A r \in Request : Creating(r) /\ req[r].op.key # None =>
    /\ Cardinality(OwnerOf(req[r].op.key)) <= 1
    /\ req[r].answer = 201 =>
         /\ \E j \in OwnerOf(req[r].op.key) : j.id = req[r].job /\ j.work = req[r].op.work
         /\ req[r].created <=> req[r].job = r
    /\ req[r].answer = 409 =>
         \E j \in OwnerOf(req[r].op.key) : j.work # req[r].op.work
=============================================================================
