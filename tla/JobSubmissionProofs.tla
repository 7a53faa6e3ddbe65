------------------------- MODULE JobSubmissionProofs -------------------------
(***************************************************************************)
(* Theorems about JobSubmission, for any number of requests, any keys and  *)
(* any progress of the workers.  What carries them is that a request which *)
(* inserted a row is alone with its key until it commits, and that the row *)
(* which owns a key keeps its id, its work and its key for good.           *)
(***************************************************************************)
EXTENDS JobSubmission, FiniteSetTheorems, TLAPS

Live == {"begun", "conflict", "inserted", "committed"}

\* The shape of a session; a page is whatever a listing selected.
Answer == {0, 200, 201, 404, 409, 500}
Session(s) ==
  /\ s \in [pc : Live \cup {"idle", "ended"}, op : {s.op}, rank : Nat, job : Request \cup {None},
            created : BOOLEAN, answer : Answer, page : {s.page}]
  /\ Len(s.page) <= IF s.page = <<>> THEN 0 ELSE s.op.limit

\* r was given a row that does what it asked for, and created it iff it is r's.
Served(r) ==
  LET s == req[r] IN
  \E j \in jobs : /\ j.id = s.job /\ j.work = s.op.work /\ j.key = s.op.key
                  /\ s.created <=> s.job = r

\* What a session knows about the table.
SessionOK(r) ==
  LET s == req[r] IN
  /\ s.pc = "idle" => s = Blank
  /\ s.pc # "idle" => s.op \in Ops
  /\ s.pc \in Live => s.op.kind = "create" /\ s.rank > 0
  /\ s.pc \in {"begun", "conflict"} => s.job = None /\ ~s.created
  /\ s.pc = "conflict" => s.op.key # None /\ OwnerOf(s.op.key) # {}
  /\ s.pc = "inserted" =>
       /\ s.job = r /\ s.created
       /\ s.op.key # None => OwnerOf(s.op.key) = {}
  /\ s.pc = "committed" => Served(r)
  /\ s.pc \in Live => s.page = <<>>
  /\ s.pc = "ended" /\ s.op.kind = "create" =>
       /\ s.answer = 201 => Served(r)
       /\ s.answer = 409 => \E j \in OwnerOf(s.op.key) : j.work # s.op.work

\* Rows have an id of their own and a key of their own, if any.
RowsOK ==
  /\ jobs \subseteq Row /\ IsFiniteSet(jobs)
  /\ \A i, j \in jobs : i.id = j.id \/ (i.key # None /\ i.key = j.key) => i = j
  /\ \A j \in jobs : req[j.id].pc \in {"committed", "ended"}

\* Requests that inserted and have not committed have different keys.
PendingOK ==
  \A q, r \in Request :
    At(q, "inserted") /\ At(r, "inserted") /\ req[q].op.key = req[r].op.key
      /\ req[q].op.key # None => q = r

\* The requests that began; created_at is their rank.
Ranked == {q \in Request : req[q].rank > 0}

\* The inductive invariant.
IInv ==
  /\ req = [r \in Request |-> req[r]]
  /\ \A r \in Request : Session(req[r]) /\ SessionOK(r)
  /\ RowsOK /\ PendingOK /\ IsFiniteSet(Ranked)

-----------------------------------------------------------------------------
\* A step of one session leaves the others as they are.
LEMMA SetFacts ==
  ASSUME req = [q \in Request |-> req[q]], NEW r \in Request, NEW s, Set(r, s)
  PROVE  /\ req' = [q \in Request |-> req'[q]]
         /\ req'[r] = s
         /\ \A q \in Request \ {r} : req'[q] = req[q]
  BY DEF Set

\* What the end of a request does to its session.
LEMMA EndedFacts ==
  ASSUME NEW s, Session(s), NEW a \in Answer
  PROVE  LET e == Ended(s, a) IN
         /\ Session(e) /\ e.pc = "ended" /\ e.answer = a /\ e.op = s.op
         /\ e.rank = s.rank /\ e.job = s.job /\ e.created = s.created /\ e.page = s.page
  BY DEF Session, Ended, Live

\* What the operations say.
LEMMA OpFacts ==
  ASSUME NEW op \in Ops
  PROVE  /\ op.kind \in {"create", "get", "list"}
         /\ op.kind = "create" => op.work \in Work /\ op.key \in Key \cup {None}
         /\ op.kind = "list" => op.limit \in 1..100 /\ op.offset \in Nat
  BY SubmissionAssumption DEF JobCreate, JobRead, JobList

\* Rows are only added, and change nothing but their status.
RowsGrow ==
  \A j \in jobs : \E i \in jobs' : i.id = j.id /\ i.work = j.work /\ i.key = j.key

\* What a session knows stays true while rows are only added, provided nobody
\* commits the key it is about to commit.
LEMMA SessionKept ==
  ASSUME NEW r \in Request, SessionOK(r), req'[r] = req[r], RowsGrow,
         At(r, "inserted") /\ req[r].op.key # None => OwnerOf(req[r].op.key)' = {}
  PROVE  SessionOK(r)'
<1>1. Served(r) => Served(r)'
  BY DEF Served, RowsGrow
<1>2. ASSUME NEW key, OwnerOf(key) # {} PROVE \E i \in jobs' : i.key = key
  BY <1>2 DEF OwnerOf, RowsGrow
<1>3. ASSUME NEW j \in jobs
      PROVE  \E i \in jobs' : i.key = j.key /\ i.work = j.work
  BY DEF RowsGrow
<1> DEFINE s == req[r]
<1>4. s.pc = "conflict" => \E i \in jobs' : i.key = s.op.key
  BY <1>2 DEF SessionOK
<1>5. s.pc = "ended" /\ s.op.kind = "create" /\ s.answer = 409 =>
        \E i \in jobs' : i.key = s.op.key /\ i.work # s.op.work
  BY <1>3 DEF SessionOK, OwnerOf
<1>. QED
  BY <1>1, <1>4, <1>5 DEF SessionOK, OwnerOf, At, Live, Blank

\* A step of one session that writes nothing preserves the invariant if the
\* session ends up in order and, having inserted, is alone with its key.
LEMMA SessionStep ==
  ASSUME IInv, NEW r \in Request, NEW s, Set(r, s), UNCHANGED jobs,
         Session(s), SessionOK(r)',
         s.pc = "inserted" => ~KeyPending(r, s.op.key),
         r \in Ids => s.pc \in {"committed", "ended"}
  PROVE  IInv'
<1>1. /\ req' = [q \in Request |-> req'[q]] /\ req'[r] = s
      /\ \A q \in Request \ {r} : req'[q] = req[q]
  BY SetFacts DEF IInv
<1>2. \A q \in Request : SessionOK(q)'
  <2>1. RowsGrow
    BY DEF RowsGrow
  <2>2. \A key : OwnerOf(key)' = OwnerOf(key)
    BY DEF OwnerOf
  <2>3. ASSUME NEW q \in Request \ {r} PROVE SessionOK(q)'
    BY <1>1, <2>1, <2>2, <2>3, SessionKept DEF IInv, SessionOK, At
  <2>. QED
    BY <2>3
<1>3. \A q \in Request : Session(req'[q])
  BY <1>1 DEF IInv
<1>4. RowsOK'
  BY <1>1 DEF IInv, RowsOK, Ids, Row
<1>5. PendingOK'
  BY <1>1 DEF IInv, PendingOK, KeyPending, At
<1>6. IsFiniteSet(Ranked')
  <2>1. Ranked' \subseteq Ranked \cup {r}
    BY <1>1 DEF Ranked
  <2>2. IsFiniteSet(Ranked \cup {r})
    BY FS_AddElement DEF IInv
  <2>. QED
    BY <2>1, <2>2, FS_Subset
<1>. QED
  BY <1>1, <1>2, <1>3, <1>4, <1>5, <1>6 DEF IInv

-----------------------------------------------------------------------------
(* The steps                                                               *)

\* A page has at most limit rows.
LEMMA PageFacts ==
  ASSUME NEW op \in Ops, op.kind = "list", IsFiniteSet(jobs)
  PROVE  Len(PageOf(op)) <= IF PageOf(op) = <<>> THEN 0 ELSE op.limit
<1> DEFINE n == Cardinality(Selection(op))
           size == LastOnPage(op, n) - op.offset
<1>1. n \in Nat
  BY FS_Subset, FS_CardinalityType DEF Selection
<1>2. size \in Int /\ size <= op.limit /\ op.limit \in Nat
  BY <1>1, OpFacts DEF LastOnPage
<1>3. PageOf(op) = [k \in 1..size |-> NewestFirst(op)[op.offset + k].id]
  BY DEF PageOf
<1>. HIDE DEF size
<1>4. CASE size > 0
  <2>1. Len(PageOf(op)) = size
    BY <1>2, <1>3, <1>4
  <2>2. 1 \in DOMAIN PageOf(op)
    BY <1>2, <1>3, <1>4
  <2>. QED
    BY <1>2, <2>1, <2>2
<1>5. CASE size <= 0
  <2>1. 1..size = {}
    BY <1>2, <1>5
  <2>2. PageOf(op) = <<>>
    BY <1>3, <2>1
  <2>. QED
    BY <2>2
<1>. QED
  BY <1>2, <1>4, <1>5

\* Only a request past its commit has a row.
LEMMA NoRowYet ==
  ASSUME IInv, NEW r \in Request, req[r].pc \notin {"committed", "ended"}
  PROVE  r \notin Ids
  BY DEF IInv, RowsOK, Ids

\* A request that is answered at once: a look-up or a listing.
LEMMA Answered ==
  ASSUME IInv, NEW r \in Request, NEW op \in Ops, At(r, "idle"), op.kind # "create",
         UNCHANGED jobs, NEW s, Session(s), s.op = op, s.pc = "ended", Set(r, s)
  PROVE  IInv'
<1>1. req'[r] = s
  BY SetFacts DEF IInv
<1>2. SessionOK(r)'
  BY <1>1 DEF SessionOK, Live
<1>. QED
  BY <1>2, SessionStep

\* A session that has just started.
LEMMA StartedFacts ==
  ASSUME NEW op
  PROVE  /\ Started(op) \in [pc : Live \cup {"idle", "ended"}, op : {op}, rank : Nat,
                             job : Request \cup {None}, created : BOOLEAN, answer : Answer,
                             page : {<<>>}]
         /\ Started(op).op = op /\ Started(op).page = <<>>
         /\ Session(Started(op))
<1>1. 0 \in Answer
  BY DEF Answer
<1>2. /\ Started(op) \in [pc : Live \cup {"idle", "ended"}, op : {op}, rank : Nat,
                          job : Request \cup {None}, created : BOOLEAN, answer : Answer,
                          page : {<<>>}]
      /\ Started(op).op = op /\ Started(op).page = <<>>
  BY <1>1 DEF Started, Blank
<1>. QED
  BY <1>2 DEF Session

LEMMA BeginStep ==
  ASSUME IInv, NEW r \in Request, NEW op \in Ops, Begin(r, op)
  PROVE  IInv'
<1> DEFINE n == 1 + Cardinality(Ranked)
           s == [Started(op) EXCEPT !.pc = "begun", !.rank = n]
<1>1. /\ At(r, "idle") /\ op.kind = "create" /\ Set(r, s) /\ UNCHANGED jobs
  BY DEF Begin, Ranked
<1>2. n \in Nat /\ n > 0
  BY FS_CardinalityType DEF IInv
<1>. HIDE DEF n
<1>3. Session(s) /\ s.pc = "begun" /\ s.op = op
  BY <1>2, StartedFacts DEF Session, Live
<1>4. SessionOK(r)'
  <2>1. req'[r] = s
    BY <1>1, SetFacts DEF IInv
  <2>2. s.job = None /\ s.created = FALSE /\ s.rank = n /\ s.page = <<>>
    BY DEF Started, Blank
  <2>. HIDE DEF s
  <2>. QED
    BY <1>1, <1>2, <1>3, <2>1, <2>2 DEF SessionOK, Live
<1>5. r \notin Ids
  BY <1>1, NoRowYet DEF At
<1>. HIDE DEF s
<1>. QED
  BY <1>1, <1>3, <1>4, <1>5, SessionStep

LEMMA InsertStep ==
  ASSUME IInv, NEW r \in Request, Insert(r)
  PROVE  IInv'
<1> DEFINE u == req[r]
           s == IF KeyTaken(u.op.key) THEN [u EXCEPT !.pc = "conflict"]
                ELSE [u EXCEPT !.pc = "inserted", !.job = r, !.created = TRUE]
<1>1. /\ At(r, "begun") /\ ~KeyPending(r, u.op.key) /\ Set(r, s) /\ UNCHANGED jobs
  BY DEF Insert
<1>2. Session(u) /\ SessionOK(r)
  BY DEF IInv
<1>3. Session(s) /\ s.op = u.op
  BY <1>1, <1>2 DEF Session, Live
<1>4. SessionOK(r)'
  <2>1. req'[r] = s
    BY <1>1, SetFacts DEF IInv
  <2>2. req'[r].op = u.op /\ jobs' = jobs
    BY <1>1, <1>3, <2>1
  <2>. QED
    BY <1>1, <1>2, <2>1, <2>2 DEF SessionOK, Session, At, Live, KeyTaken, OwnerOf
<1>5. r \notin Ids
  BY <1>1, NoRowYet DEF At
<1>. QED
  BY <1>1, <1>3, <1>4, <1>5, SessionStep

LEMMA ReadExistingStep ==
  ASSUME IInv, NEW r \in Request, ReadExisting(r)
  PROVE  IInv'
<1> DEFINE u == req[r]
           found == OwnerOf(u.op.key)
           row == CHOOSE j \in found : TRUE
           s == IF Matches(row, u.op) THEN [u EXCEPT !.pc = "committed", !.job = row.id]
                ELSE Ended(u, 409)
<1>1. Session(u) /\ SessionOK(r) /\ jobs \subseteq Row
  BY DEF IInv, RowsOK
<1>2. /\ At(r, "conflict") /\ UNCHANGED jobs
      /\ Set(r, IF found = {} THEN Ended(u, 500) ELSE s)
  BY DEF ReadExisting
<1>3. found # {} /\ u.op.key # None
  BY <1>1, <1>2 DEF SessionOK, At
<1>4. row \in jobs /\ row.key = u.op.key
  BY <1>3 DEF OwnerOf
<1>5. Set(r, s)
  BY <1>2, <1>3
<1>6. row.id \in Request /\ row.id # r
  <2>1. row.id \in Request
    BY <1>1, <1>4 DEF Row
  <2>2. r \notin Ids
    BY <1>2, NoRowYet DEF At
  <2>. QED
    BY <1>4, <2>1, <2>2 DEF Ids
<1>. HIDE DEF row
<1>7. /\ Session(Ended(u, 409)) /\ Ended(u, 409).pc = "ended" /\ Ended(u, 409).op = u.op
      /\ Ended(u, 409).answer = 409
  BY <1>1, EndedFacts DEF Answer
<1>8. Session(s)
  <2>1. Session([u EXCEPT !.pc = "committed", !.job = row.id])
    BY <1>1, <1>6 DEF Session, Live
  <2>. QED
    BY <1>7, <2>1
<1>9. SessionOK(r)'
  <2>1. req'[r] = s
    BY <1>5, SetFacts DEF IInv
  <2>2. CASE Matches(row, u.op)
    <3>1. req'[r] = [u EXCEPT !.pc = "committed", !.job = row.id]
      BY <2>1, <2>2
    <3>2. Served(r)'
      BY <1>1, <1>2, <1>4, <1>6, <2>2, <3>1 DEF Served, Matches, Session, SessionOK, At
    <3>. QED
      BY <1>1, <1>2, <3>1, <3>2 DEF SessionOK, Session, At, Live
  <2>3. CASE ~Matches(row, u.op)
    <3>1. req'[r] = Ended(u, 409)
      BY <2>1, <2>3
    <3>. QED
      BY <1>1, <1>2, <1>4, <1>7, <2>3, <3>1 DEF SessionOK, At, Live, Matches, OwnerOf
  <2>. QED
    BY <2>2, <2>3
<1>10. r \notin Ids
  BY <1>2, NoRowYet DEF At
<1>11. s.pc # "inserted"
  BY <1>1, <1>7 DEF Session
<1>. QED
  BY <1>2, <1>5, <1>8, <1>9, <1>10, <1>11, SessionStep

LEMMA RefreshStep ==
  ASSUME IInv, NEW r \in Request, Refresh(r)
  PROVE  IInv'
<1> DEFINE u == req[r]  s == Ended(u, 201)
<1>1. Session(u) /\ SessionOK(r)
  BY DEF IInv
<1>2. At(r, "committed") /\ Served(r) /\ UNCHANGED jobs
  BY <1>1 DEF Refresh, SessionOK, At
<1>3. Set(r, s)
  BY <1>2 DEF Refresh, Served, Ids
<1>4. /\ Session(s) /\ s.pc = "ended" /\ s.answer = 201 /\ s.op = u.op
      /\ s.job = u.job /\ s.created = u.created /\ s.page = u.page
  BY <1>1, EndedFacts DEF Answer
<1>5. SessionOK(r)'
  <2>1. req'[r] = s
    BY <1>3, SetFacts DEF IInv
  <2>2. Served(r)'
    BY <1>2, <1>4, <2>1 DEF Served
  <2>. QED
    BY <1>1, <1>2, <1>4, <2>1, <2>2 DEF SessionOK, At, Live
<1>. QED
  BY <1>2, <1>3, <1>4, <1>5, SessionStep

LEMMA FailStep ==
  ASSUME IInv, NEW r \in Request, Fail(r)
  PROVE  IInv'
<1> DEFINE u == req[r]  s == Ended(u, 500)
<1>1. Session(u) /\ SessionOK(r)
  BY DEF IInv
<1>2. u.pc \in Live /\ Set(r, s) /\ UNCHANGED jobs
  BY DEF Fail, Live
<1>3. Session(s) /\ s.pc = "ended" /\ s.answer = 500 /\ s.op = u.op
  BY <1>1, EndedFacts DEF Answer
<1>4. SessionOK(r)'
  <2>1. req'[r] = s
    BY <1>2, SetFacts DEF IInv
  <2>. QED
    BY <1>1, <1>2, <1>3, <2>1 DEF SessionOK, Live
<1>. QED
  BY <1>2, <1>3, <1>4, SessionStep

LEMMA GetStep ==
  ASSUME IInv, NEW r \in Request, NEW op \in Ops, Get(r, op)
  PROVE  IInv'
<1>1. At(r, "idle") /\ op.kind # "create" /\ UNCHANGED jobs
  BY DEF Get
<1>2. 404 \in Answer /\ 200 \in Answer
  BY DEF Answer
<1>3. ASSUME NEW u, Session(u), u.op = op, NEW a \in Answer, Set(r, Ended(u, a)) PROVE IInv'
  <2>1. Session(Ended(u, a)) /\ Ended(u, a).pc = "ended" /\ Ended(u, a).op = op
    BY <1>3, EndedFacts
  <2>. QED
    BY <1>1, <1>3, <2>1, Answered
<1>4. CASE Set(r, Ended(Started(op), 404))
  BY <1>2, <1>3, <1>4, StartedFacts
<1>5. CASE \E id \in Ids : Set(r, Ended([Started(op) EXCEPT !.job = id], 200))
  <2>0. PICK id \in Ids : Set(r, Ended([Started(op) EXCEPT !.job = id], 200))
    BY <1>5
  <2>1. id \in Request
    BY DEF IInv, RowsOK, Row, Ids
  <2>2. Session([Started(op) EXCEPT !.job = id]) /\ [Started(op) EXCEPT !.job = id].op = op
    BY <2>1, StartedFacts DEF Session
  <2>. QED
    BY <1>2, <1>3, <2>0, <2>2
<1>6. \/ Set(r, Ended(Started(op), 404))
      \/ \E id \in Ids : Set(r, Ended([Started(op) EXCEPT !.job = id], 200))
  BY DEF Get
<1>. QED
  BY <1>4, <1>5, <1>6

LEMMA ListStep ==
  ASSUME IInv, NEW r \in Request, NEW op \in Ops, List(r, op)
  PROVE  IInv'
<1> DEFINE u == [Started(op) EXCEPT !.page = PageOf(op)]  s == Ended(u, 200)
<1>1. At(r, "idle") /\ op.kind = "list" /\ UNCHANGED jobs /\ Set(r, s)
  BY DEF List
<1>2. Session(u) /\ u.op = op
  <2>1. Len(PageOf(op)) <= IF PageOf(op) = <<>> THEN 0 ELSE op.limit
    BY <1>1, PageFacts DEF IInv, RowsOK
  <2>. QED
    BY <2>1, StartedFacts DEF Session
<1>3. 200 \in Answer
  BY DEF Answer
<1>. HIDE DEF u
<1>4. Session(s) /\ s.pc = "ended" /\ s.op = op
  BY <1>2, <1>3, EndedFacts
<1>. HIDE DEF s
<1>. QED
  BY <1>1, <1>4, Answered

\* The commit adds the row this request inserted: no row has its id or its key.
LEMMA CommitStep ==
  ASSUME IInv, NEW r \in Request, Commit(r)
  PROVE  IInv'
<1> DEFINE u == req[r]  s == [u EXCEPT !.pc = "committed"]  row == NewRow(r)
<1>1. /\ Session(u) /\ SessionOK(r) /\ jobs \subseteq Row /\ IsFiniteSet(jobs)
      /\ u.pc = "inserted" /\ jobs' = jobs \cup {row} /\ Set(r, s)
  BY DEF IInv, RowsOK, Commit, At
<1>2. /\ u.op \in Ops /\ u.op.kind = "create" /\ u.job = r /\ u.created = TRUE /\ u.rank \in Nat
      /\ u.rank > 0 /\ u.page = <<>> /\ (u.op.key # None => OwnerOf(u.op.key) = {})
  BY <1>1 DEF SessionOK, Session, Live
<1>3. /\ req' = [q \in Request |-> req'[q]] /\ req'[r] = s
      /\ \A q \in Request \ {r} : req'[q] = req[q]
  BY <1>1, SetFacts DEF IInv
<1>4. /\ Session(s) /\ s.pc = "committed" /\ s.op = u.op /\ s.job = r /\ s.created = TRUE
      /\ s.rank = u.rank /\ s.page = <<>>
  BY <1>1, <1>2 DEF Session, Live
<1>5. /\ row \in Row /\ row.id = r /\ row.work = u.op.work /\ row.key = u.op.key
  <2>1. u.op.work \in Work /\ u.op.key \in Key \cup {None}
    BY <1>2, OpFacts
  <2>. QED
    BY <1>2, <2>1 DEF NewRow, Row, JobStatus
<1>6. r \notin Ids
  BY <1>1, NoRowYet
<1>. HIDE DEF row, s
<1>7. \A q \in Request : SessionOK(q)'
  <2>1. RowsGrow
    BY <1>1 DEF RowsGrow
  <2>2. ASSUME NEW q \in Request \ {r}, At(q, "inserted"), req[q].op.key # None
        PROVE  OwnerOf(req[q].op.key)' = {}
    <3>1. req[q].op.key # u.op.key
      BY <1>1, <2>2 DEF IInv, PendingOK, At
    <3>2. OwnerOf(req[q].op.key) = {}
      BY <2>2 DEF IInv, SessionOK, At
    <3>3. req'[q] = req[q]
      BY <1>3
    <3>. QED
      BY <1>1, <1>5, <3>1, <3>2, <3>3 DEF OwnerOf
  <2>3. ASSUME NEW q \in Request \ {r} PROVE SessionOK(q)'
    BY <1>3, <2>1, <2>2, <2>3, SessionKept DEF IInv
  <2>4. SessionOK(r)'
    <3>1. Served(r)'
      BY <1>1, <1>3, <1>4, <1>5 DEF Served
    <3>. QED
      BY <1>2, <1>3, <1>4, <3>1 DEF SessionOK, Live
  <2>. QED
    BY <2>3, <2>4
<1>8. \A q \in Request : Session(req'[q])
  BY <1>3, <1>4 DEF IInv
<1>9. RowsOK'
  <2>1. IsFiniteSet(jobs')
    BY <1>1, FS_AddElement
  <2>2. \A j \in jobs : j.id # r /\ (u.op.key # None => j.key # u.op.key)
    BY <1>2, <1>6 DEF Ids, OwnerOf
  <2>3. \A j \in jobs' : req'[j.id].pc \in {"committed", "ended"}
    BY <1>1, <1>3, <1>4, <1>5, <2>2 DEF IInv, RowsOK, Row
  <2>4. \A i, j \in jobs' : i.id = j.id \/ (i.key # None /\ i.key = j.key) => i = j
    BY <1>1, <1>5, <2>2 DEF IInv, RowsOK
  <2>. QED
    BY <1>1, <1>5, <2>1, <2>3, <2>4 DEF RowsOK
<1>10. PendingOK'
  BY <1>3, <1>4 DEF IInv, PendingOK, At
<1>11. Ranked' = Ranked
  BY <1>3, <1>4 DEF Ranked
<1>. QED
  BY <1>3, <1>7, <1>8, <1>9, <1>10, <1>11 DEF IInv

\* A worker changes nothing but the status of a row.
LEMMA ProgressStep ==
  ASSUME IInv, NEW j \in jobs, Progress(j)
  PROVE  IInv'
<1>1. PICK st \in Worked(j.status) : jobs' = (jobs \ {j}) \cup {[j EXCEPT !.status = st]}
  BY DEF Progress
<1>2. req' = req
  BY DEF Progress
<1> DEFINE row == [j EXCEPT !.status = st]
<1>3. j \in Row /\ jobs \subseteq Row /\ IsFiniteSet(jobs)
  BY DEF IInv, RowsOK
<1>4. st \in JobStatus
  BY <1>3 DEF Worked, JobStatus, Row
<1>5. row \in Row /\ row.id = j.id /\ row.work = j.work /\ row.key = j.key
  BY <1>3, <1>4 DEF Row
<1>6. jobs' = (jobs \ {j}) \cup {row}
  BY <1>1
<1>. HIDE DEF row
<1>7. \A q \in Request : SessionOK(q)'
  <2>1. RowsGrow
    BY <1>5, <1>6 DEF RowsGrow
  <2>2. ASSUME NEW q \in Request, OwnerOf(req[q].op.key) = {} PROVE OwnerOf(req[q].op.key)' = {}
    BY <1>2, <1>5, <1>6, <2>2 DEF OwnerOf
  <2>3. ASSUME NEW q \in Request, At(q, "inserted"), req[q].op.key # None
        PROVE  OwnerOf(req[q].op.key) = {}
    BY <2>3 DEF IInv, SessionOK, At
  <2>. QED
    BY <1>2, <2>1, <2>2, <2>3, SessionKept DEF IInv
<1>8. RowsOK'
  <2>1. IsFiniteSet(jobs')
    BY <1>3, <1>6, FS_RemoveElement, FS_AddElement
  <2>. QED
    BY <1>2, <1>3, <1>5, <1>6, <2>1 DEF IInv, RowsOK
<1>. QED
  BY <1>2, <1>7, <1>8 DEF IInv, PendingOK, Ranked, At

-----------------------------------------------------------------------------
(* The theorems                                                            *)

LEMMA Initial == Init => IInv
<1> SUFFICES ASSUME Init PROVE IInv
  OBVIOUS
<1>1. jobs = {} /\ req = [r \in Request |-> Blank]
  BY DEF Init
<1>2. 0 \in Answer
  BY DEF Answer
<1>3. Session(Blank)
  BY <1>2 DEF Session, Blank
<1>4. Ranked = {}
  BY <1>1 DEF Ranked, Blank
<1>. QED
  BY <1>1, <1>3, <1>4, FS_EmptySet DEF IInv, SessionOK, RowsOK, PendingOK, At, Live, Blank

LEMMA Inductive == IInv /\ [Next]_vars => IInv'
<1> SUFFICES ASSUME IInv, [Next]_vars PROVE IInv'
  OBVIOUS
<1>1. ASSUME NEW r \in Request, NEW op \in Ops, Begin(r, op) PROVE IInv'
  BY <1>1, BeginStep
<1>2. ASSUME NEW r \in Request, NEW op \in Ops, Get(r, op) PROVE IInv'
  BY <1>2, GetStep
<1>3. ASSUME NEW r \in Request, NEW op \in Ops, List(r, op) PROVE IInv'
  BY <1>3, ListStep
<1>4. ASSUME NEW r \in Request, Insert(r) PROVE IInv'
  BY <1>4, InsertStep
<1>5. ASSUME NEW r \in Request, ReadExisting(r) PROVE IInv'
  BY <1>5, ReadExistingStep
<1>6. ASSUME NEW r \in Request, Commit(r) PROVE IInv'
  BY <1>6, CommitStep
<1>7. ASSUME NEW r \in Request, Refresh(r) PROVE IInv'
  BY <1>7, RefreshStep
<1>8. ASSUME NEW r \in Request, Fail(r) PROVE IInv'
  BY <1>8, FailStep
<1>9. ASSUME NEW j \in jobs, Progress(j) PROVE IInv'
  BY <1>9, ProgressStep
<1>10. CASE UNCHANGED vars
  BY <1>10 DEF vars, IInv, SessionOK, Served, OwnerOf, RowsOK, PendingOK, Ranked, At
<1>. QED
  BY <1>1, <1>2, <1>3, <1>4, <1>5, <1>6, <1>7, <1>8, <1>9, <1>10 DEF Next

LEMMA Invariance == Spec => []IInv
  BY Initial, Inductive, PTL DEF Spec

\* Every row is of the model class and has an id of its own, every session is in
\* a state of create_job, get_job or get_jobs, and no page exceeds its limit, for
\* any number of requests.
THEOREM TypeCorrect == Spec => []TypeOK
<1>1. IInv => TypeOK
  <2> SUFFICES ASSUME IInv PROVE TypeOK
    OBVIOUS
  <2> DEFINE f == [j \in jobs |-> j.id]
  <2>1. jobs \subseteq Row /\ IsFiniteSet(jobs) /\ \A i, j \in jobs : i.id = j.id => i = j
    BY DEF IInv, RowsOK
  <2>2. f \in Bijection(jobs, Ids)
    BY <2>1 DEF Bijection, Injection, Surjection, IsInjective, Ids
  <2>3. Cardinality(Ids) = Cardinality(jobs)
    BY <2>1, <2>2, FS_Bijection DEF ExistsBijection
  <2>4. \A r \in Request : Session(req[r])
    BY DEF IInv
  <2>. QED
    BY <2>1, <2>3, <2>4 DEF TypeOK, Session, Live, Answer
<1>. QED
  BY <1>1, Invariance, PTL

\* create_or_get_idempotent_job: for any number of submissions that race for a
\* key, whatever fails and whatever the workers do meanwhile, all that are told
\* 201 are given one job that does what each of them asked for, and a 409 means
\* that another submission owns the key.
THEOREM KeysHaveOneJob == Spec => []OneJobPerKey
<1>1. IInv => OneJobPerKey
  <2> SUFFICES ASSUME IInv, NEW r \in Request, Creating(r), req[r].op.key # None
               PROVE  /\ Cardinality(OwnerOf(req[r].op.key)) <= 1
                      /\ req[r].answer = 201 =>
                           /\ \E j \in OwnerOf(req[r].op.key) :
                                j.id = req[r].job /\ j.work = req[r].op.work
                           /\ req[r].created <=> req[r].job = r
                      /\ req[r].answer = 409 =>
                           \E j \in OwnerOf(req[r].op.key) : j.work # req[r].op.work
    BY DEF OneJobPerKey
  <2> DEFINE owner == OwnerOf(req[r].op.key)
  <2>1. SessionOK(r) /\ At(r, "ended") /\ req[r].op.kind = "create"
    BY DEF IInv, Creating
  <2>2. \A i, j \in owner : i = j
    BY DEF IInv, RowsOK, OwnerOf
  <2>3. Cardinality(owner) <= 1
    <3>1. CASE owner = {}
      BY <3>1, FS_EmptySet
    <3>2. CASE owner # {}
      <4>1. PICK j : owner = {j}
        BY <2>2, <3>2
      <4>2. Cardinality({j}) = 1
        BY FS_Singleton
      <4>. QED
        BY <4>1, <4>2
    <3>. QED
      BY <3>1, <3>2
  <2>4. req[r].answer = 201 => Served(r)
    BY <2>1 DEF SessionOK, At
  <2>5. req[r].answer = 409 => \E j \in owner : j.work # req[r].op.work
    BY <2>1 DEF SessionOK, At
  <2>. QED
    BY <2>3, <2>4, <2>5 DEF Served, OwnerOf
<1>. QED
  BY <1>1, Invariance, PTL
=============================================================================
