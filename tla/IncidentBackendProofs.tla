----------------------- MODULE IncidentBackendProofs ------------------------
(***************************************************************************)
(* Theorems about IncidentBackend, for any accounts, incidents, requests   *)
(* and operations.  A session works on copies that may be out of date, so  *)
(* what it knows about the tables must survive the commits of the others:  *)
(* accounts are never deleted and keep their address and password, a row   *)
(* that was written is locked, and a fresh id or address is held by one    *)
(* transaction at a time.                                                  *)
(*                                                                         *)
(* The predicates below take the session and the table as parameters, so   *)
(* that a step that changes neither changes no predicate.                  *)
(***************************************************************************)
EXTENDS IncidentBackend, FiniteSetTheorems, WellFoundedInduction, TLAPS

Answers == {0, 200, 201, 204, 400, 401, 403, 404, 409, 500}
Pc ==
  {"idle", "authorised", "loaded", "written", "reread", "reading", "by_status", "by_severity",
   "ended"}
Summary ==
  [status : [Status -> Nat], severity : [Severity -> Nat], affected : Nat]

Fields ==
  {"pc", "op", "cli", "actor", "target", "seen", "answer", "got", "page", "must", "sum",
   "touched"}
IsSession(s) == s = [f \in Fields |-> s[f]]

\* The shape of a session: only one that ended has an answer.
Shape(s) ==
  /\ IsSession(s)
  /\ s.pc \in Pc /\ s.cli \in BOOLEAN /\ s.actor \in UserRow \cup {NoRow}
  /\ s.target \in Resource \cup {NoRow} /\ s.answer \in Answers /\ s.sum \in Summary
  /\ IsFiniteSet(s.touched)
  /\ s.pc # "ended" => s.answer = 0
  /\ s.pc # "idle" => Operation(s.op)

\* The tables: an address has one account.
TableOK(table) ==
  /\ table \in [Resource -> UserRow \cup IncidentRow \cup {NoRow}]
  /\ \A u \in User : table[u] \in UserRow \cup {NoRow}
  /\ \A i \in Incident : table[i] \in IncidentRow \cup {NoRow}
  /\ IsFiniteSet(Incidents(table))
  /\ \A u, v \in User :
       table[u] # NoRow /\ table[v] # NoRow /\ table[u].email = table[v].email => u = v

NoAccount(table, e) == \A u \in User : table[u] = NoRow \/ table[u].email # e

\* What the command may ask for once the account exists.
Promotion == {[role |-> "admin"], [is_active |-> TRUE]}

\* Which operations a session can be at, and where.
KindOK(s) ==
  /\ s.pc = "authorised" => s.op.kind \notin Public
  /\ s.pc = "loaded" => s.op.kind \in Changing \cup {"delete", "register"}
  /\ s.pc = "written" => s.op.kind \in Changing \cup {"delete", "register", "create"}
  /\ s.pc = "reread" => s.cli /\ s.op.kind \in {"register", "role"}
  /\ s.pc \in {"by_status", "by_severity"} => s.op.kind = "dashboard"
  /\ s.cli /\ s.op.kind \in {"role", "status"} => s.op.want \in Promotion
  /\ s.cli /\ s.pc # "ended" => s.op.kind \in {"register", "role", "status"}

\* The account that authorised the session was there and still is.
Authorised(s) == s.pc \in {"authorised", "loaded", "written"} /\ s.op.kind # "register"
ActorOK(s, table) ==
  Authorised(s) =>
    s.actor \in UserRow /\ s.op.actor \in User /\ table[s.op.actor] # NoRow

\* The row that it works on.
Works(s, K) == s.pc \in {"loaded", "written"} /\ s.op.kind \in K
Wrote(s, K) == s.pc = "written" /\ s.op.kind \in K
TargetOK(s, table) ==
  /\ s.pc = "authorised" => s.target = s.op.target
  /\ Authorised(s) => ~SelfHarm(s.op)
  /\ Works(s, Changing \cup {"delete"}) => s.target = s.op.target
  /\ Works(s, {"role", "status"}) => s.seen \in UserRow /\ table[s.target] # NoRow
  /\ Works(s, {"update"}) => s.seen \in IncidentRow
  /\ Wrote(s, {"update"}) => table[s.target] # NoRow
  /\ Wrote(s, {"create"}) => s.target \in Incident /\ table[s.target] = NoRow
  /\ Wrote(s, {"register"}) =>
       s.target \in User /\ table[s.target] = NoRow /\ NoAccount(table, s.op.want.email)
  /\ s.pc = "reread" => s.target \in User /\ table[s.target] # NoRow
  /\ s.answer = 201 /\ s.op.kind = "register" =>
       /\ s.target \in User /\ table[s.target] # NoRow
       /\ table[s.target].email = s.op.want.email
       /\ table[s.target].password = s.op.want.password
  /\ s.answer = 409 /\ s.op.kind = "register" => ~NoAccount(table, s.op.want.email)

\* What a dashboard has counted: the rows of two earlier tables, which differ
\* from the present one only where it was touched since.
WithStatus(table, v) == {i \in Incidents(table) : table[i].status = v}
WithSeverity(table, v) == {i \in Incidents(table) : table[i].severity = v}
Agrees(T, table, S) == TableOK(T) /\ \A i \in Incident \ S : T[i] = table[i]
StatusOf(sum, T) == sum.status = [v \in Status |-> Cardinality(WithStatus(T, v))]
SeverityOf(sum, T) == sum.severity = [v \in Severity |-> Cardinality(WithSeverity(T, v))]
StatusCounted(sum, table, S) == \E T : StatusOf(sum, T) /\ Agrees(T, table, S)
SeverityCounted(sum, table, S) == \E T : SeverityOf(sum, T) /\ Agrees(T, table, S)
SumOK(s, table) ==
  /\ s.pc \in {"by_status", "by_severity"} => StatusCounted(s.sum, table, s.touched)
  /\ s.pc = "by_severity" => SeverityCounted(s.sum, table, s.touched)
  /\ s.pc = "ended" /\ s.answer = 200 /\ s.op.kind = "dashboard" =>
       Agreeing(s.sum, Cardinality(s.touched))

SessionOK(s, table) ==
  Shape(s) /\ KindOK(s) /\ ActorOK(s, table) /\ TargetOK(s, table) /\ SumOK(s, table)

\* Two sessions: a written row is locked, a pending id or address is held once,
\* an account was registered once.
Apart(s, t) ==
  /\ s.pc = "written" /\ t.pc = "written" /\ s.target = t.target =>
       s.op.kind = "delete" /\ t.op.kind = "delete"
  /\ Wrote(s, {"create", "register"}) /\ Works(t, Changing \cup {"delete"}) => s.target # t.target
  /\ Wrote(s, {"register"}) /\ Wrote(t, {"register"}) => s.op.want.email # t.op.want.email
  /\ s.answer = 201 /\ s.op.kind = "register" /\ t.answer = 201 /\ t.op.kind = "register" =>
       s.target # t.target

\* The audit trail.
EventOK(e) ==
  e \in [req : {e.req}, kind : {e.kind}, resource : Resource, changes : {e.changes},
         actor : {e.actor}, committed : BOOLEAN, role : Role]
TrailOK(log) == \E S : log \in Seq(S) /\ \A e \in S : EventOK(e)

\* The inductive invariant.
IInv ==
  /\ TableOK(rows) /\ TrailOK(audit)
  /\ req = [r \in Request |-> req[r]]
  /\ \A r \in Request : SessionOK(req[r], rows)
  /\ \A q, r \in Request : q # r => Apart(req[q], req[r])

-----------------------------------------------------------------------------
(* The operators of the model                                              *)

LEMMA AnswersFacts ==
  /\ 0 \in Answers /\ 200 \in Answers /\ 201 \in Answers /\ 204 \in Answers /\ 400 \in Answers
  /\ 401 \in Answers /\ 403 \in Answers /\ 404 \in Answers /\ 409 \in Answers /\ 500 \in Answers
  BY DEF Answers

\* Whatever refuses a request is not a success.
Refusals == {400, 401, 403, 404, 409, 500}
LEMMA RefusalsFacts ==
  /\ 400 \in Refusals /\ 401 \in Refusals /\ 403 \in Refusals /\ 404 \in Refusals
  /\ 409 \in Refusals /\ 500 \in Refusals
  /\ \A a \in Refusals : a \in Answers /\ a # 200 /\ a # 201
  /\ 500 # 409
  BY DEF Answers, Refusals

LEMMA SetFacts ==
  ASSUME req = [q \in Request |-> req[q]], NEW r \in Request, NEW s, Set(r, s)
  PROVE  /\ req' = [q \in Request |-> req'[q]]
         /\ req'[r] = s
         /\ \A q \in Request \ {r} : req'[q] = req[q]
  BY DEF Set

\* A session with some of its fields replaced.
LEMMA EndedFields ==
  ASSUME NEW s, IsSession(s), NEW a
  PROVE  LET e == Ended(s, a) IN
         /\ IsSession(e) /\ e.pc = "ended" /\ e.answer = a /\ e.actor = NoRow /\ e.op = s.op
         /\ e.cli = s.cli /\ e.target = s.target /\ e.sum = s.sum /\ e.touched = s.touched
  BY Zenon DEF Ended, IsSession, Fields

LEMMA StartedFields ==
  ASSUME NEW op
  PROVE  LET s == Started(op) IN
         /\ IsSession(s) /\ s.pc = "idle" /\ s.op = op /\ s.cli = FALSE /\ s.actor = NoRow
         /\ s.target = op.target /\ s.answer = 0 /\ s.sum = NoSum /\ s.touched = {}
  BY Zenon DEF Started, Blank, IsSession, Fields

WithActor(s, row) == [s EXCEPT !.actor = row]
LEMMA ActorFields ==
  ASSUME NEW s, IsSession(s), NEW row
  PROVE  LET t == WithActor(s, row) IN
         /\ IsSession(t) /\ t.actor = row /\ t.pc = s.pc /\ t.op = s.op /\ t.cli = s.cli
         /\ t.target = s.target /\ t.answer = s.answer /\ t.sum = s.sum /\ t.touched = s.touched
  BY Zenon DEF WithActor, IsSession, Fields

AtPc(s, pc) == [s EXCEPT !.pc = pc]
LEMMA PcFields ==
  ASSUME NEW s, IsSession(s), NEW pc
  PROVE  LET t == AtPc(s, pc) IN
         /\ IsSession(t) /\ t.pc = pc /\ t.op = s.op /\ t.cli = s.cli /\ t.actor = s.actor
         /\ t.target = s.target /\ t.seen = s.seen /\ t.answer = s.answer /\ t.sum = s.sum
         /\ t.touched = s.touched
  BY Zenon DEF AtPc, IsSession, Fields

LEMMA StartedFacts ==
  ASSUME NEW op, Operation(op)
  PROVE  Shape(Started(op)) /\ Started(op).op = op /\ ~Started(op).cli
<1>1. PICK s : s = Started(op)
  OBVIOUS
<1>2. /\ IsSession(s) /\ s.pc = "idle" /\ s.op = op /\ s.cli = FALSE /\ s.actor = NoRow
      /\ s.target = op.target /\ s.answer = 0 /\ s.sum = NoSum /\ s.touched = {}
  BY <1>1, StartedFields
<1>3. op.target \in Resource \cup {NoRow} /\ NoSum \in Summary
  BY DEF Operation, NoSum, Summary
<1>4. s.cli \in BOOLEAN /\ ~s.cli /\ IsFiniteSet(s.touched)
  BY <1>2, FS_EmptySet
<1>5. s.pc \in Pc /\ s.answer \in Answers
  BY <1>2, AnswersFacts DEF Pc
<1>6. Shape(s)
  BY <1>2, <1>3, <1>4, <1>5 DEF Shape
<1>. QED
  BY <1>1, <1>2, <1>4, <1>6

LEMMA EndedFacts ==
  ASSUME NEW s, Shape(s), Operation(s.op), NEW a \in Answers
  PROVE  LET e == Ended(s, a) IN
         /\ Shape(e) /\ e.pc = "ended" /\ e.answer = a /\ e.op = s.op /\ e.cli = s.cli
         /\ e.target = s.target /\ e.sum = s.sum /\ e.touched = s.touched
<1>1. PICK e : e = Ended(s, a)
  OBVIOUS
<1>2. /\ IsSession(e) /\ e.pc = "ended" /\ e.answer = a /\ e.actor = NoRow /\ e.op = s.op
      /\ e.cli = s.cli /\ e.target = s.target /\ e.sum = s.sum /\ e.touched = s.touched
  BY <1>1, EndedFields DEF Shape
<1>3. Shape(e)
  BY <1>2 DEF Shape, Pc
<1>. QED
  BY <1>1, <1>2, <1>3

-----------------------------------------------------------------------------
(* Steps of one session                                                    *)

\* A step of one session that commits nothing preserves the invariant if the
\* session ends up in order and apart from the others.
LEMMA SessionStep ==
  ASSUME IInv, NEW r \in Request, NEW s, Set(r, s), UNCHANGED rows, TrailOK(audit'),
         SessionOK(s, rows), \A q \in Request \ {r} : Apart(s, req[q]) /\ Apart(req[q], s)
  PROVE  IInv'
<1>1. /\ req' = [q \in Request |-> req'[q]] /\ req'[r] = s
      /\ \A q \in Request \ {r} : req'[q] = req[q]
  BY SetFacts DEF IInv
<1>2. \A q \in Request : SessionOK(req'[q], rows')
  BY <1>1 DEF IInv
<1>3. \A p, q \in Request : p # q => Apart(req'[p], req'[q])
  BY <1>1 DEF IInv
<1>. QED
  BY <1>1, <1>2, <1>3 DEF IInv

\* A session that holds nothing is apart from the others.
LEMMA HoldsNothing ==
  ASSUME NEW s, s.answer # 201,
         s.pc \notin {"loaded", "written"} \/ (s.pc = "loaded" /\ s.op.kind = "register")
  PROVE  \A t : Apart(s, t) /\ Apart(t, s)
  BY DEF Apart, Works, Wrote, Changing

\* Nor does one that loaded a row meet a transaction that inserts a new one.
LEMMA LoadsStored ==
  ASSUME IInv, NEW s, s.pc = "loaded", s.answer # 201, rows[s.target] # NoRow, NEW q \in Request
  PROVE  Apart(s, req[q]) /\ Apart(req[q], s)
<1>1. Wrote(req[q], {"create", "register"}) => rows[req[q].target] = NoRow
  BY DEF IInv, SessionOK, TargetOK, Wrote
<1>. QED
  BY <1>1 DEF Apart, Wrote

LEMMA EndsStep ==
  ASSUME IInv, NEW r \in Request, NEW s, NEW a \in Answers, Set(r, Ended(s, a)),
         UNCHANGED rows, TrailOK(audit'), Shape(s), Operation(s.op), a # 201,
         a = 409 /\ s.op.kind = "register" => ~NoAccount(rows, s.op.want.email),
         s.cli /\ s.op.kind \in {"role", "status"} => s.op.want \in Promotion,
         a = 200 /\ s.op.kind = "dashboard" => Agreeing(s.sum, Cardinality(s.touched))
  PROVE  IInv'
<1>1. PICK e : e = Ended(s, a)
  OBVIOUS
<1>2. /\ Shape(e) /\ e.pc = "ended" /\ e.answer = a /\ e.op = s.op /\ e.cli = s.cli
      /\ e.target = s.target /\ e.sum = s.sum /\ e.touched = s.touched
  BY <1>1, EndedFacts
<1>3. Set(r, e)
  BY <1>1
<1>4. KindOK(e) /\ ActorOK(e, rows) /\ TargetOK(e, rows) /\ SumOK(e, rows)
  BY <1>2 DEF KindOK, ActorOK, Authorised, TargetOK, Works, Wrote, SumOK
<1>5. e.pc \notin {"loaded", "written"} /\ e.answer # 201
  BY <1>2
<1>6. \A t : Apart(e, t) /\ Apart(t, e)
  BY <1>5, HoldsNothing
<1>. QED
  BY <1>2, <1>3, <1>4, <1>6, SessionStep DEF SessionOK

\* A request is refused at once.
LEMMA RefusedStep ==
  ASSUME IInv, NEW r \in Request, NEW s, Shape(s), Operation(s.op), ~s.cli,
         NEW a \in Refusals, Set(r, Ended(s, a)), UNCHANGED <<rows, audit>>,
         a = 409 /\ s.op.kind = "register" => ~NoAccount(rows, s.op.want.email)
  PROVE  IInv'
<1>1. TrailOK(audit') /\ a \in Answers /\ a # 200 /\ a # 201
  BY RefusalsFacts DEF IInv
<1>. QED
  BY <1>1, EndsStep

LEMMA AuthoriseStep ==
  ASSUME IInv, NEW r \in Request, NEW op \in Ops, Authorise(r, op)
  PROVE  IInv'
<1>1. PICK row, b : row = CurrentUser(op) /\ b = Started(op)
  OBVIOUS
<1>2. PICK s, t : s = WithActor(b, row) /\ t = AtPc(s, "authorised")
  OBVIOUS
<1>3. /\ op.kind \notin Public /\ UNCHANGED rows /\ UNCHANGED audit
      /\ \/ Set(r, Ended(s, 401)) \/ Set(r, Ended(s, 403)) \/ Set(r, Ended(s, 400))
         \/ row # NoRow /\ ~SelfHarm(op) /\ Set(r, t)
  BY <1>1, <1>2 DEF Authorise, WithActor, AtPc
<1>4. Operation(op) /\ Shape(b) /\ b.op = op /\ ~b.cli /\ b.target = op.target /\ b.answer = 0
  BY <1>1, BackendAssumption, StartedFacts, StartedFields
<1>5. row \in UserRow \cup {NoRow} /\ (row # NoRow => op.actor \in User /\ rows[op.actor] # NoRow)
  BY <1>1 DEF CurrentUser, IInv, TableOK
<1>6. /\ Shape(s) /\ s.op = op /\ ~s.cli /\ s.actor = row /\ s.target = op.target /\ s.answer = 0
      /\ s.touched = b.touched /\ s.sum = b.sum
  <2>1. /\ IsSession(s) /\ s.actor = row /\ s.pc = b.pc /\ s.op = b.op /\ s.cli = b.cli
        /\ s.target = b.target /\ s.answer = b.answer /\ s.sum = b.sum /\ s.touched = b.touched
    BY <1>2, <1>4, ActorFields DEF Shape
  <2>. QED
    BY <1>4, <1>5, <2>1 DEF Shape
<1>7. /\ Shape(t) /\ t.pc = "authorised" /\ t.op = op /\ ~t.cli /\ t.actor = row
      /\ t.target = op.target /\ t.answer = 0
  <2>1. /\ IsSession(t) /\ t.pc = "authorised" /\ t.op = s.op /\ t.cli = s.cli /\ t.actor = s.actor
        /\ t.target = s.target /\ t.answer = s.answer /\ t.sum = s.sum /\ t.touched = s.touched
    <3>1. IsSession(s)
      BY <1>6 DEF Shape
    <3>. QED
      BY <1>2, <3>1, PcFields
  <2>. QED
    BY <1>4, <1>6, <2>1 DEF Shape, Pc
<1>8. CASE Set(r, Ended(s, 401)) \/ Set(r, Ended(s, 403)) \/ Set(r, Ended(s, 400))
  <2>1. PICK a \in Refusals : Set(r, Ended(s, a))
    BY <1>8, RefusalsFacts
  <2>2. s.op.kind # "register"
    BY <1>3, <1>6 DEF Public
  <2>. QED
    BY <1>3, <1>4, <1>6, <2>1, <2>2, RefusedStep
<1>9. CASE row # NoRow /\ ~SelfHarm(op) /\ Set(r, t)
  <2>1. KindOK(t) /\ ActorOK(t, rows) /\ TargetOK(t, rows) /\ SumOK(t, rows)
    BY <1>3, <1>5, <1>7, <1>9 DEF KindOK, ActorOK, Authorised, TargetOK, Works, Wrote, SumOK
  <2>2. \A x : Apart(t, x) /\ Apart(x, t)
    BY <1>7, HoldsNothing
  <2>3. TrailOK(audit')
    BY <1>3 DEF IInv
  <2>. QED
    BY <1>3, <1>7, <1>9, <2>1, <2>2, <2>3, SessionStep DEF SessionOK
<1>. QED
  BY <1>3, <1>8, <1>9

LEMMA SessionFacts ==
  ASSUME IInv, NEW r \in Request
  PROVE  /\ Shape(req[r]) /\ KindOK(req[r]) /\ ActorOK(req[r], rows) /\ TargetOK(req[r], rows)
         /\ SumOK(req[r], rows) /\ (~At(r, "idle") => Operation(req[r].op))
  BY DEF IInv, SessionOK, Shape, At

\* A request that is under way ends without a commit.
LEMMA AbandonedStep ==
  ASSUME IInv, NEW r \in Request, ~At(r, "idle"), NEW a \in Answers, Set(r, Ended(req[r], a)),
         UNCHANGED rows, TrailOK(audit'), a # 201, a = 200 => req[r].op.kind # "dashboard",
         a = 409 /\ req[r].op.kind = "register" => ~NoAccount(rows, req[r].op.want.email)
  PROVE  IInv'
<1>1. PICK s : s = req[r]
  OBVIOUS
<1>2. /\ Shape(s) /\ Operation(s.op) /\ Set(r, Ended(s, a))
      /\ s.cli /\ s.op.kind \in {"role", "status"} => s.op.want \in Promotion
  BY <1>1, SessionFacts DEF KindOK
<1>. QED
  BY <1>1, <1>2, EndsStep

WithSeen(s, row) == [s EXCEPT !.pc = "loaded", !.seen = row]
LEMMA SeenFields ==
  ASSUME NEW s, IsSession(s), NEW row
  PROVE  LET t == WithSeen(s, row) IN
         /\ IsSession(t) /\ t.pc = "loaded" /\ t.seen = row /\ t.op = s.op /\ t.cli = s.cli
         /\ t.actor = s.actor /\ t.target = s.target /\ t.answer = s.answer /\ t.sum = s.sum
         /\ t.touched = s.touched
  BY Zenon DEF WithSeen, IsSession, Fields

\* What a handler loads is there: the row of the authorising account because
\* accounts are never deleted, any other row because it has just been read.
LEMMA LoadStep ==
  ASSUME IInv, NEW r \in Request, Load(r)
  PROVE  IInv'
<1>1. PICK s : s = req[r]
  OBVIOUS
<1>2. PICK row : row = IF s.target = s.op.actor THEN s.actor ELSE rows[s.target]
  OBVIOUS
<1>3. /\ s.pc = "authorised" /\ s.op.kind \in Changing \cup {"delete", "get"}
      /\ UNCHANGED rows /\ UNCHANGED audit
  BY <1>1 DEF Load, At, Kinds
<1>4. \/ Set(r, Ended(s, 404)) \/ Set(r, Ended(s, 200))
      \/ row # NoRow /\ s.op.kind # "get" /\ Set(r, WithSeen(s, row))
  BY <1>1, <1>2 DEF Load, Kinds, WithSeen
<1>5. TrailOK(audit')
  BY <1>3 DEF IInv
<1>6. /\ Shape(s) /\ Operation(s.op) /\ KindOK(s) /\ ActorOK(s, rows) /\ TargetOK(s, rows)
  BY <1>1, <1>3, SessionFacts DEF At
<1>7. CASE Set(r, Ended(s, 404)) \/ Set(r, Ended(s, 200))
  <2>1. PICK a \in Answers : Set(r, Ended(s, a)) /\ a # 201 /\ a # 409
    BY <1>7, AnswersFacts, RefusalsFacts
  <2>2. s.op.kind # "dashboard" /\ ~At(r, "idle")
    BY <1>1, <1>3 DEF Changing, At
  <2>. QED
    BY <1>1, <1>3, <1>5, <2>1, <2>2, AbandonedStep
<1>8. CASE row # NoRow /\ s.op.kind # "get" /\ Set(r, WithSeen(s, row))
  <2>1. PICK t : t = WithSeen(s, row)
    OBVIOUS
  <2>2. /\ IsSession(t) /\ t.pc = "loaded" /\ t.seen = row /\ t.op = s.op /\ t.cli = s.cli
        /\ t.actor = s.actor /\ t.target = s.target /\ t.answer = s.answer /\ t.sum = s.sum
        /\ t.touched = s.touched
    BY <1>6, <2>1, SeenFields DEF Shape
  <2>3. Shape(t)
    BY <1>3, <1>6, <2>2 DEF Shape, Pc
  <2>4. KindOK(t)
    BY <1>3, <1>6, <1>8, <2>2 DEF KindOK
  <2>5. Authorised(s) /\ s.actor \in UserRow /\ s.op.actor \in User /\ rows[s.op.actor] # NoRow
        /\ s.target = s.op.target /\ ~SelfHarm(s.op)
    BY <1>3, <1>6 DEF Authorised, ActorOK, TargetOK, Changing
  <2>6. /\ rows[s.target] # NoRow
        /\ s.op.kind \in {"role", "status"} => row \in UserRow
        /\ s.op.kind = "update" => row \in IncidentRow
    <3>1. s.op.kind \in {"role", "status", "update", "delete"}
      BY <1>3, <1>8 DEF Changing
    <3>2. CASE s.target = s.op.actor
      BY <1>2, <1>6, <2>5, <3>1, <3>2, BackendAssumption DEF Operation
    <3>3. CASE s.target # s.op.actor
      <4>1. row = rows[s.target] /\ s.target \in Resource
        BY <1>2, <1>6, <2>5, <3>1, <3>3 DEF Operation, Resource
      <4>. QED
        BY <1>6, <1>8, <2>5, <3>1, <4>1 DEF IInv, TableOK, Operation
    <3>. QED
      BY <3>2, <3>3
  <2>7. ActorOK(t, rows)
    BY <2>2, <2>5 DEF ActorOK
  <2>8. TargetOK(t, rows) /\ SumOK(t, rows)
    BY <1>3, <1>6, <2>2, <2>3, <2>5, <2>6 DEF TargetOK, SumOK, Works, Wrote, Changing, Shape
  <2>9. \A q \in Request : Apart(t, req[q]) /\ Apart(req[q], t)
    <3>1. t.answer # 201
      BY <2>2, <2>3 DEF Shape
    <3>. QED
      BY <2>2, <2>6, <3>1, LoadsStored
  <2>. QED
    BY <1>3, <1>5, <1>8, <2>1, <2>3, <2>4, <2>7, <2>8, <2>9, SessionStep DEF SessionOK
<1>. QED
  BY <1>4, <1>7, <1>8

-----------------------------------------------------------------------------
(* Accounts                                                                *)

LEMMA LookUpStep ==
  ASSUME IInv, NEW r \in Request, NEW op \in Ops, LookUp(r, op)
  PROVE  IInv'
<1>1. PICK b, t : b = Started(op) /\ t = AtPc(b, "loaded")
  OBVIOUS
<1>2. /\ op.kind = "register" /\ UNCHANGED rows /\ UNCHANGED audit
      /\ \/ ~NoAccount(rows, op.want.email) /\ Set(r, Ended(b, 409))
         \/ Set(r, t)
  BY <1>1 DEF LookUp, AtPc, WithEmail, NoAccount
<1>3. Operation(op) /\ Shape(b) /\ b.op = op /\ ~b.cli /\ b.answer = 0
  BY <1>1, BackendAssumption, StartedFacts, StartedFields
<1>4. CASE ~NoAccount(rows, op.want.email) /\ Set(r, Ended(b, 409))
  BY <1>2, <1>3, <1>4, RefusalsFacts, RefusedStep
<1>5. CASE Set(r, t)
  <2>1. /\ IsSession(t) /\ t.pc = "loaded" /\ t.op = b.op /\ t.cli = b.cli /\ t.actor = b.actor
        /\ t.target = b.target /\ t.seen = b.seen /\ t.answer = b.answer /\ t.sum = b.sum
        /\ t.touched = b.touched
    BY <1>1, <1>3, PcFields DEF Shape
  <2>2. Shape(t)
    BY <1>3, <2>1 DEF Shape, Pc
  <2>3. KindOK(t) /\ ActorOK(t, rows) /\ TargetOK(t, rows) /\ SumOK(t, rows)
    BY <1>2, <1>3, <2>1
    DEF KindOK, ActorOK, Authorised, TargetOK, Works, Wrote, SumOK, Changing
  <2>4. \A x : Apart(t, x) /\ Apart(x, t)
    BY <1>2, <1>3, <2>1, HoldsNothing
  <2>5. TrailOK(audit')
    BY <1>2 DEF IInv
  <2>. QED
    BY <1>2, <1>5, <2>2, <2>3, <2>4, <2>5, SessionStep DEF SessionOK
<1>. QED
  BY <1>2, <1>4, <1>5

Inserted(s, x) == [s EXCEPT !.pc = "written", !.target = x]
LEMMA InsertedFields ==
  ASSUME NEW s, IsSession(s), NEW x
  PROVE  LET t == Inserted(s, x) IN
         /\ IsSession(t) /\ t.pc = "written" /\ t.target = x /\ t.seen = s.seen /\ t.op = s.op
         /\ t.cli = s.cli /\ t.actor = s.actor /\ t.answer = s.answer /\ t.sum = s.sum
         /\ t.touched = s.touched
  BY Zenon DEF Inserted, IsSession, Fields

\* The account that is inserted has an id nobody else works with, and an
\* address without an account, committed or pending.
LEMMA InsertStep ==
  ASSUME IInv, NEW r \in Request, Insert(r)
  PROVE  IInv'
<1>1. PICK s, e : s = req[r] /\ e = s.op.want.email
  OBVIOUS
<1>2. /\ s.pc = "loaded" /\ s.op.kind = "register" /\ ~InsertPending(r, e)
      /\ UNCHANGED rows /\ UNCHANGED audit
      /\ \/ EmailTaken(e) /\ Set(r, Ended(s, 409))
         \/ ~EmailTaken(e) /\ \E u \in User : /\ rows[u] = NoRow
                                              /\ \A q \in Request : req[q].target # u
                                              /\ Set(r, Inserted(s, u))
  BY <1>1 DEF Insert, At, Kinds, Inserted
<1>3. TrailOK(audit')
  BY <1>2 DEF IInv
<1>4. Shape(s) /\ KindOK(s)
  BY <1>1, SessionFacts
<1>5. CASE EmailTaken(e) /\ Set(r, Ended(s, 409))
  <2>1. ~NoAccount(rows, e)
    BY <1>5 DEF EmailTaken, WithEmail, NoAccount
  <2>. QED
    BY <1>1, <1>2, <1>3, <1>5, <2>1, RefusalsFacts, AbandonedStep DEF At
<1>6. ASSUME ~EmailTaken(e), NEW u \in User, rows[u] = NoRow,
             \A q \in Request : req[q].target # u, Set(r, Inserted(s, u))
      PROVE  IInv'
  <2>1. PICK t : t = Inserted(s, u)
    OBVIOUS
  <2>2. /\ IsSession(t) /\ t.pc = "written" /\ t.target = u /\ t.seen = s.seen /\ t.op = s.op
        /\ t.cli = s.cli /\ t.actor = s.actor /\ t.answer = s.answer /\ t.sum = s.sum
        /\ t.touched = s.touched
    BY <1>4, <2>1, InsertedFields DEF Shape
  <2>3. Shape(t)
    BY <1>2, <1>4, <2>2 DEF Shape, Pc, Resource
  <2>4. NoAccount(rows, e)
    BY <1>6 DEF EmailTaken, WithEmail, NoAccount
  <2>5. t.answer # 201 /\ t.answer # 409
    BY <2>2, <2>3 DEF Shape
  <2>6. KindOK(t) /\ ActorOK(t, rows) /\ TargetOK(t, rows) /\ SumOK(t, rows)
    BY <1>1, <1>2, <1>4, <1>6, <2>2, <2>4, <2>5
    DEF KindOK, ActorOK, Authorised, TargetOK, Works, Wrote, SumOK, Changing
  <2>7. ASSUME NEW q \in Request \ {r} PROVE Apart(t, req[q]) /\ Apart(req[q], t)
    <3>1. Wrote(req[q], {"register"}) => req[q].op.want.email # e
      BY <1>2 DEF InsertPending, Wrote, At, Kinds
    <3>2. req[q].target # t.target /\ t.op.kind = "register" /\ t.op.want.email = e
      BY <1>1, <1>2, <1>6, <2>2
    <3>. QED
      BY <2>5, <3>1, <3>2 DEF Apart, Wrote, Works, Changing
  <2>. QED
    BY <1>2, <1>3, <1>6, <2>1, <2>3, <2>6, <2>7, SessionStep DEF SessionOK
<1>. QED
  BY <1>2, <1>5, <1>6

WithTarget(s, x) == [s EXCEPT !.target = x]
LEMMA TargetFields ==
  ASSUME NEW s, IsSession(s), NEW x
  PROVE  LET t == WithTarget(s, x) IN
         /\ IsSession(t) /\ t.target = x /\ t.pc = s.pc /\ t.op = s.op /\ t.cli = s.cli
         /\ t.actor = s.actor /\ t.answer = s.answer /\ t.sum = s.sum /\ t.touched = s.touched
  BY Zenon DEF WithTarget, IsSession, Fields

LEMMA LogInStep ==
  ASSUME IInv, NEW r \in Request, NEW op \in Ops, LogIn(r, op)
  PROVE  IInv'
<1>1. PICK b, found : b = Started(op) /\ found = Verified(op.want)
  OBVIOUS
<1>2. PICK u : u = CHOOSE v \in found : TRUE
  OBVIOUS
<1>3. /\ op.kind = "login" /\ UNCHANGED rows /\ UNCHANGED audit
      /\ \/ Set(r, Ended(b, 401)) \/ Set(r, Ended(b, 403))
         \/ found # {} /\ Set(r, Ended(WithTarget(b, u), 200))
  BY <1>1, <1>2 DEF LogIn, WithTarget
<1>4. Operation(op) /\ Shape(b) /\ b.op = op /\ ~b.cli
  BY <1>1, BackendAssumption, StartedFacts
<1>5. CASE Set(r, Ended(b, 401)) \/ Set(r, Ended(b, 403))
  <2>1. PICK a \in Refusals : Set(r, Ended(b, a))
    BY <1>5, RefusalsFacts
  <2>2. b.op.kind # "register"
    BY <1>3, <1>4
  <2>. QED
    BY <1>3, <1>4, <2>1, <2>2, RefusedStep
<1>6. CASE found # {} /\ Set(r, Ended(WithTarget(b, u), 200))
  <2>1. PICK s : s = WithTarget(b, u)
    OBVIOUS
  <2>2. /\ IsSession(s) /\ s.target = u /\ s.pc = b.pc /\ s.op = b.op /\ s.cli = b.cli
        /\ s.actor = b.actor /\ s.answer = b.answer /\ s.sum = b.sum /\ s.touched = b.touched
    BY <1>4, <2>1, TargetFields DEF Shape
  <2>3. u \in Resource
    BY <1>1, <1>2, <1>6 DEF Verified, WithEmail, Resource
  <2>4. Shape(s) /\ Operation(s.op) /\ ~s.cli /\ s.op.kind # "dashboard"
    BY <1>3, <1>4, <2>2, <2>3 DEF Shape
  <2>5. TrailOK(audit') /\ Set(r, Ended(s, 200)) /\ 200 \in Answers /\ 200 # 201
    BY <1>3, <1>6, <2>1, AnswersFacts DEF IInv
  <2>. QED
    BY <1>3, <2>4, <2>5, EndsStep
<1>. QED
  BY <1>3, <1>5, <1>6

\* The next change of the command's account, from a fresh copy of its row.
StagedAs(s, row, u, o) ==
  [s EXCEPT !.pc = "loaded", !.seen = row, !.actor = row, !.target = u, !.op = o]
LEMMA StagedFields ==
  ASSUME NEW s, IsSession(s), NEW row, NEW u, NEW o, NEW t, t = StagedAs(s, row, u, o)
  PROVE  /\ IsSession(t) /\ t.pc = "loaded" /\ t.seen = row /\ t.actor = row /\ t.target = u
         /\ t.op = o /\ t.cli = s.cli /\ t.answer = s.answer /\ t.sum = s.sum /\ t.touched = s.touched
  BY Zenon DEF StagedAs, IsSession, Fields

OwnChange(u, kind, want) == [kind |-> kind, actor |-> u, target |-> u, want |-> want]
LEMMA OwnChangeFacts ==
  ASSUME NEW u \in User, NEW kind, NEW want,
         \/ kind = "role" /\ want = [role |-> "admin"]
         \/ kind = "status" /\ want = [is_active |-> TRUE]
  PROVE  LET o == OwnChange(u, kind, want) IN
         /\ Operation(o) /\ ~SelfHarm(o) /\ o.kind \in {"role", "status"} /\ o.actor = u
         /\ o.target = u /\ o.want \in Promotion
<1>1. PICK o : o = OwnChange(u, kind, want)
  OBVIOUS
<1>2. o.kind = kind /\ o.actor = u /\ o.target = u /\ o.want = want
  BY <1>1 DEF OwnChange
<1>3. kind \in {"role", "status"} /\ want \in Promotion
  BY DEF Promotion
<1>4. want \in UserUpdate
  <2>1. CASE want = [role |-> "admin"]
    BY <2>1 DEF UserUpdate, Role
  <2>2. CASE want = [is_active |-> TRUE]
    BY <2>2 DEF UserUpdate
  <2>. QED
    BY <2>1, <2>2
<1>5. o \in [kind : Kind, actor : User \cup {NoRow}, target : Resource \cup {NoRow},
             want : {o.want}]
  BY <1>1, <1>2, <1>3 DEF OwnChange, Kind, Changing, Resource
<1>6. Operation(o)
  BY <1>2, <1>3, <1>4, <1>5 DEF Operation, Public
<1>7. ~SelfHarm(o)
  BY <1>2, <1>3 DEF SelfHarm, Promotion
<1>. QED
  BY <1>1, <1>2, <1>3, <1>6, <1>7

LEMMA StageStep ==
  ASSUME IInv, NEW r \in Request, NEW s, Shape(s), Operation(s.op), s.answer = 0,
         s.op.kind \in {"bootstrap", "register", "role"},
         s.op.kind = "role" => s.op.want \in Promotion,
         NEW u \in User, rows[u] # NoRow, NEW p, Set(r, Stage(s, u, rows[u], p)),
         UNCHANGED <<rows, audit>>
  PROVE  IInv'
<1>1. PICK row : row = rows[u]
  OBVIOUS
<1>2. TrailOK(audit') /\ row \in UserRow
  BY <1>1 DEF IInv, TableOK
<1>3. \/ Set(r, Ended(s, 200))
      \/ Set(r, StagedAs(s, row, u, OwnChange(u, "role", [role |-> "admin"])))
      \/ Set(r, StagedAs(s, row, u, OwnChange(u, "status", [is_active |-> TRUE])))
  BY <1>1 DEF Stage, StagedAs, OwnChange
<1>4. CASE Set(r, Ended(s, 200))
  <2>1. s.op.kind # "dashboard" /\ s.op.kind # "status" /\ 200 \in Answers /\ 200 # 201
    BY AnswersFacts
  <2>. QED
    BY <1>2, <1>4, <2>1, EndsStep
<1>5. ASSUME NEW o, Operation(o), ~SelfHarm(o), o.kind \in {"role", "status"}, o.actor = u,
             o.target = u, o.want \in Promotion, Set(r, StagedAs(s, row, u, o))
      PROVE  IInv'
  <2>1. PICK t : t = StagedAs(s, row, u, o)
    OBVIOUS
  <2>2. /\ IsSession(t) /\ t.pc = "loaded" /\ t.seen = row /\ t.actor = row /\ t.target = u
        /\ t.op = o /\ t.cli = s.cli /\ t.answer = s.answer /\ t.sum = s.sum /\ t.touched = s.touched
    <3>1. IsSession(s)
      BY DEF Shape
    <3>. QED
      BY <2>1, <3>1, StagedFields
  <2>3. Shape(t)
    BY <1>2, <1>5, <2>2 DEF Shape, Pc, Resource
  <2>4. KindOK(t) /\ ActorOK(t, rows) /\ TargetOK(t, rows) /\ SumOK(t, rows)
    BY <1>1, <1>2, <1>5, <2>2
    DEF KindOK, ActorOK, Authorised, TargetOK, Works, Wrote, SumOK, Changing
  <2>5. \A q \in Request : Apart(t, req[q]) /\ Apart(req[q], t)
    BY <2>2, LoadsStored
  <2>. QED
    BY <1>2, <1>5, <2>1, <2>3, <2>4, <2>5, SessionStep DEF SessionOK
<1>6. CASE Set(r, StagedAs(s, row, u, OwnChange(u, "role", [role |-> "admin"])))
  <2>1. PICK o : o = OwnChange(u, "role", [role |-> "admin"])
    OBVIOUS
  <2>2. /\ Operation(o) /\ ~SelfHarm(o) /\ o.kind \in {"role", "status"} /\ o.actor = u
        /\ o.target = u /\ o.want \in Promotion
    BY <2>1, OwnChangeFacts
  <2>. QED
    BY <1>5, <1>6, <2>1, <2>2
<1>7. CASE Set(r, StagedAs(s, row, u, OwnChange(u, "status", [is_active |-> TRUE])))
  <2>1. PICK o : o = OwnChange(u, "status", [is_active |-> TRUE])
    OBVIOUS
  <2>2. /\ Operation(o) /\ ~SelfHarm(o) /\ o.kind \in {"role", "status"} /\ o.actor = u
        /\ o.target = u /\ o.want \in Promotion
    BY <2>1, OwnChangeFacts
  <2>. QED
    BY <1>5, <1>7, <2>1, <2>2
<1>. QED
  BY <1>3, <1>4, <1>6, <1>7

LEMMA NextStageStep ==
  ASSUME IInv, NEW r \in Request, NextStage(r)
  PROVE  IInv'
<1>1. PICK s, u, p : s = req[r] /\ u = req[r].target /\ p = Kinds(r, {"register"})
  OBVIOUS
<1>2. s.pc = "reread" /\ Set(r, Stage(s, u, rows[u], p)) /\ UNCHANGED <<rows, audit>>
  BY <1>1 DEF NextStage, At
<1>3. Shape(s) /\ KindOK(s) /\ TargetOK(s, rows) /\ Operation(s.op)
  BY <1>1, <1>2, SessionFacts DEF At
<1>4. /\ s.cli /\ s.op.kind \in {"register", "role"} /\ u \in User /\ rows[u] # NoRow
      /\ s.answer = 0 /\ (s.op.kind = "role" => s.op.want \in Promotion)
  BY <1>1, <1>2, <1>3 DEF KindOK, TargetOK, Shape
<1>. QED
  BY <1>2, <1>3, <1>4, StageStep

WithCli(s) == [s EXCEPT !.cli = TRUE]
LEMMA CliFields ==
  ASSUME NEW s, IsSession(s)
  PROVE  LET t == WithCli(s) IN
         /\ IsSession(t) /\ t.cli = TRUE /\ t.pc = s.pc /\ t.target = s.target /\ t.op = s.op
         /\ t.actor = s.actor /\ t.answer = s.answer /\ t.sum = s.sum /\ t.touched = s.touched
  BY Zenon DEF WithCli, IsSession, Fields

AsKind(op, kind) == [op EXCEPT !.kind = kind]
Registering(s, o) == [s EXCEPT !.pc = "loaded", !.op = o]
LEMMA RegisteringFields ==
  ASSUME NEW s, IsSession(s), NEW o
  PROVE  LET t == Registering(s, o) IN
         /\ IsSession(t) /\ t.pc = "loaded" /\ t.op = o /\ t.cli = s.cli /\ t.target = s.target
         /\ t.actor = s.actor /\ t.answer = s.answer /\ t.sum = s.sum /\ t.touched = s.touched
  BY Zenon DEF Registering, IsSession, Fields

LEMMA BootstrapStep ==
  ASSUME IInv, NEW r \in Request, NEW op \in Ops, Bootstrap(r, op)
  PROVE  IInv'
<1>1. PICK b, s, o, t : /\ b = Started(op) /\ s = WithCli(b) /\ o = AsKind(op, "register")
                        /\ t = Registering(s, o)
  OBVIOUS
<1>2. PICK found : found = WithEmail(op.want.email)
  OBVIOUS
<1>3. PICK u : u = CHOOSE v \in found : TRUE
  OBVIOUS
<1>4. Operation(op) /\ Shape(b) /\ b.op = op /\ b.answer = 0 /\ b.pc = "idle"
  BY <1>1, BackendAssumption, StartedFacts, StartedFields
<1>5. /\ IsSession(s) /\ s.cli /\ s.pc = "idle" /\ s.target = b.target /\ s.op = op
      /\ s.actor = b.actor /\ s.answer = 0 /\ s.sum = b.sum /\ s.touched = b.touched
  BY <1>1, <1>4, CliFields DEF Shape
<1>6. /\ op.kind = "bootstrap" /\ UNCHANGED <<rows, audit>>
      /\ \/ found # {} /\ Set(r, Stage(s, u, rows[u], TRUE))
         \/ Set(r, t)
  <2>1. [s EXCEPT !.pc = "loaded", !.op.kind = "register"] = t
    BY <1>1, <1>5 DEF Registering, AsKind
  <2>. QED
    BY <1>1, <1>2, <1>3, <2>1 DEF Bootstrap, WithCli
<1>7. Shape(s)
  <2>1. s.cli \in BOOLEAN
    BY <1>5
  <2>. QED
    BY <1>4, <1>5, <2>1 DEF Shape
<1>8. CASE found # {} /\ Set(r, Stage(s, u, rows[u], TRUE))
  <2>1. u \in User /\ rows[u] # NoRow
    BY <1>2, <1>3, <1>8 DEF WithEmail
  <2>2. s.op.kind \in {"bootstrap", "register", "role"} /\ s.op.kind # "role"
    BY <1>5, <1>6
  <2>. QED
    BY <1>4, <1>5, <1>6, <1>7, <1>8, <2>1, <2>2, StageStep
<1>9. CASE Set(r, t)
  <2>1. Operation(o) /\ o.kind = "register"
    <3>1. /\ o \in [kind : Kind, actor : User \cup {NoRow}, target : Resource \cup {NoRow},
                    want : {o.want}]
          /\ o.kind = "register" /\ o.want = op.want
      BY <1>1, <1>4 DEF Operation, AsKind, Kind, Public
    <3>. QED
      BY <1>4, <1>6, <3>1 DEF Operation, Public
  <2>2. /\ IsSession(t) /\ t.pc = "loaded" /\ t.op = o /\ t.cli = s.cli /\ t.target = s.target
        /\ t.actor = s.actor /\ t.answer = s.answer /\ t.sum = s.sum /\ t.touched = s.touched
    <3>1. IsSession(s)
      BY <1>5
    <3>. QED
      BY <1>1, <3>1, RegisteringFields
  <2>3. Shape(t)
    BY <1>5, <1>7, <2>1, <2>2 DEF Shape, Pc
  <2>4. KindOK(t) /\ ActorOK(t, rows) /\ TargetOK(t, rows) /\ SumOK(t, rows)
    BY <1>5, <2>1, <2>2
    DEF KindOK, ActorOK, Authorised, TargetOK, Works, Wrote, SumOK, Changing
  <2>5. \A x : Apart(t, x) /\ Apart(x, t)
    <3>1. t.pc = "loaded" /\ t.op.kind = "register" /\ t.answer # 201
      BY <1>5, <2>1, <2>2
    <3>. QED
      BY <3>1, HoldsNothing
  <2>6. TrailOK(audit')
    BY <1>6 DEF IInv
  <2>. QED
    BY <1>6, <1>9, <2>3, <2>4, <2>5, <2>6, SessionStep DEF SessionOK
<1>. QED
  BY <1>6, <1>8, <1>9

-----------------------------------------------------------------------------
(* The audit trail                                                         *)

LEMMA TrailAppended ==
  ASSUME NEW log, TrailOK(log), NEW e, EventOK(e)
  PROVE  TrailOK(Append(log, e))
<1>1. PICK S : log \in Seq(S) /\ \A x \in S : EventOK(x)
  BY DEF TrailOK
<1>2. Append(log, e) \in Seq(S \cup {e})
  <2>1. log \in Seq(S \cup {e})
    BY <1>1
  <2>. QED
    BY <2>1
<1>. QED
  BY <1>1, <1>2 DEF TrailOK

LEMMA TrailRemoved ==
  ASSUME NEW log, TrailOK(log), NEW n \in DOMAIN log
  PROVE  TrailOK(RemoveAt(log, n))
<1>1. PICK S : log \in Seq(S) /\ \A x \in S : EventOK(x)
  BY DEF TrailOK
<1>2. RemoveAt(log, n) \in Seq(S)
  <2>1. n \in 1 .. Len(log) /\ Len(log) \in Nat
    BY <1>1
  <2>2. SubSeq(log, 1, n - 1) \in Seq(S)
    BY <1>1, <2>1
  <2>3. SubSeq(log, n + 1, Len(log)) \in Seq(S)
    BY <1>1, <2>1
  <2>. QED
    BY <2>2, <2>3 DEF RemoveAt
<1>. QED
  BY <1>1, <1>2 DEF TrailOK

\* The event of an authorised request; an account that changes its own role is
\* recorded with one of the roles.
LEMMA EventFacts ==
  ASSUME IInv, NEW r \in Request, Authorised(req[r]), NEW changes,
         "role" \in DOMAIN changes => changes["role"].to \in Role
  PROVE  /\ req[r].target \in Resource => EventOK(Event(r, changes))
         /\ \A x \in Resource : EventOK([Event(r, changes) EXCEPT !.resource = x])
<1>1. PICK s, e : s = req[r] /\ e = Event(r, changes)
  OBVIOUS
<1>2. PICK role : role = IF s.target = s.op.actor /\ "role" \in DOMAIN changes
                         THEN changes["role"].to ELSE s.actor.role
  OBVIOUS
<1>3. role \in Role
  <2>1. s.actor \in UserRow
    BY <1>1, SessionFacts DEF ActorOK
  <2>. QED
    BY <1>2, <2>1 DEF UserRow
<1>4. e = [req |-> r, kind |-> s.op.kind, resource |-> s.target, changes |-> changes,
           actor |-> s.op.actor, committed |-> FALSE, role |-> role]
  BY <1>1, <1>2 DEF Event
<1>. HIDE <1>2
<1>5. s.target \in Resource => EventOK(e)
  BY <1>3, <1>4 DEF EventOK
<1>6. ASSUME NEW x \in Resource PROVE EventOK([e EXCEPT !.resource = x])
  <2>1. PICK d : d = [e EXCEPT !.resource = x]
    OBVIOUS
  <2>2. d = [req |-> r, kind |-> s.op.kind, resource |-> x, changes |-> changes,
             actor |-> s.op.actor, committed |-> FALSE, role |-> role]
    BY <1>4, <2>1
  <2>3. EventOK(d)
    BY <1>3, <2>2 DEF EventOK
  <2>. QED
    BY <2>1, <2>3
<1>. QED
  BY <1>1, <1>5, <1>6

\* The UPDATE or DELETE got the row lock: no other request has written the row,
\* unless both delete one that is gone.
LEMMA WriteStep ==
  ASSUME IInv, NEW r \in Request, Write(r)
  PROVE  IInv'
<1>1. PICK s, t, ch : /\ s = req[r] /\ t = AtPc(s, "written")
                      /\ ch = IF s.op.kind \in Changing THEN Changes(s.seen, s.op.want)
                              ELSE [deleted |-> [from |-> FALSE, to |-> TRUE]]
  OBVIOUS
<1>2. /\ s.pc = "loaded" /\ s.op.kind \in Changing \cup {"delete"} /\ ~LockedByOther(r, s.target)
      /\ UNCHANGED rows
      /\ \/ Set(r, Ended(s, 500)) /\ UNCHANGED audit
         \/ /\ s.op.kind \in Changing => rows[s.target] # NoRow
            /\ Set(r, t) /\ audit' = Append(audit, Event(r, ch))
  BY <1>1 DEF Write, At, Kinds, AtPc
<1>3. Shape(s) /\ KindOK(s) /\ ActorOK(s, rows) /\ TargetOK(s, rows) /\ Operation(s.op)
  BY <1>1, <1>2, SessionFacts DEF At
<1>4. CASE Set(r, Ended(s, 500)) /\ UNCHANGED audit
  <2>1. TrailOK(audit') /\ 500 \in Answers /\ 500 # 201 /\ 500 # 200
    BY <1>4, RefusalsFacts DEF IInv
  <2>2. ~At(r, "idle")
    BY <1>1, <1>2 DEF At
  <2>. QED
    BY <1>1, <1>2, <1>4, <2>1, <2>2, AbandonedStep
<1>5. CASE /\ s.op.kind \in Changing => rows[s.target] # NoRow
           /\ Set(r, t) /\ audit' = Append(audit, Event(r, ch))
  <2>1. /\ IsSession(t) /\ t.pc = "written" /\ t.op = s.op /\ t.cli = s.cli /\ t.actor = s.actor
        /\ t.target = s.target /\ t.seen = s.seen /\ t.answer = s.answer /\ t.sum = s.sum
        /\ t.touched = s.touched
    <3>1. IsSession(s)
      BY <1>3 DEF Shape
    <3>. QED
      BY <1>1, <3>1, PcFields
  <2>2. Shape(t)
    BY <1>2, <1>3, <2>1 DEF Shape, Pc
  <2>3. Authorised(s) /\ s.target = s.op.target /\ s.target \in Resource
    BY <1>2, <1>3 DEF Authorised, Changing, TargetOK, Works, Operation, Resource
  <2>4. KindOK(t) /\ ActorOK(t, rows) /\ SumOK(t, rows)
    BY <1>2, <1>3, <2>1 DEF KindOK, ActorOK, Authorised, SumOK
  <2>5. TargetOK(t, rows)
    BY <1>2, <1>3, <1>5, <2>1, <2>2
    DEF TargetOK, Authorised, Works, Wrote, Shape, Changing
  <2>6. "role" \in DOMAIN ch => ch["role"].to \in Role
    <3>1. CASE s.op.kind \in Changing
      <4>1. ch = Changes(s.seen, s.op.want)
        BY <1>1, <3>1
      <4>2. "role" \in DOMAIN ch => "role" \in DOMAIN s.op.want /\ ch["role"].to = s.op.want["role"]
        BY <4>1 DEF Changes
      <4>3. "role" \in DOMAIN s.op.want => s.op.want["role"] \in Role
        <5>1. CASE s.op.kind \in {"role", "status"}
          BY <1>3, <5>1 DEF Operation, UserUpdate
        <5>2. CASE s.op.kind = "update"
          BY <1>3, <5>2 DEF Operation, IncidentUpdate, IncidentRow
        <5>. QED
          BY <3>1, <5>1, <5>2 DEF Changing
      <4>. QED
        BY <4>2, <4>3
    <3>2. CASE s.op.kind \notin Changing
      BY <1>1, <3>2
    <3>. QED
      BY <3>1, <3>2
  <2>7. TrailOK(audit')
    BY <1>1, <1>5, <2>3, <2>6, EventFacts, TrailAppended DEF IInv
  <2>8. ASSUME NEW q \in Request \ {r} PROVE Apart(t, req[q]) /\ Apart(req[q], t)
    <3>1. Apart(s, req[q]) /\ Apart(req[q], s)
      BY <1>1 DEF IInv
    <3>2. Works(s, Changing \cup {"delete"}) /\ t.op.kind \notin {"create", "register"}
      BY <1>2, <2>1 DEF Works, Changing
    <3>3. ASSUME req[q].pc = "written", req[q].target = t.target
          PROVE  t.op.kind = "delete" /\ req[q].op.kind = "delete"
      <4>1. rows[s.target] = NoRow
        BY <1>2, <2>1, <3>3 DEF LockedByOther, At
      <4>2. t.op.kind = "delete"
        BY <1>2, <1>5, <2>1, <4>1
      <4>3. req[q].op.kind \notin {"create", "register"}
        BY <2>1, <3>1, <3>2, <3>3 DEF Apart, Wrote
      <4>4. req[q].op.kind \notin Changing
        BY <2>1, <3>3, <4>1, SessionFacts DEF TargetOK, Works, Wrote, Changing
      <4>. QED
        BY <3>3, <4>2, <4>3, <4>4, SessionFacts DEF KindOK
    <3>4. t.answer # 201
      BY <2>1, <2>2 DEF Shape
    <3>. QED
      BY <2>1, <3>1, <3>2, <3>3, <3>4 DEF Apart, Wrote, Works
  <2>. QED
    BY <1>1, <1>2, <1>5, <2>2, <2>4, <2>5, <2>7, <2>8, SessionStep DEF SessionOK
<1>. QED
  BY <1>2, <1>4, <1>5

\* The incident that is inserted has an id nobody else works with.
LEMMA WriteNewStep ==
  ASSUME IInv, NEW r \in Request, WriteNew(r)
  PROVE  IInv'
<1>1. PICK s, ch : s = req[r] /\ ch = AllNew(NewIncident(req[r].op.want))
  OBVIOUS
<1>2. s.pc = "authorised" /\ s.op.kind = "create" /\ UNCHANGED rows
  BY <1>1 DEF WriteNew, At, Kinds
<1>3. PICK i \in Incident : /\ rows[i] = NoRow /\ \A q \in Request : req[q].target # i
                            /\ Set(r, Inserted(s, i))
                            /\ audit' = Append(audit, [Event(r, ch) EXCEPT !.resource = i])
  BY <1>1 DEF WriteNew, Inserted
<1>4. PICK t : t = Inserted(s, i)
  OBVIOUS
<1>5. Shape(s) /\ KindOK(s) /\ ActorOK(s, rows) /\ TargetOK(s, rows) /\ Operation(s.op)
  BY <1>1, <1>2, SessionFacts DEF At
<1>6. /\ IsSession(t) /\ t.pc = "written" /\ t.target = i /\ t.seen = s.seen /\ t.op = s.op
      /\ t.cli = s.cli /\ t.actor = s.actor /\ t.answer = s.answer /\ t.sum = s.sum
      /\ t.touched = s.touched
  <2>1. IsSession(s)
    BY <1>5 DEF Shape
  <2>. QED
    BY <1>4, <2>1, InsertedFields
<1>7. Shape(t)
  BY <1>2, <1>5, <1>6 DEF Shape, Pc, Resource
<1>8. t.answer # 201 /\ t.answer # 409 /\ Authorised(s)
  BY <1>2, <1>6, <1>7 DEF Shape, Authorised
<1>9. KindOK(t) /\ ActorOK(t, rows) /\ TargetOK(t, rows) /\ SumOK(t, rows)
  BY <1>2, <1>3, <1>5, <1>6, <1>8
  DEF KindOK, ActorOK, Authorised, TargetOK, Works, Wrote, SumOK, Changing
<1>10. TrailOK(audit')
  <2>1. "role" \notin DOMAIN ch
    BY <1>1 DEF AllNew, NewIncident
  <2>2. EventOK([Event(r, ch) EXCEPT !.resource = i])
    BY <1>1, <1>8, <2>1, EventFacts DEF Resource
  <2>. QED
    BY <1>3, <2>2, TrailAppended DEF IInv
<1>11. ASSUME NEW q \in Request \ {r} PROVE Apart(t, req[q]) /\ Apart(req[q], t)
  <2>1. req[q].target # t.target /\ t.op.kind = "create"
    BY <1>2, <1>3, <1>6
  <2>. QED
    BY <1>8, <2>1 DEF Apart, Wrote, Works, Changing
<1>. QED
  BY <1>2, <1>3, <1>4, <1>7, <1>9, <1>10, <1>11, SessionStep DEF SessionOK

\* A rollback takes the pending event back.
LEMMA FailStep ==
  ASSUME IInv, NEW r \in Request, Fail(r)
  PROVE  IInv'
<1>1. ~At(r, "idle") /\ Set(r, Ended(req[r], 500)) /\ UNCHANGED rows
  BY DEF Fail, At
<1>2. TrailOK(audit')
  <2>1. CASE Pending(r) = {}
    BY <2>1 DEF Fail, IInv
  <2>2. CASE Pending(r) # {}
    <3>1. PICK n : n = CHOOSE m \in Pending(r) : TRUE
      OBVIOUS
    <3>2. n \in DOMAIN audit
      BY <2>2, <3>1 DEF Pending
    <3>3. audit' = RemoveAt(audit, n)
      BY <2>2, <3>1 DEF Fail
    <3>. QED
      BY <3>2, <3>3, TrailRemoved DEF IInv
  <2>. QED
    BY <2>1, <2>2
<1>3. PICK a \in Refusals \ {409} : Set(r, Ended(req[r], a))
  BY <1>1, RefusalsFacts
<1>4. a \in Answers /\ a # 200 /\ a # 201 /\ a # 409
  BY RefusalsFacts
<1>. QED
  BY <1>1, <1>2, <1>3, <1>4, AbandonedStep

-----------------------------------------------------------------------------
(* Reading                                                                 *)

\* A finite set that falls into four classes.
Classes(S, A, B, C, D) ==
  /\ IsFiniteSet(S) /\ S = A \cup B \cup C \cup D
  /\ A \cap B = {} /\ (A \cup B) \cap C = {} /\ (A \cup B \cup C) \cap D = {}
Total(S, A, B, C, D) ==
  Cardinality(S) = Cardinality(A) + Cardinality(B) + Cardinality(C) + Cardinality(D)
LEMMA FourClasses ==
  ASSUME NEW S, NEW A, NEW B, NEW C, NEW D, Classes(S, A, B, C, D)
  PROVE  /\ IsFiniteSet(A \cup B) /\ Cardinality(A \cup B) = Cardinality(A) + Cardinality(B)
         /\ Total(S, A, B, C, D)
         /\ Cardinality(A) \in Nat /\ Cardinality(B) \in Nat
         /\ Cardinality(C) \in Nat /\ Cardinality(D) \in Nat
<1>1. IsFiniteSet(A) /\ IsFiniteSet(B) /\ IsFiniteSet(C) /\ IsFiniteSet(D)
  <2>1. A \in SUBSET S /\ B \in SUBSET S /\ C \in SUBSET S /\ D \in SUBSET S
    BY DEF Classes
  <2>. QED
    BY <2>1, FS_Subset DEF Classes
<1>2. /\ Cardinality(A) \in Nat /\ Cardinality(B) \in Nat /\ Cardinality(C) \in Nat
      /\ Cardinality(D) \in Nat /\ Cardinality({}) = 0
  BY <1>1, FS_CardinalityType, FS_EmptySet
<1>3. IsFiniteSet(A \cup B) /\ Cardinality(A \cup B) = Cardinality(A) + Cardinality(B)
  <2>1. /\ IsFiniteSet(A \cup B)
        /\ Cardinality(A \cup B) = Cardinality(A) + Cardinality(B) - Cardinality(A \cap B)
    BY <1>1, FS_Union
  <2>2. Cardinality(A \cap B) = 0
    BY <1>2 DEF Classes
  <2>. QED
    BY <1>2, <2>1, <2>2
<1>4. /\ IsFiniteSet((A \cup B) \cup C)
      /\ Cardinality((A \cup B) \cup C) = Cardinality(A) + Cardinality(B) + Cardinality(C)
  <2>1. /\ IsFiniteSet((A \cup B) \cup C)
        /\ Cardinality((A \cup B) \cup C)
             = Cardinality(A \cup B) + Cardinality(C) - Cardinality((A \cup B) \cap C)
    BY <1>1, <1>3, FS_Union
  <2>2. Cardinality((A \cup B) \cap C) = 0
    BY <1>2 DEF Classes
  <2>. QED
    BY <1>2, <1>3, <2>1, <2>2
<1>5. Cardinality(((A \cup B) \cup C) \cup D)
        = Cardinality(A) + Cardinality(B) + Cardinality(C) + Cardinality(D)
  <2>1. Cardinality(((A \cup B) \cup C) \cup D)
          = Cardinality((A \cup B) \cup C) + Cardinality(D)
              - Cardinality(((A \cup B) \cup C) \cap D)
    BY <1>1, <1>4, FS_Union
  <2>2. Cardinality(((A \cup B) \cup C) \cap D) = 0
    BY <1>2 DEF Classes
  <2>. QED
    BY <1>2, <1>4, <2>1, <2>2
<1>6. S = ((A \cup B) \cup C) \cup D
  BY DEF Classes
<1>. QED
  BY <1>2, <1>3, <1>5, <1>6 DEF Total

\* The incidents by status and by severity.
LEMMA TableClasses ==
  ASSUME NEW table, TableOK(table)
  PROVE  /\ Classes(Incidents(table), WithStatus(table, "open"),
                    WithStatus(table, "investigating"), WithStatus(table, "resolved"),
                    WithStatus(table, "closed"))
         /\ Classes(Incidents(table), WithSeverity(table, "low"), WithSeverity(table, "medium"),
                    WithSeverity(table, "high"), WithSeverity(table, "critical"))
<1>1. PICK S : S = Incidents(table)
  OBVIOUS
<1>2. IsFiniteSet(S) /\ \A i \in S : table[i] \in IncidentRow
  BY <1>1 DEF TableOK, Incidents
<1>3. \A i \in S : table[i].status \in Status /\ table[i].severity \in Severity
  BY <1>2 DEF IncidentRow
<1>4. Classes(S, WithStatus(table, "open"), WithStatus(table, "investigating"),
              WithStatus(table, "resolved"), WithStatus(table, "closed"))
  BY <1>1, <1>2, <1>3 DEF Classes, WithStatus, Status
<1>5. Classes(S, WithSeverity(table, "low"), WithSeverity(table, "medium"),
              WithSeverity(table, "high"), WithSeverity(table, "critical"))
  BY <1>1, <1>2, <1>3 DEF Classes, WithSeverity, Severity
<1>. QED
  BY <1>1, <1>4, <1>5

\* A service is affected if one of its incidents is active.
LEMMA AffectedBound ==
  ASSUME NEW table, NEW Y, IsFiniteSet(Y),
         Y = WithStatus(table, "open") \cup WithStatus(table, "investigating")
  PROVE  /\ Cardinality(Affected(table)) \in Nat
         /\ Cardinality(Affected(table)) <= Cardinality(Y)
         /\ Cardinality(Affected(table)) = 0 <=> Cardinality(Y) = 0
<1>1. PICK X : X = Affected(table)
  OBVIOUS
<1>2. X = {table[i].service_name : i \in Y}
  <2>1. Y = {i \in Incidents(table) : table[i].status \in ActiveStatus}
    BY DEF WithStatus, ActiveStatus
  <2>. QED
    BY <1>1, <2>1 DEF Affected
<1>3. PICK f : f = [i \in Y |-> table[i].service_name]
  OBVIOUS
<1>4. f \in Surjection(Y, X)
  BY <1>2, <1>3 DEF Surjection
<1>5. IsFiniteSet(X) /\ Cardinality(X) <= Cardinality(Y)
  BY <1>4, FS_Surjection
<1>6. (Cardinality(X) = 0 <=> X = {}) /\ (Cardinality(Y) = 0 <=> Y = {})
  BY <1>5, FS_EmptySet
<1>7. X = {} <=> Y = {}
  BY <1>2
<1>. QED
  BY <1>1, <1>5, <1>6, <1>7, FS_CardinalityType

\* Sets that differ by few elements only, in one direction.
LEMMA DifferBy ==
  ASSUME NEW X, NEW Y, NEW S, IsFiniteSet(X), IsFiniteSet(Y), IsFiniteSet(S), X \subseteq Y \cup S
  PROVE  Cardinality(X) <= Cardinality(Y) + Cardinality(S)
<1>1. /\ IsFiniteSet(Y \cup S)
      /\ Cardinality(Y \cup S) = Cardinality(Y) + Cardinality(S) - Cardinality(Y \cap S)
  BY FS_Union
<1>2. IsFiniteSet(Y \cap S)
  <2>1. Y \cap S \in SUBSET Y
    OBVIOUS
  <2>. QED
    BY <2>1, FS_Subset
<1>3. Cardinality(X) <= Cardinality(Y \cup S)
  <2>1. X \in SUBSET (Y \cup S)
    OBVIOUS
  <2>. QED
    BY <1>1, <2>1, FS_Subset
<1>4. /\ Cardinality(X) \in Nat /\ Cardinality(Y) \in Nat /\ Cardinality(S) \in Nat
      /\ Cardinality(Y \cap S) \in Nat
  BY <1>2, FS_CardinalityType
<1>. QED
  BY <1>1, <1>3, <1>4

\* The active incidents, and all of them, of a table counted by status.
Active(table) == WithStatus(table, "open") \cup WithStatus(table, "investigating")
LEMMA StatusTotals ==
  ASSUME NEW T, TableOK(T), NEW sum, StatusOf(sum, T)
  PROVE  LET active == sum.status["open"] + sum.status["investigating"] IN
         /\ IsFiniteSet(Active(T)) /\ Cardinality(Active(T)) = active
         /\ Cardinality(Incidents(T)) = active + sum.status["resolved"] + sum.status["closed"]
<1>1. PICK a, b, c, d : /\ a = sum.status["open"] /\ b = sum.status["investigating"]
                        /\ c = sum.status["resolved"] /\ d = sum.status["closed"]
  OBVIOUS
<1>2. /\ a = Cardinality(WithStatus(T, "open")) /\ b = Cardinality(WithStatus(T, "investigating"))
      /\ c = Cardinality(WithStatus(T, "resolved")) /\ d = Cardinality(WithStatus(T, "closed"))
  BY <1>1 DEF Status, StatusOf
<1>3. /\ IsFiniteSet(Active(T))
      /\ Cardinality(Active(T))
           = Cardinality(WithStatus(T, "open")) + Cardinality(WithStatus(T, "investigating"))
  BY TableClasses, FourClasses DEF Active
<1>4. Total(Incidents(T), WithStatus(T, "open"), WithStatus(T, "investigating"),
            WithStatus(T, "resolved"), WithStatus(T, "closed"))
  BY TableClasses, FourClasses
<1>. QED
  BY <1>1, <1>2, <1>3, <1>4 DEF Total

LEMMA SeverityTotals ==
  ASSUME NEW T, TableOK(T), NEW sum, SeverityOf(sum, T)
  PROVE  Cardinality(Incidents(T)) = sum.severity["low"] + sum.severity["medium"]
                                       + sum.severity["high"] + sum.severity["critical"]
<1>1. PICK a, b, c, d : /\ a = sum.severity["low"] /\ b = sum.severity["medium"]
                        /\ c = sum.severity["high"] /\ d = sum.severity["critical"]
  OBVIOUS
<1>2. /\ a = Cardinality(WithSeverity(T, "low")) /\ b = Cardinality(WithSeverity(T, "medium"))
      /\ c = Cardinality(WithSeverity(T, "high")) /\ d = Cardinality(WithSeverity(T, "critical"))
  BY <1>1 DEF Severity, SeverityOf
<1>3. Total(Incidents(T), WithSeverity(T, "low"), WithSeverity(T, "medium"),
            WithSeverity(T, "high"), WithSeverity(T, "critical"))
  BY TableClasses, FourClasses
<1>. QED
  BY <1>1, <1>2, <1>3 DEF Total

\* Counted in three tables that differ in few incidents, the figures do not
\* contradict each other by more.
LEMMA CountsAgree ==
  ASSUME NEW table, TableOK(table), NEW S, IsFiniteSet(S), NEW sum,
         StatusCounted(sum, table, S), SeverityCounted(sum, table, S),
         sum.affected = Cardinality(Affected(table))
  PROVE  Agreeing(sum, Cardinality(S))
<1>1. PICK T : StatusOf(sum, T) /\ Agrees(T, table, S)
  BY DEF StatusCounted
<1>2. PICK U : SeverityOf(sum, U) /\ Agrees(U, table, S)
  BY DEF SeverityCounted
<1>3. TableOK(T) /\ TableOK(U)
  BY <1>1, <1>2 DEF Agrees
<1>4. PICK n, active, all, other, now, affected :
        /\ n = Cardinality(S) /\ active = sum.status["open"] + sum.status["investigating"]
        /\ all = Cardinality(Incidents(T)) /\ other = Cardinality(Incidents(U))
        /\ now = Cardinality(Active(table)) /\ affected = sum.affected
  OBVIOUS
<1>5. /\ IsFiniteSet(Active(T)) /\ Cardinality(Active(T)) = active
      /\ all = active + sum.status["resolved"] + sum.status["closed"]
  BY <1>1, <1>3, <1>4, StatusTotals
<1>6. other = sum.severity["low"] + sum.severity["medium"] + sum.severity["high"]
                + sum.severity["critical"]
  BY <1>2, <1>3, <1>4, SeverityTotals
<1>7. IsFiniteSet(Incidents(T)) /\ IsFiniteSet(Incidents(U)) /\ IsFiniteSet(Active(table))
  BY <1>3, TableClasses, FourClasses DEF TableOK, Active
<1>8. all <= other + n /\ other <= all + n
  <2>1. Incidents(T) \subseteq Incidents(U) \cup S /\ Incidents(U) \subseteq Incidents(T) \cup S
    BY <1>1, <1>2 DEF Agrees, Incidents
  <2>. QED
    BY <1>4, <1>7, <2>1, DifferBy
<1>9. active <= now + n /\ now <= active + n
  <2>1. Active(T) \subseteq Active(table) \cup S /\ Active(table) \subseteq Active(T) \cup S
    BY <1>1 DEF Agrees, Active, WithStatus, Incidents
  <2>. QED
    BY <1>4, <1>5, <1>7, <2>1, DifferBy
<1>10. affected \in Nat /\ affected <= now /\ (affected = 0 <=> now = 0)
  BY <1>4, <1>7, AffectedBound DEF Active
<1>11. n \in Nat /\ now \in Nat /\ active \in Nat
  BY <1>4, <1>5, <1>7, FS_CardinalityType
<1>12. affected <= active + n /\ (affected = 0 => active <= n)
  BY <1>9, <1>10, <1>11
<1>. QED
  BY <1>4, <1>5, <1>6, <1>8, <1>12 DEF Agreeing

LEMMA CountTypes ==
  ASSUME NEW table, TableOK(table)
  PROVE  /\ \A v : Cardinality(WithStatus(table, v)) \in Nat
         /\ \A v : Cardinality(WithSeverity(table, v)) \in Nat
         /\ Cardinality(Affected(table)) \in Nat
<1>1. PICK S : S = Incidents(table) /\ IsFiniteSet(S)
  BY DEF TableOK
<1>2. ASSUME NEW v
      PROVE  /\ Cardinality(WithStatus(table, v)) \in Nat
             /\ Cardinality(WithSeverity(table, v)) \in Nat
  <2>1. WithStatus(table, v) \in SUBSET S /\ WithSeverity(table, v) \in SUBSET S
    BY <1>1 DEF WithStatus, WithSeverity
  <2>. QED
    BY <1>1, <2>1, FS_Subset, FS_CardinalityType
<1>3. Cardinality(Affected(table)) \in Nat
  <2>1. PICK Y : Y = WithStatus(table, "open") \cup WithStatus(table, "investigating")
    OBVIOUS
  <2>2. IsFiniteSet(Y)
    BY <2>1, TableClasses, FourClasses
  <2>. QED
    BY <2>1, <2>2, AffectedBound
<1>. QED
  BY <1>2, <1>3

WithSum(s, pc, sum) == [s EXCEPT !.pc = pc, !.sum = sum]
LEMMA SumFields ==
  ASSUME NEW s, IsSession(s), NEW pc, NEW sum
  PROVE  LET t == WithSum(s, pc, sum) IN
         /\ IsSession(t) /\ t.pc = pc /\ t.sum = sum /\ t.op = s.op /\ t.cli = s.cli
         /\ t.actor = s.actor /\ t.target = s.target /\ t.answer = s.answer /\ t.touched = s.touched
  BY Zenon DEF WithSum, IsSession, Fields

\* A session that only reads, between two statements.
LEMMA ReadingStep ==
  ASSUME IInv, NEW r \in Request, ~At(r, "idle"), ~At(r, "ended"), NEW t, IsSession(t),
         t.pc \in {"by_status", "by_severity", "reading"},
         t.op = req[r].op, t.cli = req[r].cli, t.actor = req[r].actor, t.target = req[r].target,
         t.answer = req[r].answer, t.touched = req[r].touched, t.sum \in Summary, SumOK(t, rows),
         t.pc # "reading" => t.op.kind = "dashboard",
         Set(r, t), UNCHANGED <<rows, audit>>
  PROVE  IInv' /\ Shape(t)
<1>1. PICK s : s = req[r]
  OBVIOUS
<1>2. Shape(s) /\ Operation(s.op) /\ KindOK(s) /\ s.pc # "ended" /\ s.answer = 0
  BY <1>1, SessionFacts DEF At, Shape
<1>3. Shape(t)
  BY <1>1, <1>2 DEF Shape, Pc
<1>4. KindOK(t) /\ ActorOK(t, rows) /\ TargetOK(t, rows)
  BY <1>1, <1>2 DEF KindOK, ActorOK, Authorised, TargetOK, Works, Wrote
<1>5. t.pc \notin {"loaded", "written"} /\ t.answer # 201
  BY <1>1, <1>2
<1>6. \A x : Apart(t, x) /\ Apart(x, t)
  BY <1>5, HoldsNothing
<1>7. TrailOK(audit')
  BY DEF IInv
<1>. QED
  BY <1>3, <1>4, <1>6, <1>7, SessionStep DEF SessionOK

LEMMA CountByStatusStep ==
  ASSUME IInv, NEW r \in Request, CountByStatus(r)
  PROVE  IInv'
<1>1. PICK s, counts : /\ s = req[r]
                       /\ counts = [v \in Status |-> Cardinality(WithStatus(rows, v))]
  OBVIOUS
<1>2. PICK sum : sum = [s.sum EXCEPT !.status = counts]
  OBVIOUS
<1>3. Shape(s) /\ s.sum \in Summary /\ IsSession(s)
  BY <1>1, SessionFacts DEF Shape
<1>4. PICK t : t = WithSum(s, "by_status", sum)
  OBVIOUS
<1>5. /\ s.pc = "authorised" /\ s.op.kind = "dashboard" /\ UNCHANGED <<rows, audit>>
      /\ Set(r, t)
  <2>1. counts = [v \in Status |-> Count("status", v)]
    BY <1>1 DEF Count, WithStatus
  <2>2. [s EXCEPT !.pc = "by_status", !.sum.status = counts] = t
    BY <1>2, <1>3, <1>4 DEF WithSum
  <2>. QED
    BY <1>1, <2>1, <2>2 DEF CountByStatus, At, Kinds
<1>6. counts \in [Status -> Nat]
  BY <1>1, CountTypes DEF IInv
<1>7. sum \in Summary /\ sum.status = counts
  BY <1>2, <1>3, <1>6 DEF Summary
<1>8. /\ IsSession(t) /\ t.pc = "by_status" /\ t.sum = sum /\ t.op = s.op /\ t.cli = s.cli
      /\ t.actor = s.actor /\ t.target = s.target /\ t.answer = s.answer /\ t.touched = s.touched
  BY <1>3, <1>4, SumFields
<1>9. SumOK(t, rows)
  <2>1. StatusOf(sum, rows) /\ Agrees(rows, rows, t.touched)
    BY <1>1, <1>7 DEF StatusOf, Agrees, IInv
  <2>. QED
    BY <1>8, <2>1 DEF SumOK, StatusCounted
<1>10. ~At(r, "idle") /\ ~At(r, "ended")
  BY <1>1, <1>5 DEF At
<1>. QED
  BY <1>1, <1>5, <1>7, <1>8, <1>9, <1>10, ReadingStep

LEMMA CountBySeverityStep ==
  ASSUME IInv, NEW r \in Request, CountBySeverity(r)
  PROVE  IInv'
<1>1. PICK s, counts : /\ s = req[r]
                       /\ counts = [v \in Severity |-> Cardinality(WithSeverity(rows, v))]
  OBVIOUS
<1>2. PICK sum : sum = [s.sum EXCEPT !.severity = counts]
  OBVIOUS
<1>3. Shape(s) /\ KindOK(s) /\ SumOK(s, rows) /\ s.sum \in Summary /\ IsSession(s)
  BY <1>1, SessionFacts DEF Shape
<1>4. PICK t : t = WithSum(s, "by_severity", sum)
  OBVIOUS
<1>5. s.pc = "by_status" /\ UNCHANGED <<rows, audit>> /\ Set(r, t)
  <2>1. counts = [v \in Severity |-> Count("severity", v)]
    BY <1>1 DEF Count, WithSeverity
  <2>2. [s EXCEPT !.pc = "by_severity", !.sum.severity = counts] = t
    BY <1>2, <1>3, <1>4 DEF WithSum
  <2>. QED
    BY <1>1, <2>1, <2>2 DEF CountBySeverity, At
<1>6. counts \in [Severity -> Nat]
  BY <1>1, CountTypes DEF IInv
<1>7. sum \in Summary /\ sum.severity = counts /\ sum.status = s.sum.status
  BY <1>2, <1>3, <1>6 DEF Summary
<1>8. /\ IsSession(t) /\ t.pc = "by_severity" /\ t.sum = sum /\ t.op = s.op /\ t.cli = s.cli
      /\ t.actor = s.actor /\ t.target = s.target /\ t.answer = s.answer /\ t.touched = s.touched
  BY <1>3, <1>4, SumFields
<1>9. SumOK(t, rows)
  <2>1. PICK T : StatusOf(s.sum, T) /\ Agrees(T, rows, s.touched)
    BY <1>3, <1>5 DEF SumOK, StatusCounted
  <2>2. StatusOf(sum, T)
    BY <1>7, <2>1 DEF StatusOf
  <2>3. SeverityOf(sum, rows) /\ Agrees(rows, rows, t.touched)
    BY <1>1, <1>7 DEF SeverityOf, Agrees, IInv
  <2>. QED
    BY <1>8, <2>1, <2>2, <2>3 DEF SumOK, StatusCounted, SeverityCounted
<1>10. ~At(r, "idle") /\ ~At(r, "ended") /\ t.op.kind = "dashboard"
  BY <1>1, <1>3, <1>5, <1>8 DEF At, KindOK
<1>. QED
  BY <1>1, <1>5, <1>7, <1>8, <1>9, <1>10, ReadingStep

LEMMA CountAffectedStep ==
  ASSUME IInv, NEW r \in Request, CountAffected(r)
  PROVE  IInv'
<1>1. PICK s, n : s = req[r] /\ n = Cardinality(Affected(rows))
  OBVIOUS
<1>2. PICK sum : sum = [s.sum EXCEPT !.affected = n]
  OBVIOUS
<1>3. /\ Shape(s) /\ KindOK(s) /\ SumOK(s, rows) /\ s.sum \in Summary /\ IsSession(s)
      /\ (~At(r, "idle") => Operation(s.op))
  BY <1>1, SessionFacts DEF Shape
<1>4. PICK t : t = WithSum(s, "by_severity", sum)
  OBVIOUS
<1>5. s.pc = "by_severity" /\ UNCHANGED rows /\ UNCHANGED audit /\ Set(r, Ended(t, 200))
  <2>1. s.pc = "by_severity"
    BY <1>1 DEF CountAffected, At
  <2>2. [s EXCEPT !.sum.affected = n] = t
    BY <1>2, <1>3, <1>4, <2>1 DEF WithSum, IsSession, Fields
  <2>. QED
    BY <1>1, <2>1, <2>2 DEF CountAffected
<1>6. n \in Nat
  BY <1>1, CountTypes DEF IInv
<1>7. /\ sum \in Summary /\ sum.affected = n /\ sum.status = s.sum.status
      /\ sum.severity = s.sum.severity
  BY <1>2, <1>3, <1>6 DEF Summary
<1>8. /\ IsSession(t) /\ t.pc = "by_severity" /\ t.sum = sum /\ t.op = s.op /\ t.cli = s.cli
      /\ t.actor = s.actor /\ t.target = s.target /\ t.answer = s.answer /\ t.touched = s.touched
  BY <1>3, <1>4, SumFields
<1>9. Shape(t) /\ Operation(t.op) /\ t.op.kind = "dashboard"
  BY <1>1, <1>3, <1>5, <1>7, <1>8 DEF Shape, Pc, At, KindOK
<1>10. Agreeing(t.sum, Cardinality(t.touched))
  <2>1. TableOK(rows) /\ IsFiniteSet(t.touched)
    BY <1>9 DEF IInv, Shape
  <2>2. StatusCounted(sum, rows, t.touched) /\ SeverityCounted(sum, rows, t.touched)
    <3>1. PICK T, U : /\ StatusOf(s.sum, T) /\ Agrees(T, rows, s.touched)
                      /\ SeverityOf(s.sum, U) /\ Agrees(U, rows, s.touched)
      BY <1>3, <1>5 DEF SumOK, StatusCounted, SeverityCounted
    <3>2. StatusOf(sum, T) /\ SeverityOf(sum, U)
      BY <1>7, <3>1 DEF StatusOf, SeverityOf
    <3>. QED
      BY <1>8, <3>1, <3>2 DEF StatusCounted, SeverityCounted
  <2>3. Agreeing(sum, Cardinality(t.touched))
    BY <1>1, <1>7, <2>1, <2>2, CountsAgree
  <2>. QED
    BY <1>8, <2>3
<1>11. TrailOK(audit') /\ 200 \in Answers /\ 200 # 201
  BY <1>5, AnswersFacts DEF IInv
<1>. QED
  BY <1>5, <1>9, <1>10, <1>11, EndsStep

Paged(s, page, must, got) ==
  [s EXCEPT !.pc = "reading", !.page = page, !.must = must, !.got = got]
LEMMA PagedFields ==
  ASSUME NEW s, IsSession(s), NEW page, NEW must, NEW got
  PROVE  LET t == Paged(s, page, must, got) IN
         /\ IsSession(t) /\ t.pc = "reading" /\ t.sum = s.sum /\ t.op = s.op /\ t.cli = s.cli
         /\ t.actor = s.actor /\ t.target = s.target /\ t.answer = s.answer /\ t.touched = s.touched
  BY Zenon DEF Paged, IsSession, Fields

LEMMA ReadPageStep ==
  ASSUME IInv, NEW r \in Request, ReadPage(r)
  PROVE  IInv'
<1>1. PICK s : s = req[r]
  OBVIOUS
<1>2. PICK items : items = Page(s.op, s.page)
  OBVIOUS
<1>3. PICK page, must, got :
        /\ page = s.page + 1
        /\ must = IF At(r, "authorised") THEN Visible(s.op, rows, audit) ELSE s.must
        /\ got = s.got \cup items
  OBVIOUS
<1>4. PICK t : t = Paged(s, page, must, got)
  OBVIOUS
<1>5. Shape(s) /\ KindOK(s) /\ IsSession(s) /\ (~At(r, "idle") => Operation(s.op))
  BY <1>1, SessionFacts DEF Shape
<1>6. /\ At(r, "authorised") \/ At(r, "reading")
      /\ s.op.kind \in Listing /\ UNCHANGED <<rows, audit>>
      /\ Set(r, t) \/ Set(r, Ended(t, 200))
  <2>1. [s EXCEPT !.pc = "reading", !.page = @ + 1,
                  !.must = IF At(r, "authorised") THEN Visible(s.op, rows, audit) ELSE @,
                  !.got = @ \cup items] = t
    BY <1>3, <1>4, <1>5, Zenon DEF Paged, IsSession, Fields
  <2>. QED
    BY <1>1, <1>2, <2>1 DEF ReadPage, Kinds
<1>7. /\ IsSession(t) /\ t.pc = "reading" /\ t.sum = s.sum /\ t.op = s.op /\ t.cli = s.cli
      /\ t.actor = s.actor /\ t.target = s.target /\ t.answer = s.answer /\ t.touched = s.touched
  BY <1>4, <1>5, PagedFields
<1>8. ~At(r, "idle") /\ ~At(r, "ended") /\ Operation(s.op) /\ s.pc # "ended"
  BY <1>1, <1>5, <1>6 DEF At
<1>9. SumOK(t, rows) /\ t.sum \in Summary
  BY <1>5, <1>7 DEF SumOK, Shape
<1>10. CASE Set(r, t)
  <2>1. t.pc \in {"by_status", "by_severity", "reading"} /\ (t.pc # "reading" => t.op.kind = "dashboard")
    BY <1>7
  <2>. QED
    BY <1>1, <1>6, <1>7, <1>8, <1>9, <1>10, <2>1, ReadingStep
<1>11. CASE Set(r, Ended(t, 200))
  <2>1. Shape(t) /\ Operation(t.op)
    BY <1>5, <1>7, <1>8, <1>9 DEF Shape, Pc
  <2>2. t.op.kind # "dashboard" /\ t.op.kind \notin {"role", "status"}
    BY <1>6, <1>7 DEF Listing
  <2>3. TrailOK(audit') /\ 200 \in Answers /\ 200 # 201 /\ UNCHANGED rows
    BY <1>6, AnswersFacts DEF IInv
  <2>. QED
    BY <1>11, <2>1, <2>2, <2>3, EndsStep
<1>. QED
  BY <1>6, <1>10, <1>11

-----------------------------------------------------------------------------
(* The commit                                                              *)

LEMMA TrailCommitted ==
  ASSUME NEW log, TrailOK(log), NEW r, NEW m,
         m = [n \in DOMAIN log |->
                IF log[n].req = r THEN [log[n] EXCEPT !.committed = TRUE] ELSE log[n]]
  PROVE  TrailOK(m)
<1>1. PICK S : log \in Seq(S) /\ \A x \in S : EventOK(x)
  BY DEF TrailOK
<1>2. PICK T : T = S \cup {[x EXCEPT !.committed = TRUE] : x \in S}
  OBVIOUS
<1>3. m \in Seq(T)
  <2>1. DOMAIN log = 1 .. Len(log) /\ Len(log) \in Nat /\ \A n \in 1 .. Len(log) : log[n] \in S
    BY <1>1
  <2>2. \A n \in 1 .. Len(log) :
          (IF log[n].req = r THEN [log[n] EXCEPT !.committed = TRUE] ELSE log[n]) \in T
    BY <1>2, <2>1
  <2>3. m \in [1 .. Len(log) -> T]
    BY <2>1, <2>2
  <2>. QED
    BY <2>1, <2>3 DEF Seq
<1>4. ASSUME NEW x \in S PROVE EventOK([x EXCEPT !.committed = TRUE])
  <2>1. PICK y : y = [x EXCEPT !.committed = TRUE]
    OBVIOUS
  <2>2. x \in [req : {x.req}, kind : {x.kind}, resource : Resource, changes : {x.changes},
               actor : {x.actor}, committed : BOOLEAN, role : Role]
    BY <1>1 DEF EventOK
  <2>3. /\ y.req = x.req /\ y.kind = x.kind /\ y.changes = x.changes /\ y.actor = x.actor
        /\ y \in [req : {x.req}, kind : {x.kind}, resource : Resource, changes : {x.changes},
                  actor : {x.actor}, committed : BOOLEAN, role : Role]
    BY <2>1, <2>2
  <2>4. EventOK(y)
    BY <2>3 DEF EventOK
  <2>. QED
    BY <2>1, <2>4
<1>5. ASSUME NEW y \in T PROVE EventOK(y)
  <2>1. CASE y \in S
    BY <1>1, <2>1
  <2>2. CASE y \notin S
    <3>1. PICK x \in S : y = [x EXCEPT !.committed = TRUE]
      BY <1>2, <2>2
    <3>. QED
      BY <1>4, <3>1
  <2>. QED
    BY <2>1, <2>2
<1>. QED
  BY <1>3, <1>5 DEF TrailOK

\* The row that a request stores at x: a change of an account keeps its address
\* and password, a registration has a fresh id and address.
Stores(s, table, x, w) ==
  \/ /\ x \in User /\ w \in UserRow /\ table[x] \in UserRow /\ s.op.kind \in {"role", "status"}
     /\ w.email = table[x].email /\ w.password = table[x].password
  \/ /\ x \in User /\ w \in UserRow /\ table[x] = NoRow /\ s.op.kind = "register"
     /\ w.email = s.op.want.email /\ w.password = s.op.want.password
     /\ NoAccount(table, w.email)
  \/ /\ x \in Incident /\ w \in IncidentRow \cup {NoRow}
     /\ s.op.kind \in {"update", "delete", "create"}

\* The UPDATE of an account.
LEMMA UserUpdated ==
  ASSUME NEW row \in UserRow, NEW seen, NEW want \in UserUpdate, NEW w, w = Applied(row, seen, want)
  PROVE  w \in UserRow /\ w.email = row.email /\ w.password = row.password
<1>1. PICK D : D = DOMAIN Changes(seen, want)
  OBVIOUS
<1>2. D \subseteq DOMAIN want
  BY <1>1 DEF Changes
<1>3. /\ DOMAIN row = {"email", "password", "role", "is_active"}
      /\ row.email \in Email /\ row.password \in Password /\ row.role \in Role
      /\ row.is_active \in BOOLEAN
  BY DEF UserRow
<1>4. w = [f \in {"email", "password", "role", "is_active"} |->
             IF f \in D THEN want[f] ELSE row[f]]
  BY <1>1, <1>3 DEF Applied
<1>5. \/ DOMAIN want = {"role"} /\ want["role"] \in Role
      \/ DOMAIN want = {"is_active"} /\ want["is_active"] \in BOOLEAN
  BY DEF UserUpdate
<1>6. w.email = row.email /\ w.password = row.password
  BY <1>2, <1>4, <1>5
<1>7. w.role \in Role
  BY <1>2, <1>3, <1>4, <1>5
<1>8. w.is_active \in BOOLEAN
  BY <1>2, <1>3, <1>4, <1>5
<1>9. w \in UserRow
  BY <1>3, <1>4, <1>6, <1>7, <1>8 DEF UserRow
<1>. QED
  BY <1>6, <1>9

\* The UPDATE of an incident.
LEMMA IncidentUpdated ==
  ASSUME NEW row \in IncidentRow, NEW seen, NEW want, IncidentUpdate(want)
  PROVE  Applied(row, seen, want) \in IncidentRow
<1>1. PICK D, w : D = DOMAIN Changes(seen, want) /\ w = Applied(row, seen, want)
  OBVIOUS
<1>2. PICK full \in IncidentRow : /\ DOMAIN want \subseteq DOMAIN full
                                  /\ \A f \in DOMAIN want : want[f] = full[f]
  BY DEF IncidentUpdate
<1>3. D \subseteq DOMAIN want
  BY <1>1 DEF Changes
<1>4. DOMAIN row = {"service_name", "severity", "status"}
  BY DEF IncidentRow
<1>5. w = [f \in {"service_name", "severity", "status"} |-> IF f \in D THEN full[f] ELSE row[f]]
  BY <1>1, <1>2, <1>3, <1>4 DEF Applied
<1>6. /\ w.service_name \in {full.service_name, row.service_name}
      /\ w.severity \in {full.severity, row.severity} /\ w.status \in {full.status, row.status}
  BY <1>5
<1>7. w \in IncidentRow
  BY <1>2, <1>5, <1>6 DEF IncidentRow
<1>. QED
  BY <1>1, <1>7

LEMMA WrittenFacts ==
  ASSUME IInv, NEW r \in Request, At(r, "written")
  PROVE  Stores(req[r], rows, req[r].target, WrittenRow(r))
<1>1. PICK s, x, w : s = req[r] /\ x = req[r].target /\ w = WrittenRow(r)
  OBVIOUS
<1>2. /\ Shape(s) /\ KindOK(s) /\ TargetOK(s, rows) /\ Operation(s.op) /\ s.pc = "written"
  BY <1>1, SessionFacts DEF At
<1>3. s.op.kind \in {"role", "status", "update", "delete", "create", "register"}
  BY <1>2 DEF KindOK, Changing
<1>4. CASE s.op.kind \in {"role", "status"}
  <2>1. w = Applied(rows[x], s.seen, s.op.want)
    BY <1>1, <1>4 DEF WrittenRow, Kinds, Changing
  <2>2. x \in User /\ rows[x] # NoRow /\ s.op.want \in UserUpdate
    BY <1>1, <1>2, <1>4 DEF TargetOK, Works, Operation, Changing
  <2>3. rows[x] \in UserRow
    BY <2>2 DEF IInv, TableOK
  <2>4. w \in UserRow /\ w.email = rows[x].email /\ w.password = rows[x].password
    BY <2>1, <2>2, <2>3, UserUpdated
  <2>. QED
    BY <1>1, <1>4, <2>2, <2>3, <2>4 DEF Stores
<1>5. CASE s.op.kind = "update"
  <2>1. w = Applied(rows[x], s.seen, s.op.want)
    BY <1>1, <1>5 DEF WrittenRow, Kinds, Changing
  <2>2. x \in Incident /\ rows[x] # NoRow /\ IncidentUpdate(s.op.want)
    BY <1>1, <1>2, <1>5 DEF TargetOK, Works, Wrote, Operation, Changing
  <2>3. rows[x] \in IncidentRow
    BY <2>2 DEF IInv, TableOK
  <2>. QED
    BY <1>1, <1>5, <2>1, <2>2, <2>3, IncidentUpdated DEF Stores
<1>6. CASE s.op.kind = "delete"
  <2>1. w = NoRow
    BY <1>1, <1>6 DEF WrittenRow, Kinds, Changing, Deleted
  <2>2. x \in Incident
    BY <1>1, <1>2, <1>6 DEF TargetOK, Works, Operation
  <2>. QED
    BY <1>1, <1>6, <2>1, <2>2 DEF Stores
<1>7. CASE s.op.kind = "create"
  <2>1. w = NewIncident(s.op.want)
    BY <1>1, <1>7 DEF WrittenRow, Kinds, Changing
  <2>2. x \in Incident /\ s.op.want \in IncidentCreate
    BY <1>1, <1>2, <1>7 DEF TargetOK, Wrote, Operation
  <2>3. w \in IncidentRow
    BY <2>1, <2>2 DEF NewIncident, IncidentCreate, IncidentRow, Status
  <2>. QED
    BY <1>1, <1>7, <2>2, <2>3 DEF Stores
<1>8. CASE s.op.kind = "register"
  <2>1. w = NewUser(s.op.want)
    BY <1>1, <1>8 DEF WrittenRow, Kinds, Changing
  <2>2. /\ x \in User /\ rows[x] = NoRow /\ NoAccount(rows, s.op.want.email)
        /\ s.op.want \in UserCreate
    BY <1>1, <1>2, <1>8 DEF TargetOK, Wrote, Operation, Public
  <2>3. w \in UserRow /\ w.email = s.op.want.email /\ w.password = s.op.want.password
    BY <2>1, <2>2 DEF NewUser, UserCreate, UserRow, Role
  <2>. QED
    BY <1>1, <1>8, <2>2, <2>3 DEF Stores
<1>. QED
  BY <1>3, <1>4, <1>5, <1>6, <1>7, <1>8

\* The table after a commit, and what stays: accounts keep their address and
\* password, and other rows stay as they were.
Keeps(old, table, x) ==
  /\ \A y \in Resource \ {x} : table[y] = old[y]
  /\ \A u \in User : old[u] # NoRow =>
       /\ table[u] # NoRow /\ table[u].email = old[u].email
       /\ table[u].password = old[u].password

Stored(old, x, w) == [old EXCEPT ![x] = w]
LEMMA TableStored ==
  ASSUME NEW s, NEW old, TableOK(old), NEW x, NEW w, Stores(s, old, x, w),
         NEW table, table = Stored(old, x, w)
  PROVE  TableOK(table) /\ Keeps(old, table, x) /\ table[x] = w
<1>1. x \in Resource /\ User \cap Incident = {} /\ NoRow \notin UserRow
  BY BackendAssumption DEF Stores, Resource
<1>2. /\ table \in [Resource -> UserRow \cup IncidentRow \cup {NoRow}] /\ table[x] = w
      /\ \A y \in Resource \ {x} : table[y] = old[y]
  BY <1>1 DEF TableOK, Stores, Stored
<1>3. Keeps(old, table, x)
  BY <1>1, <1>2 DEF Keeps, Stores, Resource
<1>4. \A u \in User : table[u] \in UserRow \cup {NoRow}
  BY <1>1, <1>2 DEF TableOK, Stores, Resource
<1>5. \A i \in Incident : table[i] \in IncidentRow \cup {NoRow}
  BY <1>1, <1>2 DEF TableOK, Stores, Resource
<1>6. IsFiniteSet(Incidents(table))
  <2>1. IsFiniteSet(Incidents(old) \cup {x})
    BY FS_AddElement DEF TableOK
  <2>2. Incidents(table) \in SUBSET (Incidents(old) \cup {x})
    BY <1>2 DEF Incidents, Resource
  <2>. QED
    BY <2>1, <2>2, FS_Subset
<1>7. ASSUME NEW u \in User, NEW v \in User, table[u] # NoRow, table[v] # NoRow,
             table[u].email = table[v].email
      PROVE  u = v
  <2>1. CASE old[u] # NoRow /\ old[v] # NoRow
    BY <1>3, <1>7, <2>1 DEF TableOK, Keeps
  <2>2. CASE old[u] = NoRow \/ old[v] = NoRow
    <3>1. /\ x \in User /\ old[x] = NoRow /\ NoAccount(old, w.email)
          /\ (u = x \/ old[u] # NoRow) /\ (v = x \/ old[v] # NoRow)
      BY <1>1, <1>2, <1>7, <2>2 DEF Stores, Resource
    <3>2. \A y \in User : old[y] # NoRow => table[y].email # w.email
      BY <1>3, <3>1 DEF NoAccount, Keeps
    <3>. QED
      BY <1>2, <1>7, <2>2, <3>1, <3>2
  <2>. QED
    BY <2>1, <2>2
<1>. QED
  BY <1>2, <1>3, <1>4, <1>5, <1>6, <1>7 DEF TableOK

NoticedAs(s, must, touched) == [s EXCEPT !.must = must, !.touched = touched]
LEMMA NoticedFields ==
  ASSUME NEW s, IsSession(s), NEW must, NEW touched
  PROVE  LET t == NoticedAs(s, must, touched) IN
         /\ IsSession(t) /\ t.touched = touched /\ t.pc = s.pc /\ t.op = s.op /\ t.cli = s.cli
         /\ t.actor = s.actor /\ t.target = s.target /\ t.seen = s.seen /\ t.answer = s.answer
         /\ t.sum = s.sum
  BY Zenon DEF NoticedAs, IsSession, Fields

\* What another session holds of the tables survives a commit.
LEMMA NoticedFacts ==
  ASSUME IInv, NEW r \in Request, At(r, "written"), NEW q \in Request \ {r}, NEW table,
         TableOK(table), Keeps(rows, table, req[r].target),
         Stores(req[r], rows, req[r].target, table[req[r].target])
  PROVE  /\ SessionOK(Noticed(req[q], table), table)
         /\ Noticed(req[q], table).pc = req[q].pc /\ Noticed(req[q], table).op = req[q].op
         /\ Noticed(req[q], table).target = req[q].target
         /\ Noticed(req[q], table).answer = req[q].answer
<1>1. PICK s, x, w, p : /\ s = req[r] /\ x = req[r].target /\ w = table[req[r].target]
                        /\ p = req[q]
  OBVIOUS
<1>2. PICK changed, touched :
        /\ changed = {i \in Incident : rows[i] # table[i]}
        /\ touched = IF p.pc \in {"by_status", "by_severity"} THEN p.touched \cup changed
                     ELSE p.touched
  OBVIOUS
<1>3. PICK must : must = IF p.pc = "reading"
                            /\ ~(Visible(p.op, rows, audit) \subseteq Visible(p.op, table, audit))
                         THEN {} ELSE p.must
  OBVIOUS
<1>4. PICK t : t = NoticedAs(p, must, touched)
  OBVIOUS
<1>5. /\ Shape(p) /\ KindOK(p) /\ ActorOK(p, rows) /\ TargetOK(p, rows) /\ SumOK(p, rows)
      /\ IsSession(p) /\ (p.pc # "idle" => Operation(p.op))
  BY <1>1, SessionFacts DEF At, Shape
<1>6. t = Noticed(p, table)
  BY <1>2, <1>3, <1>4, Zenon DEF Noticed, NoticedAs
<1>7. /\ IsSession(t) /\ t.touched = touched /\ t.pc = p.pc /\ t.op = p.op /\ t.cli = p.cli
      /\ t.actor = p.actor /\ t.target = p.target /\ t.seen = p.seen /\ t.answer = p.answer
      /\ t.sum = p.sum
  BY <1>4, <1>5, NoticedFields
<1>8. /\ Apart(s, p) /\ Apart(p, s) /\ s.pc = "written" /\ Keeps(rows, table, x)
      /\ Stores(s, rows, x, w)
  BY <1>1 DEF IInv, At
<1>9. Shape(t) /\ KindOK(t)
  <2>1. changed \subseteq {x}
    BY <1>2, <1>8 DEF Keeps, Resource
  <2>2. IsFiniteSet(touched)
    <3>1. changed \in SUBSET {x} /\ IsFiniteSet({x}) /\ IsFiniteSet(p.touched)
      BY <1>5, <2>1, FS_Singleton DEF Shape
    <3>2. IsFiniteSet(changed)
      BY <3>1, FS_Subset
    <3>3. IsFiniteSet(p.touched \cup changed)
      BY <3>1, <3>2, FS_Union
    <3>. QED
      BY <1>2, <3>1, <3>3
  <2>. QED
    BY <1>5, <1>7, <2>2 DEF Shape, KindOK
<1>10. ActorOK(t, table)
  BY <1>5, <1>7, <1>8 DEF ActorOK, Authorised, Keeps
<1>11. TargetOK(t, table)
  <2>1. p.pc = "written" /\ p.op.kind # "delete" => p.target # x
    BY <1>1, <1>8 DEF Apart
  <2>2. Wrote(p, {"update", "create", "register"}) =>
          /\ p.target # x /\ (p.target \in Resource => table[p.target] = rows[p.target])
    BY <1>8, <2>1 DEF Wrote, Keeps
  <2>3. Works(p, {"role", "status"}) => p.target \in User /\ table[p.target] # NoRow
    BY <1>5, <1>8 DEF Works, TargetOK, Keeps, Operation, Changing, Shape
  <2>4. Wrote(p, {"update"}) => table[p.target] # NoRow
    <3>1. Wrote(p, {"update"}) => p.target \in Incident
      BY <1>5 DEF Wrote, Works, TargetOK, Operation, Changing
    <3>. QED
      BY <1>5, <2>2, <3>1 DEF Wrote, TargetOK, Resource
  <2>5. Wrote(p, {"create"}) => p.target \in Incident /\ table[p.target] = NoRow
    BY <1>5, <2>2 DEF Wrote, TargetOK, Resource
  <2>6. Wrote(p, {"register"}) =>
          /\ p.target \in User /\ table[p.target] = NoRow
          /\ NoAccount(table, p.op.want.email)
    <3>1. Wrote(p, {"register"}) => p.target \in User /\ table[p.target] = NoRow
      BY <1>5, <2>2 DEF Wrote, TargetOK, Resource
    <3>2. ASSUME Wrote(p, {"register"}), NEW u \in User, table[u] # NoRow
          PROVE  table[u].email # p.op.want.email
      <4>1. rows[u] # NoRow => rows[u].email # p.op.want.email /\ table[u].email = rows[u].email
        BY <1>5, <1>8, <3>2 DEF TargetOK, NoAccount, Keeps
      <4>2. CASE rows[u] = NoRow
        <5>1. u = x
          BY <1>8, <3>2, <4>2 DEF Keeps, Resource
        <5>2. s.op.kind = "register" /\ w.email = s.op.want.email
          BY <1>8, <4>2, <5>1, BackendAssumption DEF Stores
        <5>. QED
          BY <1>1, <1>8, <3>2, <5>1, <5>2 DEF Apart, Wrote
      <4>. QED
        BY <4>1, <4>2
    <3>. QED
      BY <3>1, <3>2 DEF NoAccount
  <2>7. p.pc = "reread" => p.target \in User /\ table[p.target] # NoRow
    BY <1>5, <1>8 DEF TargetOK, Keeps
  <2>8. p.answer = 201 /\ p.op.kind = "register" =>
          /\ p.target \in User /\ table[p.target] # NoRow
          /\ table[p.target].email = p.op.want.email
          /\ table[p.target].password = p.op.want.password
    BY <1>5, <1>8 DEF TargetOK, Keeps
  <2>9. /\ p.pc = "authorised" => p.target = p.op.target
        /\ Authorised(p) => ~SelfHarm(p.op)
        /\ Works(p, Changing \cup {"delete"}) => p.target = p.op.target
        /\ Works(p, {"role", "status"}) => p.seen \in UserRow
        /\ Works(p, {"update"}) => p.seen \in IncidentRow
    BY <1>5 DEF TargetOK
  <2>10. /\ Authorised(t) <=> Authorised(p)
         /\ \A K : (Works(t, K) <=> Works(p, K)) /\ (Wrote(t, K) <=> Wrote(p, K))
    BY <1>7 DEF Authorised, Works, Wrote
  <2>11. p.answer = 409 /\ p.op.kind = "register" => ~NoAccount(table, p.op.want.email)
    BY <1>5, <1>8 DEF TargetOK, Keeps, NoAccount
  <2>. QED
    BY <1>7, <2>3, <2>4, <2>5, <2>6, <2>7, <2>8, <2>9, <2>10, <2>11 DEF TargetOK
<1>12. SumOK(t, table)
  <2>1. ASSUME p.pc \in {"by_status", "by_severity"}, NEW T, Agrees(T, rows, p.touched)
        PROVE  Agrees(T, table, t.touched)
    BY <1>2, <1>7, <2>1 DEF Agrees
  <2>2. p.pc \in {"by_status", "by_severity"} => StatusCounted(t.sum, table, t.touched)
    BY <1>5, <1>7, <2>1 DEF SumOK, StatusCounted
  <2>3. p.pc = "by_severity" => SeverityCounted(t.sum, table, t.touched)
    BY <1>5, <1>7, <2>1 DEF SumOK, SeverityCounted
  <2>. QED
    BY <1>2, <1>5, <1>7, <2>2, <2>3 DEF SumOK
<1>. QED
  BY <1>1, <1>6, <1>7, <1>9, <1>10, <1>11, <1>12 DEF SessionOK

\* The session that committed.
DoneAfter(s) ==
  IF s.cli /\ s.op.kind # "status" THEN AtPc(s, "reread") ELSE Ended(s, Success(s.op.kind))

LEMMA DoneFacts ==
  ASSUME IInv, NEW r \in Request, At(r, "written"), NEW table,
         Stores(req[r], rows, req[r].target, table[req[r].target])
  PROVE  /\ SessionOK(DoneAfter(req[r]), table)
         /\ DoneAfter(req[r]).pc \in {"reread", "ended"}
         /\ DoneAfter(req[r]).op = req[r].op /\ DoneAfter(req[r]).target = req[r].target
<1>1. PICK s, x, w : s = req[r] /\ x = req[r].target /\ w = table[x]
  OBVIOUS
<1>2. /\ Shape(s) /\ KindOK(s) /\ TargetOK(s, rows) /\ Operation(s.op) /\ s.pc = "written"
      /\ IsSession(s) /\ s.target = x
  BY <1>1, SessionFacts DEF At, Shape
<1>3. Stores(s, rows, x, w)
  BY <1>1
<1>4. CASE s.cli /\ s.op.kind # "status"
  <2>1. PICK t : t = AtPc(s, "reread")
    OBVIOUS
  <2>2. /\ IsSession(t) /\ t.pc = "reread" /\ t.op = s.op /\ t.cli = s.cli /\ t.actor = s.actor
        /\ t.target = s.target /\ t.seen = s.seen /\ t.answer = s.answer /\ t.sum = s.sum
        /\ t.touched = s.touched
    BY <1>2, <2>1, PcFields
  <2>3. s.op.kind \in {"register", "role"} /\ x \in User /\ w # NoRow
    BY <1>2, <1>3, <1>4, BackendAssumption DEF KindOK, Stores
  <2>4. Shape(t) /\ t.answer # 201 /\ t.answer # 409
    BY <1>2, <2>2 DEF Shape, Pc
  <2>5. KindOK(t) /\ ActorOK(t, table) /\ TargetOK(t, table) /\ SumOK(t, table)
    BY <1>1, <1>2, <1>4, <2>2, <2>3, <2>4
    DEF KindOK, ActorOK, Authorised, TargetOK, Works, Wrote, SumOK
  <2>. QED
    BY <1>1, <1>2, <1>4, <2>1, <2>2, <2>4, <2>5 DEF SessionOK, DoneAfter
<1>5. CASE ~(s.cli /\ s.op.kind # "status")
  <2>1. PICK a : a = Success(s.op.kind)
    OBVIOUS
  <2>2. s.op.kind \in {"role", "status", "update", "delete", "create", "register"}
    BY <1>2 DEF KindOK, Changing
  <2>3. a \in Answers /\ a # 409 /\ (a = 201 => s.op.kind \in {"create", "register"})
    BY <2>1, <2>2, AnswersFacts DEF Success, Changing
  <2>4. PICK t : t = Ended(s, a)
    OBVIOUS
  <2>5. /\ Shape(t) /\ t.pc = "ended" /\ t.answer = a /\ t.op = s.op /\ t.cli = s.cli
        /\ t.target = s.target /\ t.sum = s.sum /\ t.touched = s.touched
    BY <1>2, <2>3, <2>4, EndedFacts
  <2>6. s.op.kind = "register" =>
          /\ x \in User /\ w # NoRow
          /\ w.email = s.op.want.email /\ w.password = s.op.want.password
    BY <1>3, BackendAssumption DEF Stores
  <2>7. KindOK(t) /\ ActorOK(t, table) /\ TargetOK(t, table) /\ SumOK(t, table)
    BY <1>1, <1>2, <2>2, <2>3, <2>5, <2>6
    DEF KindOK, ActorOK, Authorised, TargetOK, Works, Wrote, SumOK
  <2>. QED
    BY <1>1, <1>2, <1>5, <2>1, <2>4, <2>5, <2>7 DEF SessionOK, DoneAfter
<1>. QED
  BY <1>4, <1>5

LEMMA CommitFacts ==
  ASSUME IInv, NEW r \in Request, Commit(r)
  PROVE  /\ At(r, "written") /\ TableOK(rows') /\ Keeps(rows, rows', req[r].target)
         /\ rows'[req[r].target] = WrittenRow(r)
         /\ Stores(req[r], rows, req[r].target, rows'[req[r].target])
         /\ req' = [q \in Request |-> IF q = r THEN DoneAfter(req[r]) ELSE Noticed(req[q], rows')]
<1>1. PICK x, w, table : /\ x = req[r].target /\ w = WrittenRow(r)
                         /\ table = [rows EXCEPT ![req[r].target] = WrittenRow(r)]
  OBVIOUS
<1>2. At(r, "written") /\ rows' = table
  BY <1>1 DEF Commit
<1>3. Stores(req[r], rows, x, w) /\ TableOK(rows)
  BY <1>1, <1>2, WrittenFacts DEF IInv
<1>4. TableOK(table) /\ Keeps(rows, table, x) /\ table[x] = w
  <2>1. PICK old, s : old = rows /\ s = req[r]
    OBVIOUS
  <2>2. TableOK(old) /\ Stores(s, old, x, w) /\ table = Stored(old, x, w)
    BY <1>1, <1>3, <2>1 DEF Stored
  <2>3. TableOK(table) /\ Keeps(old, table, x) /\ table[x] = w
    BY <2>2, TableStored
  <2>. QED
    BY <2>1, <2>3
<1>5. req' = [q \in Request |-> IF q = r THEN DoneAfter(req[r]) ELSE Noticed(req[q], table)]
  BY <1>1 DEF Commit, DoneAfter, AtPc, Kinds
<1>. QED
  BY <1>1, <1>2, <1>3, <1>4, <1>5

LEMMA CommitStep ==
  ASSUME IInv, NEW r \in Request, Commit(r)
  PROVE  IInv'
<1>1. PICK x, table : x = req[r].target /\ table = rows'
  OBVIOUS
<1>2. /\ At(r, "written") /\ TableOK(table) /\ Keeps(rows, table, x)
      /\ Stores(req[r], rows, x, table[x])
      /\ req' = [q \in Request |-> IF q = r THEN DoneAfter(req[r]) ELSE Noticed(req[q], table)]
  BY <1>1, CommitFacts
<1>3. req' = [q \in Request |-> req'[q]]
  BY <1>2
<1>4. /\ SessionOK(DoneAfter(req[r]), table) /\ DoneAfter(req[r]).pc \in {"reread", "ended"}
      /\ req'[r] = DoneAfter(req[r]) /\ req'[r].op = req[r].op /\ req'[r].target = x
  BY <1>1, <1>2, DoneFacts
<1>5. \A q \in Request \ {r} :
        /\ SessionOK(req'[q], table) /\ req'[q].pc = req[q].pc /\ req'[q].op = req[q].op
        /\ req'[q].target = req[q].target /\ req'[q].answer = req[q].answer
  BY <1>1, <1>2, NoticedFacts
<1>6. \A q \in Request : SessionOK(req'[q], rows')
  BY <1>1, <1>4, <1>5
<1>7. ASSUME NEW p \in Request, NEW q \in Request, p # q
      PROVE  Apart(req'[p], req'[q])
  <2>1. CASE p = r \/ q = r
    <3>1. req'[r].pc \notin {"loaded", "written"}
      BY <1>4
    <3>2. req[r].op.kind = "register" => rows[x] = NoRow
      BY <1>1, <1>2, SessionFacts DEF TargetOK, Wrote, At
    <3>3. \A y \in Request : req[y].answer = 201 /\ req[y].op.kind = "register" =>
            rows[req[y].target] # NoRow
      BY SessionFacts DEF TargetOK
    <3>. QED
      BY <1>4, <1>5, <1>7, <2>1, <3>1, <3>2, <3>3 DEF Apart, Wrote, Works
  <2>2. CASE p # r /\ q # r
    <3>1. Apart(req[p], req[q])
      BY <1>7 DEF IInv
    <3>. QED
      BY <1>5, <2>2, <3>1 DEF Apart, Wrote, Works
  <2>. QED
    BY <2>1, <2>2
<1>8. TrailOK(audit')
  <2>1. audit' = [n \in DOMAIN audit |->
                    IF audit[n].req = r THEN [audit[n] EXCEPT !.committed = TRUE] ELSE audit[n]]
    BY DEF Commit
  <2>2. TrailOK(audit)
    BY DEF IInv
  <2>. QED
    BY <2>1, <2>2, TrailCommitted
<1>. QED
  BY <1>1, <1>2, <1>3, <1>6, <1>7, <1>8 DEF IInv

-----------------------------------------------------------------------------
(* The invariant                                                           *)

LEMMA Initial == Init => IInv
<1>. SUFFICES ASSUME Init PROVE IInv
  OBVIOUS
<1>1. TableOK(rows)
  BY BackendAssumption DEF Init, TableOK, Incidents
<1>2. TrailOK(audit)
  <2>1. audit \in Seq({})
    BY DEF Init
  <2>. QED
    BY <2>1 DEF TrailOK
<1>3. PICK s : s = Blank
  OBVIOUS
<1>4. /\ IsSession(s) /\ s.pc = "idle" /\ s.cli = FALSE /\ s.actor = NoRow /\ s.target = NoRow
      /\ s.answer = 0 /\ s.sum = NoSum /\ s.touched = {}
  BY <1>3, Zenon DEF Blank, IsSession, Fields
<1>5. s.cli \in BOOLEAN /\ ~s.cli /\ IsFiniteSet(s.touched)
  BY <1>4, FS_EmptySet
<1>6. Shape(s)
  BY <1>4, <1>5, AnswersFacts DEF Shape, Pc, NoSum, Summary
<1>7. KindOK(s) /\ ActorOK(s, rows) /\ TargetOK(s, rows) /\ SumOK(s, rows)
  BY <1>4, <1>5 DEF KindOK, ActorOK, Authorised, TargetOK, Works, Wrote, SumOK
<1>8. req = [r \in Request |-> s]
  BY <1>3 DEF Init
<1>9. \A q, r \in Request : Apart(req[q], req[r])
  BY <1>4, <1>8 DEF Apart, Wrote
<1>. QED
  BY <1>1, <1>2, <1>6, <1>7, <1>8, <1>9 DEF IInv, SessionOK

LEMMA Unchanged == IInv /\ UNCHANGED vars => IInv'
  BY DEF IInv, vars

LEMMA Inductive == IInv /\ [Next]_vars => IInv'
<1>. SUFFICES ASSUME IInv, Next PROVE IInv'
  BY Unchanged
<1>1. PICK r \in Request :
        \/ \E op \in Ops : Authorise(r, op) \/ LookUp(r, op) \/ LogIn(r, op) \/ Bootstrap(r, op)
        \/ Load(r) \/ Write(r) \/ WriteNew(r) \/ Insert(r) \/ NextStage(r)
        \/ CountByStatus(r) \/ CountBySeverity(r) \/ CountAffected(r) \/ ReadPage(r)
        \/ Commit(r) \/ Fail(r)
  BY DEF Next
<1>2. CASE \E op \in Ops :
             Authorise(r, op) \/ LookUp(r, op) \/ LogIn(r, op) \/ Bootstrap(r, op)
  BY <1>2, AuthoriseStep, LookUpStep, LogInStep, BootstrapStep
<1>3. CASE Load(r) \/ Write(r) \/ WriteNew(r) \/ Insert(r) \/ NextStage(r)
  BY <1>3, LoadStep, WriteStep, WriteNewStep, InsertStep, NextStageStep
<1>4. CASE CountByStatus(r) \/ CountBySeverity(r) \/ CountAffected(r) \/ ReadPage(r)
  BY <1>4, CountByStatusStep, CountBySeverityStep, CountAffectedStep, ReadPageStep
<1>5. CASE Commit(r) \/ Fail(r)
  BY <1>5, CommitStep, FailStep
<1>. QED
  BY <1>1, <1>2, <1>3, <1>4, <1>5

LEMMA Invariance == Spec => []IInv
<1>. QED
  BY Initial, Inductive, PTL DEF Spec

-----------------------------------------------------------------------------
(* The audit trail                                                         *)
(*                                                                         *)
(* An event is pending as long as its transaction has written and not      *)
(* committed.  Its row is locked meanwhile, so a pending change is the     *)
(* last event about its row, whatever the order of the commits.            *)

\* The definitions of the model for any log and table, and the latest of the
\* events that set a field.
AboutIn(log, x) == {n \in DOMAIN log : log[n].resource = x /\ log[n].committed}
SettingIn(log, x, f) == {n \in AboutIn(log, x) : f \in DOMAIN log[n].changes}
LatestIn(log, x, f) ==
  {n \in SettingIn(log, x, f) : \A m \in SettingIn(log, x, f) : m <= n}
RegisteredIn(table, x) ==
  IF Rows0[x] = NoRow /\ x \in User /\ table[x] # NoRow
  THEN [table[x] EXCEPT !.role = "viewer", !.is_active = TRUE] ELSE Rows0[x]

\* The log tells the row of x.
Told(table, log, x) ==
  /\ \A n \in AboutIn(log, x) :
       /\ log[n].kind = "delete" => table[x] = NoRow
       /\ table[x] = NoRow => \E m \in AboutIn(log, x) : log[m].kind = "delete"
  /\ AboutIn(log, x) = {} => table[x] = RegisteredIn(table, x)
  /\ table[x] # NoRow => \A f \in DOMAIN table[x] :
       /\ \A n \in LatestIn(log, x, f) : table[x][f] = log[n].changes[f].to
       /\ SettingIn(log, x, f) = {} => table[x][f] = RegisteredIn(table, x)[f]

\* A session that has no event yet; the events of the others.
Silent(s) == s.pc \in {"idle", "authorised"} \/ s.op.kind = "register"
Wanted(s, e) ==
  /\ e.kind = s.op.kind
  /\ e.kind \in Changing => e.changes = Changes(s.seen, s.op.want)
  /\ e.kind = "create" => e.changes = AllNew(NewIncident(s.op.want))
OwnerOK(sessions, e) ==
  /\ e.req \in Request /\ ~Silent(sessions[e.req]) /\ sessions[e.req].target = e.resource
  /\ ~e.committed => sessions[e.req].pc = "written" /\ Wanted(sessions[e.req], e)

\* Two events: a transaction has one at most that is pending, which is the last
\* one about the row it changes and the only one about the row it creates.
OrderOK(log, m, n) ==
  /\ ~log[m].committed /\ ~log[n].committed /\ log[m].req = log[n].req => m = n
  /\ ~log[n].committed /\ log[m].resource = log[n].resource =>
       /\ log[n].kind \in Changing => m <= n
       /\ log[n].kind = "create" => m = n

\* A transaction that has written has its event, a registration has none.
RecordOK(log, s, r) ==
  s.pc = "written" =>
    IF s.op.kind = "register" THEN \A n \in DOMAIN log : log[n].resource # s.target
    ELSE \E n \in DOMAIN log : log[n].req = r /\ ~log[n].committed

LogOK(log, sessions) ==
  /\ \A n \in DOMAIN log : OwnerOK(sessions, log[n])
  /\ \A m, n \in DOMAIN log : OrderOK(log, m, n)
  /\ \A r \in Request : RecordOK(log, sessions[r], r)

AuditInv == LogOK(audit, req) /\ \A x \in Resource : Told(rows, audit, x)

LEMMA Indices ==
  ASSUME NEW log, TrailOK(log)
  PROVE  Len(log) \in Nat /\ DOMAIN log = 1 .. Len(log) /\ DOMAIN log \subseteq Nat
<1>1. PICK S : log \in Seq(S)
  BY DEF TrailOK
<1>. QED
  BY <1>1

\* A log with the same committed events about a row tells the same.
LEMMA ToldSame ==
  ASSUME NEW table, NEW log, NEW x, Told(table, log, x), NEW table2, NEW log2,
         table2[x] = table[x], AboutIn(log2, x) = AboutIn(log, x),
         \A n \in AboutIn(log, x) : log2[n].kind = log[n].kind /\ log2[n].changes = log[n].changes
  PROVE  Told(table2, log2, x)
<1>1. \A f : SettingIn(log2, x, f) = SettingIn(log, x, f)
  BY DEF SettingIn
<1>2. \A f : LatestIn(log2, x, f) = LatestIn(log, x, f) /\ LatestIn(log, x, f) \subseteq AboutIn(log, x)
  BY <1>1 DEF LatestIn, SettingIn
<1>3. RegisteredIn(table2, x) = RegisteredIn(table, x)
  BY DEF RegisteredIn
<1>. QED
  BY <1>1, <1>2, <1>3 DEF Told

\* A log without one of its events; g finds the others in the original.
Without(log, log2, k, g) ==
  /\ \A m \in DOMAIN log2 : g[m] \in DOMAIN log \ {k} /\ log2[m] = log[g[m]]
  /\ \A n \in DOMAIN log \ {k} : \E m \in DOMAIN log2 : g[m] = n
  /\ \A m, n \in DOMAIN log2 : m <= n <=> g[m] <= g[n]

LEMMA Removed ==
  ASSUME NEW log, TrailOK(log), NEW k \in DOMAIN log, NEW log2, log2 = RemoveAt(log, k)
  PROVE  \E g : Without(log, log2, k, g)
<1>1. PICK S : log \in Seq(S)
  BY DEF TrailOK
<1>2. PICK N : N = Len(log)
  OBVIOUS
<1>3. N \in Nat /\ DOMAIN log = 1 .. N /\ k \in 1 .. N
  BY <1>1, <1>2
<1>4. PICK a, b : a = SubSeq(log, 1, k - 1) /\ b = SubSeq(log, k + 1, N)
  OBVIOUS
<1>5. a \in Seq(S) /\ Len(a) = k - 1 /\ \A m \in 1 .. k - 1 : a[m] = log[m]
  BY <1>1, <1>2, <1>3, <1>4
<1>6. b \in Seq(S) /\ Len(b) = N - k /\ \A m \in 1 .. N - k : b[m] = log[m + k]
  BY <1>1, <1>2, <1>3, <1>4
<1>7. log2 = a \o b
  BY <1>2, <1>4 DEF RemoveAt
<1>8. DOMAIN log2 = 1 .. N - 1
  BY <1>3, <1>5, <1>6, <1>7
<1>9. \A m \in 1 .. N - 1 : log2[m] = IF m < k THEN log[m] ELSE log[m + 1]
  <2>1. ASSUME NEW m \in 1 .. N - 1, m < k PROVE log2[m] = log[m]
    BY <1>3, <1>5, <1>6, <1>7, <2>1
  <2>2. ASSUME NEW m \in 1 .. N - 1, ~(m < k) PROVE log2[m] = log[m + 1]
    <3>1. m - (k - 1) \in 1 .. N - k
      BY <1>3, <2>2
    <3>2. m \in Len(a) + 1 .. Len(a) + Len(b)
      BY <1>3, <1>5, <1>6, <2>2
    <3>3. log2[m] = b[m - Len(a)]
      BY <1>5, <1>6, <1>7, <3>2
    <3>4. log2[m] = b[m - (k - 1)]
      BY <1>5, <3>3
    <3>5. b[m - (k - 1)] = log[(m - (k - 1)) + k]
      BY <1>6, <3>1
    <3>6. (m - (k - 1)) + k = m + 1
      BY <1>3, <2>2
    <3>. QED
      BY <3>4, <3>5, <3>6
  <2>. QED
    BY <2>1, <2>2
<1>10. PICK g : g = [m \in 1 .. N - 1 |-> IF m < k THEN m ELSE m + 1]
  OBVIOUS
<1>11. \A m \in DOMAIN log2 : g[m] \in DOMAIN log \ {k} /\ log2[m] = log[g[m]]
  BY <1>3, <1>8, <1>9, <1>10
<1>12. ASSUME NEW n \in DOMAIN log \ {k} PROVE \E m \in DOMAIN log2 : g[m] = n
  <2>1. CASE n < k
    <3>1. n \in DOMAIN log2 /\ g[n] = n
      BY <1>3, <1>8, <1>10, <1>12, <2>1
    <3>. QED
      BY <3>1
  <2>2. CASE n > k
    <3>1. n - 1 \in DOMAIN log2 /\ g[n - 1] = n
      BY <1>3, <1>8, <1>10, <1>12, <2>2
    <3>. QED
      BY <3>1
  <2>. QED
    BY <1>3, <1>12, <2>1, <2>2
<1>13. \A m, n \in DOMAIN log2 : m <= n <=> g[m] <= g[n]
  BY <1>3, <1>8, <1>10
<1>. QED
  BY <1>11, <1>12, <1>13 DEF Without

\* An event that was pending is not missed.
LEMMA ToldWithout ==
  ASSUME NEW table, NEW log, NEW x, Told(table, log, x), NEW log2, NEW k \in DOMAIN log,
         ~log[k].committed, NEW g, Without(log, log2, k, g)
  PROVE  Told(table, log2, x)
<1>1. \A m \in AboutIn(log2, x) : g[m] \in AboutIn(log, x) /\ log2[m] = log[g[m]]
  BY DEF AboutIn, Without
<1>2. \A n \in AboutIn(log, x) : \E m \in AboutIn(log2, x) : g[m] = n /\ log2[m] = log[n]
  BY DEF AboutIn, Without
<1>3. ASSUME NEW f
      PROVE  /\ \A m \in SettingIn(log2, x, f) : g[m] \in SettingIn(log, x, f)
             /\ \A n \in SettingIn(log, x, f) : \E m \in SettingIn(log2, x, f) : g[m] = n
             /\ SettingIn(log2, x, f) \subseteq DOMAIN log2
  <2>1. \A m \in SettingIn(log2, x, f) : g[m] \in SettingIn(log, x, f)
    BY <1>1 DEF SettingIn
  <2>2. ASSUME NEW n \in SettingIn(log, x, f)
        PROVE  \E m \in SettingIn(log2, x, f) : g[m] = n
    <3>1. n \in AboutIn(log, x) /\ f \in DOMAIN log[n].changes
      BY <2>2 DEF SettingIn
    <3>2. PICK m \in AboutIn(log2, x) : g[m] = n /\ log2[m] = log[n]
      BY <1>2, <3>1
    <3>. QED
      BY <3>1, <3>2 DEF SettingIn
  <2>3. SettingIn(log2, x, f) \subseteq DOMAIN log2
    BY DEF SettingIn, AboutIn
  <2>. QED
    BY <2>1, <2>2, <2>3
<1>4. ASSUME NEW f, NEW n \in LatestIn(log2, x, f)
      PROVE  g[n] \in LatestIn(log, x, f) /\ log2[n] = log[g[n]]
  <2>1. n \in SettingIn(log2, x, f) /\ \A m \in SettingIn(log2, x, f) : m <= n
    BY <1>4 DEF LatestIn
  <2>2. g[n] \in SettingIn(log, x, f) /\ log2[n] = log[g[n]]
    BY <1>1, <1>3, <2>1 DEF SettingIn
  <2>3. ASSUME NEW m \in SettingIn(log, x, f) PROVE m <= g[n]
    <3>1. PICK j \in SettingIn(log2, x, f) : g[j] = m
      BY <1>3, <2>3
    <3>2. j <= n /\ j \in DOMAIN log2 /\ n \in DOMAIN log2
      BY <1>3, <2>1, <3>1
    <3>. QED
      BY <3>1, <3>2 DEF Without
  <2>. QED
    BY <2>2, <2>3 DEF LatestIn
<1>5. \A n \in AboutIn(log2, x) :
        /\ log2[n].kind = "delete" => table[x] = NoRow
        /\ table[x] = NoRow => \E m \in AboutIn(log2, x) : log2[m].kind = "delete"
  <2>1. ASSUME NEW n \in AboutIn(log2, x)
        PROVE  /\ log2[n].kind = "delete" => table[x] = NoRow
               /\ table[x] = NoRow => \E m \in AboutIn(log, x) : log[m].kind = "delete"
    BY <1>1 DEF Told
  <2>. QED
    BY <1>2, <2>1
<1>6. AboutIn(log2, x) = {} => AboutIn(log, x) = {}
  BY <1>2
<1>7. ASSUME table[x] # NoRow, NEW f \in DOMAIN table[x]
      PROVE  /\ \A n \in LatestIn(log2, x, f) : table[x][f] = log2[n].changes[f].to
             /\ SettingIn(log2, x, f) = {} => table[x][f] = RegisteredIn(table, x)[f]
  <2>1. /\ \A n \in LatestIn(log, x, f) : table[x][f] = log[n].changes[f].to
        /\ SettingIn(log, x, f) = {} => table[x][f] = RegisteredIn(table, x)[f]
    BY <1>7 DEF Told
  <2>. QED
    BY <1>3, <1>4, <2>1
<1>. QED
  BY <1>5, <1>6, <1>7 DEF Told

-----------------------------------------------------------------------------
(* Steps that write no event                                               *)

\* A session that goes on keeps the target its events are about.
Calm(s, t) ==
  /\ s.pc # "written" /\ (Silent(s) \/ (~Silent(t) /\ t.target = s.target))
  /\ t.pc = "written" =>
       t.op.kind = "register" /\ \A n \in DOMAIN audit : audit[n].resource # t.target

LEMMA CalmStep ==
  ASSUME IInv, AuditInv, NEW r \in Request, NEW t, Set(r, t), UNCHANGED <<rows, audit>>,
         Calm(req[r], t)
  PROVE  AuditInv'
<1>1. PICK old, new, log : old = req /\ new = req' /\ log = audit
  OBVIOUS
<1>2. new[r] = t /\ \A q \in Request \ {r} : new[q] = old[q]
  BY <1>1, SetFacts DEF IInv
<1>3. LogOK(log, old) /\ Calm(old[r], t)
  BY <1>1 DEF AuditInv
<1>4. ASSUME NEW n \in DOMAIN log PROVE OwnerOK(new, log[n])
  <2>1. OwnerOK(old, log[n])
    BY <1>3 DEF LogOK
  <2>2. CASE log[n].req # r
    BY <1>2, <2>1, <2>2 DEF OwnerOK
  <2>3. CASE log[n].req = r
    BY <1>2, <1>3, <2>1, <2>3 DEF OwnerOK, Calm
  <2>. QED
    BY <2>2, <2>3
<1>5. ASSUME NEW q \in Request PROVE RecordOK(log, new[q], q)
  <2>1. CASE q # r
    BY <1>2, <1>3, <2>1 DEF LogOK
  <2>2. CASE q = r
    BY <1>1, <1>2, <1>3, <2>2 DEF RecordOK, Calm
  <2>. QED
    BY <2>1, <2>2
<1>6. LogOK(log, new)
  BY <1>3, <1>4, <1>5 DEF LogOK
<1>. QED
  BY <1>1, <1>6 DEF AuditInv

\* A request that ends.
LEMMA CalmEnd ==
  ASSUME NEW s, NEW b, IsSession(b), NEW a, s.pc # "written",
         Silent(s) \/ (b.target = s.target /\ b.op.kind # "register")
  PROVE  Calm(s, Ended(b, a))
<1>1. Ended(b, a).pc = "ended" /\ Ended(b, a).op = b.op /\ Ended(b, a).target = b.target
  BY EndedFields
<1>. QED
  BY <1>1 DEF Calm, Silent

LEMMA AuthoriseCalm ==
  ASSUME IInv, AuditInv, NEW r \in Request, NEW op \in Ops, Authorise(r, op)
  PROVE  AuditInv'
<1>1. PICK row, b : row = CurrentUser(op) /\ b = Started(op)
  OBVIOUS
<1>2. PICK s, t : s = WithActor(b, row) /\ t = AtPc(s, "authorised")
  OBVIOUS
<1>3. /\ UNCHANGED <<rows, audit>> /\ req[r].pc = "idle"
      /\ Set(r, t) \/ \E a : Set(r, Ended(s, a))
  BY <1>1, <1>2 DEF Authorise, WithActor, AtPc, At
<1>4. IsSession(s) /\ IsSession(t) /\ t.pc = "authorised"
  <2>1. IsSession(b)
    BY <1>1, StartedFields
  <2>2. IsSession(s)
    BY <1>2, <2>1, ActorFields
  <2>. QED
    BY <1>2, <2>2, PcFields
<1>5. Silent(req[r])
  BY <1>3 DEF Silent
<1>6. CASE Set(r, t)
  BY <1>3, <1>4, <1>5, <1>6, CalmStep DEF Calm
<1>7. ASSUME NEW a, Set(r, Ended(s, a)) PROVE AuditInv'
  BY <1>3, <1>4, <1>5, <1>7, CalmEnd, CalmStep
<1>. QED
  BY <1>3, <1>6, <1>7

LEMMA LookUpCalm ==
  ASSUME IInv, AuditInv, NEW r \in Request, NEW op \in Ops, LookUp(r, op)
  PROVE  AuditInv'
<1>1. PICK b, t : b = Started(op) /\ t = AtPc(b, "loaded")
  OBVIOUS
<1>2. /\ UNCHANGED <<rows, audit>> /\ req[r].pc = "idle"
      /\ Set(r, Ended(b, 409)) \/ Set(r, t)
  BY <1>1 DEF LookUp, AtPc, At
<1>3. IsSession(b) /\ t.pc = "loaded" /\ Silent(req[r])
  <2>1. IsSession(b)
    BY <1>1, StartedFields
  <2>. QED
    BY <1>1, <1>2, <2>1, PcFields DEF Silent
<1>4. CASE Set(r, t)
  BY <1>2, <1>3, <1>4, CalmStep DEF Calm
<1>5. CASE Set(r, Ended(b, 409))
  BY <1>2, <1>3, <1>5, CalmEnd, CalmStep
<1>. QED
  BY <1>2, <1>4, <1>5

LEMMA LogInCalm ==
  ASSUME IInv, AuditInv, NEW r \in Request, NEW op \in Ops, LogIn(r, op)
  PROVE  AuditInv'
<1>1. PICK b, u : b = Started(op) /\ u = CHOOSE v \in Verified(op.want) : TRUE
  OBVIOUS
<1>2. PICK s : s = WithTarget(b, u)
  OBVIOUS
<1>3. /\ UNCHANGED <<rows, audit>> /\ req[r].pc = "idle"
      /\ Set(r, Ended(b, 401)) \/ Set(r, Ended(b, 403)) \/ Set(r, Ended(s, 200))
  BY <1>1, <1>2 DEF LogIn, WithTarget, At
<1>4. IsSession(b) /\ IsSession(s) /\ Silent(req[r])
  BY <1>1, <1>2, <1>3, StartedFields, TargetFields DEF Silent
<1>5. PICK c, a : Set(r, Ended(c, a)) /\ IsSession(c)
  BY <1>3, <1>4
<1>. QED
  BY <1>3, <1>4, <1>5, CalmEnd, CalmStep

\* The command keeps to one account.
LEMMA StageCalm ==
  ASSUME IInv, AuditInv, NEW r \in Request, NEW s, IsSession(s), NEW u, NEW row, NEW p,
         Set(r, Stage(s, u, row, p)), UNCHANGED <<rows, audit>>, req[r].pc # "written",
         Silent(req[r]) \/ (s.target = req[r].target /\ u = s.target /\ s.op.kind # "register")
  PROVE  AuditInv'
<1>1. \/ Set(r, Ended(s, 200))
      \/ \E kind \in {"role", "status"} :
           \E want : Set(r, StagedAs(s, row, u, OwnChange(u, kind, want)))
  BY DEF Stage, StagedAs, OwnChange
<1>2. CASE Set(r, Ended(s, 200))
  BY <1>2, CalmEnd, CalmStep
<1>3. ASSUME NEW kind \in {"role", "status"}, NEW want,
             Set(r, StagedAs(s, row, u, OwnChange(u, kind, want)))
      PROVE  AuditInv'
  <2>1. PICK o, t : o = OwnChange(u, kind, want) /\ t = StagedAs(s, row, u, o)
    OBVIOUS
  <2>2. t.pc = "loaded" /\ t.target = u /\ t.op = o /\ o.kind = kind
    BY <2>1, StagedFields DEF OwnChange
  <2>3. Calm(req[r], t)
    BY <2>2 DEF Calm, Silent
  <2>. QED
    BY <1>3, <2>1, <2>3, CalmStep
<1>. QED
  BY <1>1, <1>2, <1>3

LEMMA NextStageCalm ==
  ASSUME IInv, AuditInv, NEW r \in Request, NextStage(r)
  PROVE  AuditInv'
<1>1. PICK s, u, p : s = req[r] /\ u = req[r].target /\ p = Kinds(r, {"register"})
  OBVIOUS
<1>2. s.pc = "reread" /\ Set(r, Stage(s, u, rows[u], p)) /\ UNCHANGED <<rows, audit>>
  BY <1>1 DEF NextStage, At
<1>3. IsSession(s)
  BY <1>1, SessionFacts DEF Shape
<1>. QED
  BY <1>1, <1>2, <1>3, StageCalm DEF Silent

LEMMA BootstrapCalm ==
  ASSUME IInv, AuditInv, NEW r \in Request, NEW op \in Ops, Bootstrap(r, op)
  PROVE  AuditInv'
<1>1. PICK b, s, o, t : /\ b = Started(op) /\ s = WithCli(b) /\ o = AsKind(op, "register")
                        /\ t = Registering(s, o)
  OBVIOUS
<1>2. PICK u : u = CHOOSE v \in WithEmail(op.want.email) : TRUE
  OBVIOUS
<1>3. IsSession(b) /\ b.op = op
  BY <1>1, StartedFields
<1>4. IsSession(s) /\ s.op = op
  BY <1>1, <1>3, CliFields
<1>5. /\ UNCHANGED <<rows, audit>> /\ req[r].pc = "idle"
      /\ Set(r, Stage(s, u, rows[u], TRUE)) \/ Set(r, t)
  <2>1. [s EXCEPT !.pc = "loaded", !.op.kind = "register"] = t
    BY <1>1, <1>4 DEF Registering, AsKind
  <2>. QED
    BY <1>1, <1>2, <2>1 DEF Bootstrap, WithCli, At
<1>6. Silent(req[r])
  BY <1>5 DEF Silent
<1>7. CASE Set(r, Stage(s, u, rows[u], TRUE))
  BY <1>4, <1>5, <1>6, <1>7, StageCalm
<1>8. CASE Set(r, t)
  <2>1. t.pc = "loaded"
    BY <1>1, <1>4, RegisteringFields
  <2>. QED
    BY <1>5, <1>6, <1>8, <2>1, CalmStep DEF Calm
<1>. QED
  BY <1>5, <1>7, <1>8

LEMMA LoadCalm ==
  ASSUME IInv, AuditInv, NEW r \in Request, Load(r)
  PROVE  AuditInv'
<1>1. PICK s, row : /\ s = req[r]
                    /\ row = IF req[r].target = req[r].op.actor THEN req[r].actor
                             ELSE rows[req[r].target]
  OBVIOUS
<1>2. /\ s.pc = "authorised" /\ UNCHANGED <<rows, audit>>
      /\ Set(r, Ended(s, 404)) \/ Set(r, Ended(s, 200)) \/ Set(r, WithSeen(s, row))
  BY <1>1 DEF Load, Kinds, WithSeen, At
<1>3. IsSession(s) /\ Silent(s)
  BY <1>1, <1>2, SessionFacts DEF Shape, Silent
<1>4. CASE Set(r, Ended(s, 404)) \/ Set(r, Ended(s, 200))
  <2>1. PICK a : Set(r, Ended(s, a))
    BY <1>4
  <2>. QED
    BY <1>1, <1>2, <1>3, <2>1, CalmEnd, CalmStep
<1>5. CASE Set(r, WithSeen(s, row))
  <2>1. WithSeen(s, row).pc = "loaded"
    BY <1>3, SeenFields
  <2>2. Calm(s, WithSeen(s, row))
    BY <1>2, <1>3, <2>1 DEF Calm
  <2>. QED
    BY <1>1, <1>2, <1>5, <2>2, CalmStep
<1>. QED
  BY <1>2, <1>4, <1>5

\* The id of a new account is in no event, since every event is about the
\* target of a request.
LEMMA InsertCalm ==
  ASSUME IInv, AuditInv, NEW r \in Request, Insert(r)
  PROVE  AuditInv'
<1>1. PICK s : s = req[r]
  OBVIOUS
<1>2. /\ s.pc = "loaded" /\ s.op.kind = "register" /\ UNCHANGED <<rows, audit>>
      /\ \/ Set(r, Ended(s, 409))
         \/ \E u \in User : /\ \A q \in Request : req[q].target # u
                            /\ Set(r, Inserted(s, u))
  BY <1>1 DEF Insert, At, Kinds, Inserted
<1>3. IsSession(s) /\ Silent(s)
  BY <1>1, <1>2, SessionFacts DEF Shape, Silent
<1>4. CASE Set(r, Ended(s, 409))
  BY <1>1, <1>2, <1>3, <1>4, CalmEnd, CalmStep
<1>5. ASSUME NEW u \in User, \A q \in Request : req[q].target # u, Set(r, Inserted(s, u))
      PROVE  AuditInv'
  <2>1. PICK t : t = Inserted(s, u)
    OBVIOUS
  <2>2. t.pc = "written" /\ t.target = u /\ t.op = s.op
    BY <1>3, <2>1, InsertedFields
  <2>3. \A n \in DOMAIN audit : audit[n].resource # u
    BY <1>5 DEF AuditInv, LogOK, OwnerOK
  <2>4. Calm(s, t)
    BY <1>2, <1>3, <2>2, <2>3 DEF Calm
  <2>. QED
    BY <1>1, <1>2, <1>5, <2>1, <2>4, CalmStep
<1>. QED
  BY <1>2, <1>4, <1>5

\* A reader has no event at any time.
LEMMA ReaderCalm ==
  ASSUME IInv, AuditInv, NEW r \in Request, NEW t, IsSession(t),
         req[r].pc \notin {"idle", "written"}, req[r].op.kind \in Listing \cup {"dashboard"},
         t.op = req[r].op, t.target = req[r].target, UNCHANGED <<rows, audit>>,
         \/ t.pc \in {"by_status", "by_severity", "reading"} /\ Set(r, t)
         \/ Set(r, Ended(t, 200))
  PROVE  AuditInv'
<1>1. t.op.kind # "register"
  BY DEF Listing
<1>2. CASE t.pc \in {"by_status", "by_severity", "reading"} /\ Set(r, t)
  <2>1. Calm(req[r], t)
    BY <1>1, <1>2 DEF Calm, Silent
  <2>. QED
    BY <1>2, <2>1, CalmStep
<1>3. CASE Set(r, Ended(t, 200))
  BY <1>1, <1>3, CalmEnd, CalmStep
<1>. QED
  BY <1>2, <1>3

LEMMA CountCalm ==
  ASSUME IInv, AuditInv, NEW r \in Request,
         CountByStatus(r) \/ CountBySeverity(r) \/ CountAffected(r)
  PROVE  AuditInv'
<1>1. PICK s : s = req[r]
  OBVIOUS
<1>2. IsSession(s) /\ KindOK(s)
  BY <1>1, SessionFacts DEF Shape
<1>3. CASE CountByStatus(r)
  <2>1. PICK sum, t : /\ sum = [s.sum EXCEPT !.status = [v \in Status |-> Count("status", v)]]
                      /\ t = WithSum(s, "by_status", sum)
    OBVIOUS
  <2>2. /\ s.pc = "authorised" /\ s.op.kind = "dashboard" /\ UNCHANGED <<rows, audit>>
        /\ Set(r, t)
    <3>1. [s EXCEPT !.pc = "by_status", !.sum.status = [v \in Status |-> Count("status", v)]] = t
      BY <1>2, <2>1 DEF WithSum
    <3>. QED
      BY <1>1, <1>3, <3>1 DEF CountByStatus, At, Kinds
  <2>3. IsSession(t) /\ t.pc = "by_status" /\ t.op = s.op /\ t.target = s.target
    BY <1>2, <2>1, SumFields
  <2>. QED
    BY <1>1, <2>2, <2>3, ReaderCalm
<1>4. CASE CountBySeverity(r)
  <2>1. PICK sum, t : /\ sum = [s.sum EXCEPT !.severity = [v \in Severity |-> Count("severity", v)]]
                      /\ t = WithSum(s, "by_severity", sum)
    OBVIOUS
  <2>2. s.pc = "by_status" /\ UNCHANGED <<rows, audit>> /\ Set(r, t)
    <3>1. [s EXCEPT !.pc = "by_severity",
                    !.sum.severity = [v \in Severity |-> Count("severity", v)]] = t
      BY <1>2, <2>1 DEF WithSum
    <3>. QED
      BY <1>1, <1>4, <3>1 DEF CountBySeverity, At
  <2>3. IsSession(t) /\ t.pc = "by_severity" /\ t.op = s.op /\ t.target = s.target
    BY <1>2, <2>1, SumFields
  <2>4. s.op.kind = "dashboard"
    BY <1>2, <2>2 DEF KindOK
  <2>. QED
    BY <1>1, <2>2, <2>3, <2>4, ReaderCalm
<1>5. CASE CountAffected(r)
  <2>1. PICK sum, t : /\ sum = [s.sum EXCEPT !.affected = Cardinality(Affected(rows))]
                      /\ t = WithSum(s, "by_severity", sum)
    OBVIOUS
  <2>2. s.pc = "by_severity" /\ UNCHANGED <<rows, audit>> /\ Set(r, Ended(t, 200))
    <3>1. s.pc = "by_severity"
      BY <1>1, <1>5 DEF CountAffected, At
    <3>2. [s EXCEPT !.sum.affected = Cardinality(Affected(rows))] = t
      BY <1>2, <2>1, <3>1 DEF WithSum, IsSession, Fields
    <3>. QED
      BY <1>1, <1>5, <3>1, <3>2 DEF CountAffected
  <2>3. IsSession(t) /\ t.op = s.op /\ t.target = s.target
    BY <1>2, <2>1, SumFields
  <2>4. s.op.kind = "dashboard"
    BY <1>2, <2>2 DEF KindOK
  <2>. QED
    BY <1>1, <2>2, <2>3, <2>4, ReaderCalm
<1>. QED
  BY <1>3, <1>4, <1>5

LEMMA ReadPageCalm ==
  ASSUME IInv, AuditInv, NEW r \in Request, ReadPage(r)
  PROVE  AuditInv'
<1>1. PICK s : s = req[r]
  OBVIOUS
<1>2. PICK items : items = Page(s.op, s.page)
  OBVIOUS
<1>3. PICK page, must, got :
        /\ page = s.page + 1
        /\ must = IF At(r, "authorised") THEN Visible(s.op, rows, audit) ELSE s.must
        /\ got = s.got \cup items
  OBVIOUS
<1>4. PICK t : t = Paged(s, page, must, got)
  OBVIOUS
<1>5. IsSession(s)
  BY <1>1, SessionFacts DEF Shape
<1>6. /\ s.pc \in {"authorised", "reading"} /\ s.op.kind \in Listing /\ UNCHANGED <<rows, audit>>
      /\ Set(r, t) \/ Set(r, Ended(t, 200))
  <2>1. [s EXCEPT !.pc = "reading", !.page = @ + 1,
                  !.must = IF At(r, "authorised") THEN Visible(s.op, rows, audit) ELSE @,
                  !.got = @ \cup items] = t
    BY <1>3, <1>4, <1>5, Zenon DEF Paged, IsSession, Fields
  <2>. QED
    BY <1>1, <1>2, <2>1 DEF ReadPage, Kinds, At
<1>7. IsSession(t) /\ t.pc = "reading" /\ t.op = s.op /\ t.target = s.target
  BY <1>4, <1>5, PagedFields
<1>. QED
  BY <1>1, <1>6, <1>7, ReaderCalm

-----------------------------------------------------------------------------
(* Steps that write an event                                               *)

\* The event of a request that did not have one pending.
LEMMA AppendStep ==
  ASSUME IInv, IInv', AuditInv, NEW r \in Request, NEW t, Set(r, t), UNCHANGED rows, NEW e,
         audit' = Append(audit, e), req[r].pc # "written",
         Silent(req[r]) \/ t.target = req[r].target,
         t.pc = "written", t.op.kind # "register",
         e.req = r, e.resource = t.target, ~e.committed, Wanted(t, e),
         e.kind = "create" => \A n \in DOMAIN audit : audit[n].resource # e.resource
  PROVE  AuditInv'
<1>1. PICK old, new, log, log2 : old = req /\ new = req' /\ log = audit /\ log2 = audit'
  OBVIOUS
<1>2. PICK N : N = Len(log)
  OBVIOUS
<1>3. N \in Nat /\ DOMAIN log = 1 .. N /\ DOMAIN log2 = 1 .. N + 1 /\ log2[N + 1] = e
      /\ \A n \in 1 .. N : log2[n] = log[n]
  <2>1. PICK S : log \in Seq(S)
    BY <1>1 DEF IInv, TrailOK
  <2>. QED
    BY <1>1, <1>2, <2>1
<1>4. new[r] = t /\ \A q \in Request \ {r} : new[q] = old[q]
  BY <1>1, SetFacts DEF IInv
<1>5. LogOK(log, old)
  BY <1>1 DEF AuditInv
<1>6. ASSUME NEW q \in Request \ {r}, old[q].pc = "written", old[q].target = e.resource
      PROVE  old[q].op.kind = "delete" /\ e.kind = "delete"
  <2>1. Apart(new[r], new[q])
    BY <1>1 DEF IInv
  <2>. QED
    BY <1>4, <1>6, <2>1 DEF Apart, Wanted
<1>7. ASSUME NEW n \in 1 .. N PROVE OwnerOK(new, log2[n])
  <2>1. OwnerOK(old, log[n])
    BY <1>3, <1>5 DEF LogOK
  <2>2. CASE log[n].req # r
    BY <1>3, <1>4, <2>1, <2>2 DEF OwnerOK
  <2>3. CASE log[n].req = r
    BY <1>1, <1>3, <1>4, <2>1, <2>3 DEF OwnerOK, Silent
  <2>. QED
    BY <2>2, <2>3
<1>8. OwnerOK(new, e)
  BY <1>4 DEF OwnerOK, Silent
<1>9. ASSUME NEW n \in 1 .. N
      PROVE  /\ log[n].req = r => log[n].committed
             /\ ~log[n].committed /\ log[n].resource = e.resource =>
                  log[n].kind = "delete" /\ e.kind = "delete"
             /\ log[n].resource = e.resource => e.kind # "create"
  <2>1. OwnerOK(old, log[n])
    BY <1>3, <1>5 DEF LogOK
  <2>2. log[n].req = r => log[n].committed
    BY <1>1, <2>1 DEF OwnerOK
  <2>. QED
    BY <1>1, <1>3, <1>6, <2>1, <2>2 DEF OwnerOK, Wanted
<1>10. ASSUME NEW m \in 1 .. N + 1, NEW n \in 1 .. N + 1 PROVE OrderOK(log2, m, n)
  <2>1. CASE m \in 1 .. N /\ n \in 1 .. N
    <3>1. OrderOK(log, m, n)
      BY <1>3, <1>5, <2>1 DEF LogOK
    <3>. QED
      BY <1>3, <2>1, <3>1 DEF OrderOK
  <2>2. CASE m = N + 1 /\ n \in 1 .. N
    BY <1>3, <1>9, <2>2 DEF OrderOK, Changing
  <2>3. CASE m \in 1 .. N /\ n = N + 1
    BY <1>3, <1>9, <2>3 DEF OrderOK, Changing
  <2>4. CASE m = N + 1 /\ n = N + 1
    BY <1>3, <2>4 DEF OrderOK
  <2>. QED
    BY <1>3, <2>1, <2>2, <2>3, <2>4
<1>11. ASSUME NEW q \in Request PROVE RecordOK(log2, new[q], q)
  <2>1. CASE q = r
    BY <1>3, <1>4, <2>1 DEF RecordOK
  <2>2. CASE q # r
    <3>1. RecordOK(log, old[q], q) /\ new[q] = old[q]
      BY <1>4, <1>5, <2>2 DEF LogOK
    <3>2. CASE old[q].pc = "written" /\ old[q].op.kind = "register"
      BY <1>3, <1>6, <2>2, <3>1, <3>2 DEF RecordOK
    <3>3. CASE old[q].pc = "written" /\ old[q].op.kind # "register"
      <4>1. PICK n \in DOMAIN log : log[n].req = q /\ ~log[n].committed
        BY <3>1, <3>3 DEF RecordOK
      <4>2. n \in DOMAIN log2 /\ log2[n] = log[n]
        BY <1>3
      <4>. QED
        BY <3>1, <3>3, <4>1, <4>2 DEF RecordOK
    <3>4. CASE old[q].pc # "written"
      BY <3>1, <3>4 DEF RecordOK
    <3>. QED
      BY <3>2, <3>3, <3>4
  <2>. QED
    BY <2>1, <2>2
<1>12. LogOK(log2, new)
  BY <1>3, <1>7, <1>8, <1>10, <1>11 DEF LogOK
<1>13. ASSUME NEW x \in Resource PROVE Told(rows, log2, x)
  <2>1. Told(rows, log, x)
    BY <1>1 DEF AuditInv
  <2>2. AboutIn(log2, x) = AboutIn(log, x) /\ \A n \in AboutIn(log, x) : log2[n] = log[n]
    BY <1>3 DEF AboutIn
  <2>. QED
    BY <2>1, <2>2, ToldSame
<1>. QED
  BY <1>1, <1>12, <1>13 DEF AuditInv

LEMMA WriteRecorded ==
  ASSUME IInv, AuditInv, NEW r \in Request, Write(r)
  PROVE  AuditInv'
<1>1. PICK s, t, ch, e :
        /\ s = req[r] /\ t = AtPc(s, "written")
        /\ ch = IF s.op.kind \in Changing THEN Changes(s.seen, s.op.want)
                ELSE [deleted |-> [from |-> FALSE, to |-> TRUE]]
        /\ e = Event(r, ch)
  OBVIOUS
<1>2. /\ s.pc = "loaded" /\ s.op.kind \in Changing \cup {"delete"} /\ UNCHANGED rows
      /\ \/ Set(r, Ended(s, 500)) /\ UNCHANGED audit
         \/ Set(r, t) /\ audit' = Append(audit, e)
  BY <1>1 DEF Write, At, Kinds, AtPc
<1>3. IsSession(s) /\ IInv'
  BY <1>1, SessionFacts, WriteStep DEF Shape
<1>4. s.op.kind # "register" /\ s.op.kind # "create"
  BY <1>2 DEF Changing
<1>5. CASE Set(r, Ended(s, 500)) /\ UNCHANGED audit
  BY <1>1, <1>2, <1>3, <1>4, <1>5, CalmEnd, CalmStep
<1>6. CASE Set(r, t) /\ audit' = Append(audit, e)
  <2>1. /\ t.pc = "written" /\ t.op = s.op /\ t.target = s.target /\ t.seen = s.seen
    BY <1>1, <1>3, PcFields
  <2>2. /\ e.req = r /\ e.kind = s.op.kind /\ e.resource = s.target /\ e.changes = ch
        /\ e.committed = FALSE
    BY <1>1 DEF Event
  <2>3. Wanted(t, e) /\ ~e.committed /\ e.kind # "create"
    BY <1>1, <1>4, <2>1, <2>2 DEF Wanted
  <2>. QED
    BY <1>1, <1>2, <1>3, <1>4, <1>6, <2>1, <2>2, <2>3, AppendStep
<1>. QED
  BY <1>2, <1>5, <1>6

NewEvent(r, ch, i) == [Event(r, ch) EXCEPT !.resource = i]
Names(e, r, kind, i, ch) ==
  e.req = r /\ e.kind = kind /\ e.resource = i /\ e.changes = ch /\ e.committed = FALSE
LEMMA NewEventFields ==
  ASSUME NEW r, NEW ch, NEW i
  PROVE  Names(NewEvent(r, ch, i), r, req[r].op.kind, i, ch)
<1>1. PICK s, role : /\ s = req[r]
                     /\ role = IF s.target = s.op.actor /\ "role" \in DOMAIN ch
                               THEN ch["role"].to ELSE s.actor.role
  OBVIOUS
<1>2. PICK e : e = NewEvent(r, ch, i)
  OBVIOUS
<1>3. Event(r, ch) = [req |-> r, kind |-> s.op.kind, resource |-> s.target, changes |-> ch,
                      actor |-> s.op.actor, committed |-> FALSE, role |-> role]
  BY <1>1 DEF Event
<1>4. e.req = r /\ e.kind = s.op.kind /\ e.resource = i /\ e.changes = ch /\ e.committed = FALSE
  BY <1>2, <1>3 DEF NewEvent
<1>. QED
  BY <1>1, <1>2, <1>4 DEF Names

\* The id of a new incident is in no event either.
LEMMA WriteNewRecorded ==
  ASSUME IInv, AuditInv, NEW r \in Request, WriteNew(r)
  PROVE  AuditInv'
<1>1. PICK s, ch : s = req[r] /\ ch = AllNew(NewIncident(req[r].op.want))
  OBVIOUS
<1>2. s.pc = "authorised" /\ s.op.kind = "create" /\ UNCHANGED rows
  BY <1>1 DEF WriteNew, At, Kinds
<1>3. PICK i \in Incident : /\ \A q \in Request : req[q].target # i
                            /\ Set(r, Inserted(s, i))
                            /\ audit' = Append(audit, NewEvent(r, ch, i))
  BY <1>1 DEF WriteNew, Inserted, NewEvent
<1>4. PICK t, e : t = Inserted(s, i) /\ e = NewEvent(r, ch, i)
  OBVIOUS
<1>5. IsSession(s) /\ IInv' /\ Silent(s)
  BY <1>1, <1>2, SessionFacts, WriteNewStep DEF Shape, Silent
<1>6. t.pc = "written" /\ t.target = i /\ t.op = s.op
  BY <1>4, <1>5, InsertedFields
<1>7. /\ e.req = r /\ e.kind = s.op.kind /\ e.resource = i /\ e.changes = ch
      /\ e.committed = FALSE
  <2>1. Names(e, r, s.op.kind, i, ch)
    BY <1>1, <1>4, NewEventFields, Zenon
  <2>. QED
    BY <2>1 DEF Names
<1>8. \A n \in DOMAIN audit : audit[n].resource # i
  BY <1>3 DEF AuditInv, LogOK, OwnerOK
<1>9. Wanted(t, e) /\ ~e.committed /\ t.op.kind # "register"
  BY <1>1, <1>2, <1>6, <1>7 DEF Wanted, Changing
<1>10. Set(r, t) /\ audit' = Append(audit, e)
  BY <1>3, <1>4
<1>. QED
  BY <1>1, <1>2, <1>5, <1>6, <1>7, <1>8, <1>9, <1>10, AppendStep

\* A rollback takes the one pending event back; what was committed before, in
\* an earlier stage of the command, stays.
LEMMA FailRecorded ==
  ASSUME IInv, AuditInv, NEW r \in Request, Fail(r)
  PROVE  AuditInv'
<1>1. PICK old, new, log, log2, t : /\ old = req /\ new = req' /\ log = audit /\ log2 = audit'
                                    /\ t = Ended(req[r], 500)
  OBVIOUS
<1>2. Set(r, t) /\ UNCHANGED rows
  BY <1>1 DEF Fail
<1>3. new[r] = t /\ \A q \in Request \ {r} : new[q] = old[q]
  BY <1>1, <1>2, SetFacts DEF IInv
<1>4. t.pc = "ended" /\ t.target = old[r].target /\ t.op = old[r].op
  <2>1. IsSession(req[r])
    BY SessionFacts DEF Shape
  <2>. QED
    BY <1>1, <2>1, EndedFields
<1>5. LogOK(log, old) /\ \A x \in Resource : Told(rows, log, x)
  BY <1>1 DEF AuditInv
<1>6. ASSUME NEW e, OwnerOK(old, e), ~e.committed => e.req # r PROVE OwnerOK(new, e)
  BY <1>3, <1>4, <1>6 DEF OwnerOK, Silent
<1>7. CASE Pending(r) = {}
  <2>1. log2 = log
    BY <1>1, <1>7 DEF Fail
  <2>2. \A n \in DOMAIN log : ~log[n].committed => log[n].req # r
    BY <1>1, <1>7 DEF Pending
  <2>3. \A n \in DOMAIN log : OwnerOK(new, log[n])
    BY <1>5, <1>6, <2>2 DEF LogOK
  <2>4. \A q \in Request : RecordOK(log, new[q], q)
    BY <1>3, <1>4, <1>5 DEF LogOK, RecordOK
  <2>5. LogOK(log, new)
    BY <1>5, <2>3, <2>4 DEF LogOK
  <2>. QED
    BY <1>1, <1>2, <1>5, <2>1, <2>5 DEF AuditInv
<1>8. CASE Pending(r) # {}
  <2>1. PICK k : k = CHOOSE m \in Pending(r) : TRUE
    OBVIOUS
  <2>2. k \in Pending(r)
    BY <1>8, <2>1
  <2>3. k \in DOMAIN log /\ log[k].req = r /\ ~log[k].committed /\ log2 = RemoveAt(log, k)
    BY <1>1, <1>8, <2>1, <2>2 DEF Pending, Fail
  <2>4. PICK g : Without(log, log2, k, g)
    BY <1>1, <2>3, Removed DEF IInv
  <2>5. \A m \in DOMAIN log2 : g[m] \in DOMAIN log /\ g[m] # k /\ log2[m] = log[g[m]]
    BY <2>4 DEF Without
  <2>6. ASSUME NEW m \in DOMAIN log2 PROVE OwnerOK(new, log2[m])
    <3>1. OwnerOK(old, log2[m])
      BY <1>5, <2>5 DEF LogOK
    <3>2. OrderOK(log, g[m], k)
      BY <1>5, <2>3, <2>5 DEF LogOK
    <3>3. ~log2[m].committed => log2[m].req # r
      BY <2>3, <2>5, <3>2 DEF OrderOK
    <3>. QED
      BY <1>6, <3>1, <3>3
  <2>7. ASSUME NEW m \in DOMAIN log2, NEW n \in DOMAIN log2 PROVE OrderOK(log2, m, n)
    <3>1. OrderOK(log, g[m], g[n])
      BY <1>5, <2>5 DEF LogOK
    <3>2. (m <= n <=> g[m] <= g[n]) /\ (n <= m <=> g[n] <= g[m])
      BY <2>4 DEF Without
    <3>3. (m <= n /\ n <= m <=> m = n) /\ (g[m] <= g[n] /\ g[n] <= g[m] <=> g[m] = g[n])
      <4>1. m \in Nat /\ n \in Nat
        <5>1. TrailOK(log2)
          BY <1>1, FailStep DEF IInv
        <5>. QED
          BY <5>1, Indices
      <4>2. g[m] \in Nat /\ g[n] \in Nat
        BY <1>1, <2>5, Indices DEF IInv
      <4>. QED
        BY <4>1, <4>2
    <3>. QED
      BY <2>5, <3>1, <3>2, <3>3 DEF OrderOK
  <2>8. ASSUME NEW q \in Request PROVE RecordOK(log2, new[q], q)
    <3>1. CASE q = r
      BY <1>3, <1>4, <3>1 DEF RecordOK
    <3>2. CASE q # r
      <4>1. RecordOK(log, old[q], q) /\ new[q] = old[q]
        BY <1>3, <1>5, <3>2 DEF LogOK
      <4>2. \A n \in DOMAIN log : log[n].req = q => \E m \in DOMAIN log2 : log2[m] = log[n]
        BY <2>3, <2>4, <3>2 DEF Without
      <4>. QED
        BY <2>5, <4>1, <4>2 DEF RecordOK
    <3>. QED
      BY <3>1, <3>2
  <2>9. LogOK(log2, new)
    BY <2>6, <2>7, <2>8 DEF LogOK
  <2>10. \A x \in Resource : Told(rows, log2, x)
    BY <1>5, <2>3, <2>4, ToldWithout
  <2>. QED
    BY <1>1, <1>2, <2>9, <2>10 DEF AuditInv
<1>. QED
  BY <1>7, <1>8

-----------------------------------------------------------------------------
(* The commit tells what it stores                                         *)

AsRegistered(row) == [row EXCEPT !.role = "viewer", !.is_active = TRUE]
LEMMA RegisteredFields ==
  ASSUME NEW row
  PROVE  /\ DOMAIN AsRegistered(row) = DOMAIN row
         /\ \A f \in DOMAIN row :
              AsRegistered(row)[f] = IF f = "is_active" THEN TRUE
                                     ELSE IF f = "role" THEN "viewer" ELSE row[f]
  BY DEF AsRegistered

\* A change of a row whose event is the last one about it.
LEMMA ToldChange ==
  ASSUME NEW table, NEW log, NEW x, Told(table, log, x), table[x] # NoRow,
         NEW k, k \in Nat, NEW changes, NEW table2, NEW log2,
         AboutIn(log2, x) = AboutIn(log, x) \cup {k}, k \notin AboutIn(log, x),
         \A n \in AboutIn(log, x) : n \in Nat /\ n <= k,
         \A n \in AboutIn(log, x) : log2[n].kind = log[n].kind /\ log2[n].changes = log[n].changes,
         log2[k].kind # "delete", log2[k].changes = changes,
         table2[x] # NoRow, DOMAIN table2[x] = DOMAIN table[x],
         \A f \in DOMAIN table[x] :
           table2[x][f] = IF f \in DOMAIN changes THEN changes[f].to ELSE table[x][f],
         \A f \in DOMAIN table[x] \ DOMAIN changes :
           RegisteredIn(table2, x)[f] = RegisteredIn(table, x)[f]
  PROVE  Told(table2, log2, x)
<1>1. \A n \in AboutIn(log2, x) : log2[n].kind # "delete"
  BY DEF Told
<1>2. ASSUME NEW f \in DOMAIN table[x], f \in DOMAIN changes
      PROVE  /\ \A n \in LatestIn(log2, x, f) : table2[x][f] = log2[n].changes[f].to
             /\ SettingIn(log2, x, f) # {}
  <2>1. k \in SettingIn(log2, x, f)
    BY <1>2 DEF SettingIn
  <2>2. ASSUME NEW n \in LatestIn(log2, x, f) PROVE n = k
    <3>1. k <= n /\ n \in AboutIn(log, x) \cup {k}
      BY <2>1, <2>2 DEF LatestIn, SettingIn
    <3>. QED
      BY <3>1
  <2>. QED
    BY <1>2, <2>1, <2>2
<1>3. ASSUME NEW f \in DOMAIN table[x], f \notin DOMAIN changes
      PROVE  /\ \A n \in LatestIn(log2, x, f) : table2[x][f] = log2[n].changes[f].to
             /\ SettingIn(log2, x, f) = {} => table2[x][f] = RegisteredIn(table2, x)[f]
  <2>1. SettingIn(log2, x, f) = SettingIn(log, x, f)
    BY <1>3 DEF SettingIn
  <2>2. LatestIn(log2, x, f) = LatestIn(log, x, f) /\ LatestIn(log, x, f) \subseteq AboutIn(log, x)
    BY <2>1 DEF LatestIn, SettingIn
  <2>3. /\ \A n \in LatestIn(log, x, f) : table[x][f] = log[n].changes[f].to
        /\ SettingIn(log, x, f) = {} => table[x][f] = RegisteredIn(table, x)[f]
    BY DEF Told
  <2>. QED
    BY <1>3, <2>1, <2>2, <2>3
<1>. QED
  BY <1>1, <1>2, <1>3 DEF Told

\* The first event about a row, which creates it.
LEMMA ToldCreate ==
  ASSUME NEW x, NEW k, NEW changes, NEW table2, NEW log2, AboutIn(log2, x) = {k},
         log2[k].kind # "delete", log2[k].changes = changes,
         table2[x] # NoRow, DOMAIN table2[x] = DOMAIN changes,
         \A f \in DOMAIN changes : table2[x][f] = changes[f].to
  PROVE  Told(table2, log2, x)
<1>1. \A f \in DOMAIN changes : SettingIn(log2, x, f) = {k}
  BY DEF SettingIn
<1>2. \A f \in DOMAIN changes : LatestIn(log2, x, f) \subseteq {k}
  BY <1>1 DEF LatestIn
<1>. QED
  BY <1>1, <1>2 DEF Told

LEMMA ToldDelete ==
  ASSUME NEW x, NEW k, NEW table2, NEW log2, k \in AboutIn(log2, x),
         log2[k].kind = "delete", table2[x] = NoRow
  PROVE  Told(table2, log2, x)
  BY DEF Told

\* A registration has no event.
LEMMA ToldRegister ==
  ASSUME NEW table, NEW log, NEW x \in User, Told(table, log, x), table[x] = NoRow,
         NEW table2, NEW log2, AboutIn(log, x) = {}, AboutIn(log2, x) = {},
         table2[x] \in UserRow, table2[x].role = "viewer", table2[x].is_active = TRUE
  PROVE  Told(table2, log2, x)
<1>1. PICK w : w = table2[x]
  OBVIOUS
<1>2. Rows0[x] = NoRow
  BY DEF Told, RegisteredIn
<1>3. w # NoRow /\ w = [f \in DOMAIN w |-> w[f]]
  BY <1>1, BackendAssumption DEF UserRow
<1>4. RegisteredIn(table2, x) = AsRegistered(w)
  BY <1>1, <1>2, <1>3 DEF RegisteredIn, AsRegistered
<1>5. AsRegistered(w) = w
  <2>1. AsRegistered(w) = [f \in DOMAIN w |-> AsRegistered(w)[f]]
    BY DEF AsRegistered
  <2>2. \A f \in DOMAIN w : AsRegistered(w)[f] = w[f]
    BY <1>1, RegisteredFields
  <2>. QED
    BY <1>3, <2>1, <2>2
<1>. QED
  BY <1>1, <1>4, <1>5 DEF Told, SettingIn, LatestIn

\* The log after the commit of r: its events are no longer pending.
Commits(log, log2, r) ==
  /\ DOMAIN log2 = DOMAIN log
  /\ \A n \in DOMAIN log :
       /\ log2[n].req = log[n].req /\ log2[n].kind = log[n].kind
       /\ log2[n].resource = log[n].resource /\ log2[n].changes = log[n].changes
       /\ log2[n].committed <=> log[n].committed \/ log[n].req = r

LEMMA EventCommitted ==
  ASSUME NEW e, EventOK(e)
  PROVE  LET c == [e EXCEPT !.committed = TRUE] IN
         /\ c.req = e.req /\ c.kind = e.kind /\ c.resource = e.resource /\ c.changes = e.changes
         /\ c.committed
<1>1. PICK c : c = [e EXCEPT !.committed = TRUE]
  OBVIOUS
<1>2. e \in [req : {e.req}, kind : {e.kind}, resource : Resource, changes : {e.changes},
             actor : {e.actor}, committed : BOOLEAN, role : Role]
  BY DEF EventOK
<1>3. c.req = e.req /\ c.kind = e.kind /\ c.resource = e.resource /\ c.changes = e.changes
  BY <1>1, <1>2
<1>4. c.committed = TRUE
  BY <1>1, <1>2
<1>. QED
  BY <1>1, <1>3, <1>4

LEMMA CommitsTrail ==
  ASSUME IInv, NEW r \in Request, Commit(r)
  PROVE  Commits(audit, audit', r)
<1>1. PICK log, log2 : log = audit /\ log2 = audit'
  OBVIOUS
<1>2. log2 = [n \in DOMAIN log |->
                IF log[n].req = r THEN [log[n] EXCEPT !.committed = TRUE] ELSE log[n]]
  BY <1>1 DEF Commit
<1>3. PICK S : log \in Seq(S) /\ \A e \in S : EventOK(e)
  BY <1>1 DEF IInv, TrailOK
<1>4. ASSUME NEW n \in DOMAIN log
      PROVE  /\ log2[n].req = log[n].req /\ log2[n].kind = log[n].kind
             /\ log2[n].resource = log[n].resource /\ log2[n].changes = log[n].changes
             /\ log2[n].committed <=> log[n].committed \/ log[n].req = r
  <2>1. PICK e : e = log[n]
    OBVIOUS
  <2>2. EventOK(e)
    BY <1>3, <2>1
  <2>3. CASE e.req = r
    <3>1. log2[n] = [e EXCEPT !.committed = TRUE]
      BY <1>2, <2>1, <2>3
    <3>. QED
      BY <2>1, <2>2, <2>3, <3>1, EventCommitted
  <2>4. CASE e.req # r
    <3>1. log2[n] = e
      BY <1>2, <2>1, <2>4
    <3>. QED
      BY <2>1, <2>4, <3>1
  <2>. QED
    BY <2>3, <2>4
<1>5. DOMAIN log2 = DOMAIN log
  BY <1>2
<1>. QED
  BY <1>1, <1>4, <1>5 DEF Commits

\* The sessions after a commit are at the same operations.
LEMMA CommitSessions ==
  ASSUME IInv, NEW r \in Request, Commit(r)
  PROVE  /\ req[r].pc = "written" /\ req'[r].pc \in {"reread", "ended"}
         /\ \A q \in Request : req'[q].op = req[q].op /\ req'[q].target = req[q].target
         /\ \A q \in Request \ {r} : req'[q].pc = req[q].pc /\ req'[q].seen = req[q].seen
<1>1. /\ At(r, "written")
      /\ req' = [q \in Request |-> IF q = r THEN DoneAfter(req[r]) ELSE Noticed(req[q], rows')]
  BY CommitFacts
<1>2. PICK s, d : s = req[r] /\ d = DoneAfter(req[r])
  OBVIOUS
<1>3. d.pc \in {"reread", "ended"} /\ d.op = s.op /\ d.target = s.target
  <2>1. IsSession(s)
    BY <1>2, SessionFacts DEF Shape
  <2>2. PICK a : a = Success(s.op.kind)
    OBVIOUS
  <2>3. d = AtPc(s, "reread") \/ d = Ended(s, a)
    BY <1>2, <2>2 DEF DoneAfter
  <2>. QED
    BY <2>1, <2>3, PcFields, EndedFields
<1>4. ASSUME NEW q \in Request, NEW table
      PROVE  LET t == Noticed(req[q], table) IN
             t.pc = req[q].pc /\ t.op = req[q].op /\ t.target = req[q].target /\ t.seen = req[q].seen
  <2>1. PICK p, t : p = req[q] /\ t = Noticed(req[q], table)
    OBVIOUS
  <2>2. PICK must, touched : t = NoticedAs(p, must, touched)
    BY <2>1 DEF Noticed, NoticedAs
  <2>3. IsSession(p)
    BY <2>1, SessionFacts DEF Shape
  <2>. QED
    BY <2>1, <2>2, <2>3, NoticedFields
<1>5. req'[r] = d /\ \A q \in Request \ {r} : req'[q] = Noticed(req[q], rows')
  BY <1>1, <1>2
<1>. QED
  BY <1>1, <1>2, <1>3, <1>4, <1>5 DEF At

LEMMA CommitLog ==
  ASSUME IInv, AuditInv, NEW r \in Request, Commit(r)
  PROVE  LogOK(audit', req')
<1>1. PICK old, new, log, log2 : old = req /\ new = req' /\ log = audit /\ log2 = audit'
  OBVIOUS
<1>2. Commits(log, log2, r) /\ LogOK(log, old)
  BY <1>1, CommitsTrail DEF AuditInv
<1>3. /\ old[r].pc = "written" /\ new[r].pc \in {"reread", "ended"}
      /\ \A q \in Request : new[q].op = old[q].op /\ new[q].target = old[q].target
      /\ \A q \in Request \ {r} : new[q].pc = old[q].pc /\ new[q].seen = old[q].seen
  BY <1>1, CommitSessions
<1>4. ASSUME NEW q \in Request PROVE Silent(new[q]) => Silent(old[q])
  BY <1>3 DEF Silent
<1>5. ASSUME NEW n \in DOMAIN log PROVE OwnerOK(new, log2[n])
  <2>1. PICK e, c, q : e = log[n] /\ c = log2[n] /\ q = log[n].req
    OBVIOUS
  <2>2. /\ c.req = q /\ c.kind = e.kind /\ c.resource = e.resource /\ c.changes = e.changes
        /\ c.committed <=> e.committed \/ q = r
    BY <1>2, <2>1 DEF Commits
  <2>3. q \in Request /\ ~Silent(old[q]) /\ old[q].target = e.resource
    BY <1>2, <2>1 DEF LogOK, OwnerOK
  <2>4. ~e.committed => old[q].pc = "written" /\ Wanted(old[q], e)
    BY <1>2, <2>1 DEF LogOK, OwnerOK
  <2>5. ~c.committed => new[q].pc = "written" /\ Wanted(new[q], c)
    BY <1>3, <2>2, <2>3, <2>4 DEF Wanted
  <2>. QED
    BY <1>3, <1>4, <2>1, <2>2, <2>3, <2>5 DEF OwnerOK
<1>6. ASSUME NEW m \in DOMAIN log, NEW n \in DOMAIN log PROVE OrderOK(log2, m, n)
  <2>1. OrderOK(log, m, n)
    BY <1>2 DEF LogOK
  <2>. QED
    BY <1>2, <2>1 DEF OrderOK, Commits
<1>7. ASSUME NEW q \in Request PROVE RecordOK(log2, new[q], q)
  <2>1. RecordOK(log, old[q], q)
    BY <1>2 DEF LogOK
  <2>2. CASE q = r
    BY <1>3, <2>2 DEF RecordOK
  <2>3. CASE q # r
    BY <1>2, <1>3, <2>1, <2>3 DEF RecordOK, Commits
  <2>. QED
    BY <2>2, <2>3
<1>8. DOMAIN log2 = DOMAIN log
  BY <1>2 DEF Commits
<1>9. LogOK(log2, new)
  BY <1>5, <1>6, <1>7, <1>8 DEF LogOK
<1>. QED
  BY <1>1, <1>9

\* The UPDATE sets what its event says.
LEMMA AppliedFields ==
  ASSUME NEW row, NEW seen, NEW want
  PROVE  /\ DOMAIN Applied(row, seen, want) = DOMAIN row
         /\ \A f \in DOMAIN row :
              Applied(row, seen, want)[f] =
                IF f \in DOMAIN Changes(seen, want) THEN Changes(seen, want)[f].to ELSE row[f]
<1>1. PICK D, ch : D = {g \in DOMAIN want : seen[g] # want[g]} /\ ch = Changes(seen, want)
  OBVIOUS
<1>2. DOMAIN ch = D /\ \A f \in D : ch[f].to = want[f]
  BY <1>1 DEF Changes
<1>3. Applied(row, seen, want) = [f \in DOMAIN row |-> IF f \in D THEN want[f] ELSE row[f]]
  BY <1>1, <1>2 DEF Applied
<1>. QED
  BY <1>1, <1>2, <1>3

\* The row of a resource the commit of r does not write, and the one it does.
LEMMA CommitToldOther ==
  ASSUME IInv, AuditInv, NEW r \in Request, Commit(r), NEW y \in Resource, y # req[r].target
  PROVE  Told(rows', audit', y)
<1>1. PICK log, log2 : log = audit /\ log2 = audit'
  OBVIOUS
<1>2. Commits(log, log2, r) /\ LogOK(log, req) /\ Told(rows, log, y)
  BY <1>1, CommitsTrail DEF AuditInv
<1>3. rows'[y] = rows[y]
  BY CommitFacts DEF Keeps
<1>4. \A n \in DOMAIN log : log[n].req = r => log[n].resource # y
  BY <1>2 DEF LogOK, OwnerOK
<1>5. AboutIn(log2, y) = AboutIn(log, y)
  BY <1>2, <1>4 DEF AboutIn, Commits
<1>6. \A n \in AboutIn(log, y) : log2[n].kind = log[n].kind /\ log2[n].changes = log[n].changes
  BY <1>2 DEF AboutIn, Commits
<1>7. Told(rows', log2, y)
  BY <1>2, <1>3, <1>5, <1>6, ToldSame
<1>. QED
  BY <1>1, <1>7

\* The event of the transaction that commits.
LEMMA CommitEvent ==
  ASSUME IInv, AuditInv, NEW r \in Request, Commit(r), req[r].op.kind # "register"
  PROVE  \E k \in DOMAIN audit :
           /\ ~audit[k].committed /\ audit[k].resource = req[r].target /\ Wanted(req[r], audit[k])
           /\ AboutIn(audit', req[r].target) = AboutIn(audit, req[r].target) \cup {k}
<1>1. PICK s, x, log, log2 : s = req[r] /\ x = req[r].target /\ log = audit /\ log2 = audit'
  OBVIOUS
<1>2. Commits(log, log2, r) /\ LogOK(log, req) /\ s.pc = "written"
  BY <1>1, CommitsTrail, CommitSessions DEF AuditInv
<1>3. PICK k \in DOMAIN log : log[k].req = r /\ ~log[k].committed
  BY <1>1, <1>2 DEF LogOK, RecordOK
<1>4. log[k].resource = x /\ Wanted(s, log[k])
  BY <1>1, <1>2, <1>3 DEF LogOK, OwnerOK
<1>5. \A n \in DOMAIN log : log[n].req = r /\ ~log[n].committed => n = k
  BY <1>2, <1>3 DEF LogOK, OrderOK
<1>6. AboutIn(log2, x) = AboutIn(log, x) \cup {k}
  BY <1>2, <1>3, <1>4, <1>5 DEF AboutIn, Commits
<1>. QED
  BY <1>1, <1>3, <1>4, <1>6

LEMMA CommitToldChange ==
  ASSUME IInv, AuditInv, NEW r \in Request, Commit(r), req[r].op.kind \in Changing
  PROVE  Told(rows', audit', req[r].target)
<1>1. PICK s, x, log, log2 : s = req[r] /\ x = req[r].target /\ log = audit /\ log2 = audit'
  OBVIOUS
<1>2. PICK old, new, row, w : /\ old = rows /\ new = rows' /\ row = rows[req[r].target]
                              /\ w = WrittenRow(r)
  OBVIOUS
<1>3. PICK k \in DOMAIN log : /\ ~log[k].committed /\ log[k].resource = x /\ Wanted(s, log[k])
                              /\ AboutIn(log2, x) = AboutIn(log, x) \cup {k}
  BY <1>1, CommitEvent DEF Changing
<1>4. PICK ch : ch = Changes(s.seen, s.op.want)
  OBVIOUS
<1>5. log[k].kind = s.op.kind /\ log[k].changes = ch /\ s.op.kind \in Changing
  BY <1>1, <1>3, <1>4 DEF Wanted
<1>6. Commits(log, log2, r) /\ LogOK(log, req) /\ DOMAIN log \subseteq Nat
  BY <1>1, CommitsTrail, Indices DEF AuditInv, IInv
<1>7. /\ log2[k].kind # "delete" /\ log2[k].changes = ch
      /\ \A n \in AboutIn(log, x) : log2[n].kind = log[n].kind /\ log2[n].changes = log[n].changes
  BY <1>5, <1>6 DEF AboutIn, Commits, Changing
<1>8. k \in Nat /\ k \notin AboutIn(log, x) /\ \A n \in AboutIn(log, x) : n \in Nat /\ n <= k
  BY <1>3, <1>5, <1>6 DEF AboutIn, LogOK, OrderOK
<1>9. At(r, "written") /\ new[x] = w /\ Stores(s, old, x, w)
  BY <1>1, <1>2, CommitFacts
<1>10. w = Applied(row, s.seen, s.op.want)
  BY <1>1, <1>2, <1>5 DEF WrittenRow, Kinds, Changing
<1>11. row # NoRow /\ w # NoRow
  <2>1. /\ s.pc = "written" /\ Shape(s) /\ TargetOK(s, old) /\ Operation(s.op)
    BY <1>1, <1>2, <1>9, SessionFacts DEF At
  <2>2. CASE s.op.kind \in {"role", "status"}
    <3>1. x \in User /\ w \in UserRow /\ row \in UserRow
      BY <1>1, <1>2, <1>9, <2>2 DEF Stores
    <3>. QED
      BY <3>1, BackendAssumption
  <2>3. CASE s.op.kind = "update"
    <3>1. x \in Incident /\ row # NoRow /\ IncidentUpdate(s.op.want)
      BY <1>1, <1>2, <2>1, <2>3 DEF TargetOK, Works, Wrote, Operation, Changing
    <3>2. row \in IncidentRow
      BY <1>1, <1>2, <3>1 DEF IInv, TableOK
    <3>3. w \in IncidentRow
      BY <1>10, <3>1, <3>2, IncidentUpdated
    <3>. QED
      BY <3>1, <3>3, BackendAssumption
  <2>. QED
    BY <1>5, <2>2, <2>3 DEF Changing
<1>12. DOMAIN w = DOMAIN row /\ \A f \in DOMAIN row : w[f] = IF f \in DOMAIN ch THEN ch[f].to ELSE row[f]
  BY <1>4, <1>10, AppliedFields
<1>13. ASSUME NEW f \in DOMAIN row \ DOMAIN ch
       PROVE  RegisteredIn(new, x)[f] = RegisteredIn(old, x)[f]
  <2>1. CASE Rows0[x] = NoRow /\ x \in User
    <3>1. RegisteredIn(new, x) = AsRegistered(w) /\ RegisteredIn(old, x) = AsRegistered(row)
      BY <1>1, <1>2, <1>9, <1>11, <2>1 DEF RegisteredIn, AsRegistered
    <3>2. w[f] = row[f] /\ f \in DOMAIN w
      BY <1>12, <1>13
    <3>3. AsRegistered(w)[f] = AsRegistered(row)[f]
      BY <1>13, <3>2, RegisteredFields
    <3>. QED
      BY <3>1, <3>3
  <2>2. CASE ~(Rows0[x] = NoRow /\ x \in User)
    BY <2>2 DEF RegisteredIn
  <2>. QED
    BY <2>1, <2>2
<1>14. Told(old, log, x)
  <2>1. x \in Resource
    BY <1>9 DEF Stores, Resource
  <2>. QED
    BY <1>1, <1>2, <2>1 DEF AuditInv
<1>15. old[x] = row
  BY <1>1, <1>2
<1>16. Told(new, log2, x)
  BY <1>3, <1>7, <1>8, <1>9, <1>11, <1>12, <1>13, <1>14, <1>15, ToldChange
<1>. QED
  BY <1>1, <1>2, <1>16

LEMMA CommitToldCreate ==
  ASSUME IInv, AuditInv, NEW r \in Request, Commit(r), req[r].op.kind = "create"
  PROVE  Told(rows', audit', req[r].target)
<1>1. PICK s, x, log, log2 : s = req[r] /\ x = req[r].target /\ log = audit /\ log2 = audit'
  OBVIOUS
<1>2. PICK row, ch : row = NewIncident(s.op.want) /\ ch = AllNew(NewIncident(s.op.want))
  OBVIOUS
<1>3. PICK k \in DOMAIN log : /\ ~log[k].committed /\ log[k].resource = x /\ Wanted(s, log[k])
                              /\ AboutIn(log2, x) = AboutIn(log, x) \cup {k}
  BY <1>1, CommitEvent
<1>4. Commits(log, log2, r) /\ LogOK(log, req)
  BY <1>1, CommitsTrail DEF AuditInv
<1>5. log2[k].kind = "create" /\ log2[k].changes = ch
  BY <1>1, <1>2, <1>3, <1>4 DEF Wanted, Commits
<1>6. AboutIn(log, x) = {}
  <2>1. log[k].kind = "create"
    BY <1>1, <1>3 DEF Wanted
  <2>. QED
    BY <1>3, <1>4, <2>1 DEF AboutIn, LogOK, OrderOK
<1>7. rows'[x] = row
  <2>1. WrittenRow(r) = row
    BY <1>1, <1>2 DEF WrittenRow, Kinds, Changing
  <2>. QED
    BY <1>1, <2>1, CommitFacts
<1>8. row # NoRow
  <2>1. s.op.want \in IncidentCreate
    <3>1. Operation(s.op)
      BY <1>1, CommitFacts, SessionFacts DEF At
    <3>. QED
      BY <1>1, <3>1 DEF Operation
  <2>2. row \in IncidentRow
    BY <1>2, <2>1 DEF NewIncident, IncidentCreate, IncidentRow, Status
  <2>. QED
    BY <2>2, BackendAssumption
<1>9. DOMAIN ch = DOMAIN row /\ \A f \in DOMAIN ch : ch[f].to = row[f]
  BY <1>2 DEF AllNew
<1>10. Told(rows', log2, x)
  BY <1>3, <1>5, <1>6, <1>7, <1>8, <1>9, ToldCreate
<1>. QED
  BY <1>1, <1>10

LEMMA CommitRecorded ==
  ASSUME IInv, AuditInv, NEW r \in Request, Commit(r)
  PROVE  AuditInv'
<1>1. PICK s, x, log, log2 : s = req[r] /\ x = req[r].target /\ log = audit /\ log2 = audit'
  OBVIOUS
<1>2. KindOK(s) /\ s.pc = "written" /\ rows'[x] = WrittenRow(r) /\ Stores(s, rows, x, rows'[x])
  BY <1>1, CommitFacts, SessionFacts DEF At
<1>3. ASSUME s.op.kind \in Changing PROVE Told(rows', log2, x)
  BY <1>1, <1>3, CommitToldChange
<1>4. ASSUME s.op.kind = "create" PROVE Told(rows', log2, x)
  BY <1>1, <1>4, CommitToldCreate
<1>5. ASSUME s.op.kind = "delete" PROVE Told(rows', log2, x)
  <2>1. PICK k \in DOMAIN log : Wanted(s, log[k]) /\ AboutIn(log2, x) = AboutIn(log, x) \cup {k}
    BY <1>1, <1>5, CommitEvent
  <2>2. log2[k].kind = "delete"
    BY <1>1, <1>5, <2>1, CommitsTrail DEF Commits, Wanted
  <2>3. rows'[x] = NoRow
    BY <1>1, <1>2, <1>5 DEF WrittenRow, Kinds, Changing, Deleted
  <2>. QED
    BY <2>1, <2>2, <2>3, ToldDelete
<1>6. ASSUME s.op.kind = "register" PROVE Told(rows', log2, x)
  <2>1. \A n \in DOMAIN log : log[n].resource # x
    BY <1>1, <1>2, <1>6 DEF AuditInv, LogOK, RecordOK
  <2>2. AboutIn(log, x) = {} /\ AboutIn(log2, x) = {}
    BY <1>1, <2>1, CommitsTrail DEF AboutIn, Commits
  <2>3. x \in User /\ rows[x] = NoRow /\ rows'[x] \in UserRow
    BY <1>2, <1>6 DEF Stores
  <2>4. Told(rows, log, x)
    BY <1>1, <2>3 DEF AuditInv, Resource
  <2>5. rows'[x] = NewUser(s.op.want)
    BY <1>1, <1>2, <1>6 DEF WrittenRow, Kinds, Changing
  <2>6. rows'[x].role = "viewer" /\ rows'[x].is_active = TRUE
    BY <2>5 DEF NewUser
  <2>. QED
    BY <2>2, <2>3, <2>4, <2>6, ToldRegister
<1>7. Told(rows', audit', x)
  BY <1>1, <1>2, <1>3, <1>4, <1>5, <1>6 DEF KindOK
<1>8. \A y \in Resource : Told(rows', audit', y)
  BY <1>1, <1>7, CommitToldOther
<1>. QED
  BY <1>8, CommitLog DEF AuditInv

-----------------------------------------------------------------------------
(* The invariant of the trail                                              *)

LEMMA AuditInitial == Init => AuditInv
<1>. SUFFICES ASSUME Init PROVE AuditInv
  OBVIOUS
<1>1. DOMAIN audit = {} /\ rows = Rows0
  BY DEF Init
<1>2. \A r \in Request : req[r].pc = "idle"
  BY DEF Init, Blank
<1>3. LogOK(audit, req)
  BY <1>1, <1>2 DEF LogOK, RecordOK
<1>4. ASSUME NEW x \in Resource PROVE Told(rows, audit, x)
  <2>1. RegisteredIn(rows, x) = rows[x]
    BY <1>1 DEF RegisteredIn
  <2>. QED
    BY <1>1, <2>1 DEF Told, AboutIn, SettingIn, LatestIn
<1>. QED
  BY <1>3, <1>4 DEF AuditInv

LEMMA AuditInductive == IInv /\ AuditInv /\ [Next]_vars => AuditInv'
<1>. SUFFICES ASSUME IInv, AuditInv, [Next]_vars PROVE AuditInv'
  OBVIOUS
<1>1. CASE UNCHANGED vars
  BY <1>1 DEF AuditInv, vars
<1>2. CASE Next
  <2>1. PICK r \in Request :
          \/ \E op \in Ops : Authorise(r, op) \/ LookUp(r, op) \/ LogIn(r, op) \/ Bootstrap(r, op)
          \/ Load(r) \/ Write(r) \/ WriteNew(r) \/ Insert(r) \/ NextStage(r)
          \/ CountByStatus(r) \/ CountBySeverity(r) \/ CountAffected(r) \/ ReadPage(r)
          \/ Commit(r) \/ Fail(r)
    BY <1>2 DEF Next
  <2>2. CASE \E op \in Ops :
               Authorise(r, op) \/ LookUp(r, op) \/ LogIn(r, op) \/ Bootstrap(r, op)
    BY <2>2, AuthoriseCalm, LookUpCalm, LogInCalm, BootstrapCalm
  <2>3. CASE Load(r) \/ Insert(r) \/ NextStage(r)
    BY <2>3, LoadCalm, InsertCalm, NextStageCalm
  <2>4. CASE CountByStatus(r) \/ CountBySeverity(r) \/ CountAffected(r) \/ ReadPage(r)
    BY <2>4, CountCalm, ReadPageCalm
  <2>5. CASE Write(r) \/ WriteNew(r) \/ Commit(r) \/ Fail(r)
    BY <2>5, WriteRecorded, WriteNewRecorded, CommitRecorded, FailRecorded
  <2>. QED
    BY <2>1, <2>2, <2>3, <2>4, <2>5
<1>. QED
  BY <1>1, <1>2

LEMMA AuditInvariance == Spec => []AuditInv
<1>. QED
  BY AuditInitial, AuditInductive, Invariance, PTL DEF Spec

\* The smallest of some numbers, the latest of some entries of a log.
LEMMA Smallest ==
  ASSUME NEW T, T \subseteq Nat, T # {}
  PROVE  \E m \in T : \A n \in T : m <= n
<1> DEFINE R == OpToRel(<, Nat)
<1>1. IsWellFoundedOn(R, Nat)
  BY NatLessThanWellFounded
<1>2. \A x, y \in Nat : x < y => <<x, y>> \in R
  BY DEF OpToRel
<1>. HIDE DEF R
<1>3. PICK m \in T : \A n \in T : <<n, m>> \notin R
  BY <1>1, WFMin
<1>4. ASSUME NEW n \in T PROVE m <= n
  <2>1. m \in Nat /\ n \in Nat
    OBVIOUS
  <2>2. ~(n < m)
    BY <1>2, <1>3, <2>1
  <2>. QED
    BY <2>1, <2>2
<1>. QED
  BY <1>4

LEMMA Latest ==
  ASSUME NEW N \in Nat, NEW S, S \subseteq 1 .. N, S # {}
  PROVE  Max(S) \in S /\ \A n \in S : n <= Max(S)
<1>1. PICK T : T = {N - n : n \in S}
  OBVIOUS
<1>2. \A n \in S : N - n \in Nat /\ N - n \in T /\ n \in Nat
  BY <1>1
<1>3. T \subseteq Nat /\ T # {}
  BY <1>1, <1>2
<1>4. PICK m \in T : \A n \in T : m <= n
  BY <1>3, Smallest
<1>5. PICK k \in S : m = N - k
  BY <1>1, <1>4
<1>6. \A n \in S : k >= n
  BY <1>2, <1>4, <1>5
<1>7. Max(S) \in S /\ \A n \in S : Max(S) >= n
  BY <1>5, <1>6 DEF Max
<1>. QED
  BY <1>7

-----------------------------------------------------------------------------
(* The listings                                                            *)
(*                                                                         *)
(* What a listing still has to return is visible and has at least as many  *)
(* items before it as pages were read; no step of another session that     *)
(* keeps the items visible takes an item away from before another.         *)

\* The order of the model for any log.  An event is known by its request and
\* kind, since a request has one event of a kind.
EventIn(log, e) == CHOOSE n \in DOMAIN log : <<log[n].req, log[n].kind>> = e
CreationIn(log, i) == {n \in DOMAIN log : log[n].resource = i /\ log[n].kind = "create"}
CreatedIn(log, i) == Max(CreationIn(log, i) \cup {0})
NewerIn(log, op, x, y) ==
  IF op.kind = "list_audit" THEN EventIn(log, x) > EventIn(log, y)
  ELSE \/ CreatedIn(log, x) > CreatedIn(log, y)
       \/ CreatedIn(log, x) = CreatedIn(log, y) /\ IdPlace[x] > IdPlace[y]
BeforeIn(table, log, op, y) == {x \in Visible(op, table, log) : NewerIn(log, op, x, y)}

ListOK(s, table, log) ==
  /\ s.pc = "reading" => s.op.kind \in Listing
  /\ s.op.kind \in Listing =>
       /\ s.pc = "authorised" => s.page = 0
       /\ s.pc = "reading" =>
            /\ s.page \in Nat
            /\ \A y \in s.must \ s.got :
                 /\ y \in Visible(s.op, table, log)
                 /\ s.page <= Cardinality(BeforeIn(table, log, s.op, y))
       /\ s.pc = "ended" /\ s.answer = 200 => s.must \subseteq s.got

\* The events of a request: of its operation, once it has written, and of the
\* stage before, if it is the command.
Once(log) ==
  \A m, n \in DOMAIN log : log[m].req = log[n].req /\ log[m].kind = log[n].kind => m = n
DoneOK(s, e) ==
  \/ e.kind = s.op.kind /\ s.pc \in {"written", "reread", "ended"}
  \/ e.kind = "role" /\ s.op.kind = "status"

ListInv ==
  /\ Once(audit)
  /\ \A n \in DOMAIN audit : DoneOK(req[audit[n].req], audit[n])
  /\ \A r \in Request : ListOK(req[r], rows, audit)

LEMMA CreatedFacts ==
  ASSUME NEW log, TrailOK(log), NEW i
  PROVE  LET c == CreatedIn(log, i)  S == CreationIn(log, i) IN
         /\ c \in Nat /\ (S = {} => c = 0) /\ (S # {} => c \in S) /\ \A n \in S : n <= c
<1>1. PICK N, S, T : N = Len(log) /\ S = CreationIn(log, i) /\ T = CreationIn(log, i) \cup {0}
  OBVIOUS
<1>2. N \in Nat /\ S \subseteq 1 .. N
  BY <1>1, Indices DEF CreationIn
<1>3. \E c \in T : \A n \in T : c >= n
  <2>1. CASE S = {}
    BY <1>1, <2>1
  <2>2. CASE S # {}
    <3>1. Max(S) \in S /\ \A n \in S : n <= Max(S)
      BY <1>2, <2>2, Latest
    <3>2. PICK c : c = Max(S)
      OBVIOUS
    <3>3. c \in T /\ \A n \in T : c >= n
      BY <1>1, <1>2, <3>1, <3>2
    <3>. QED
      BY <3>3
  <2>. QED
    BY <2>1, <2>2
<1>4. PICK c : c = CreatedIn(log, i)
  OBVIOUS
<1>5. c \in T /\ \A n \in T : c >= n
  BY <1>1, <1>3, <1>4 DEF CreatedIn, Max
<1>. QED
  BY <1>1, <1>2, <1>4, <1>5

LEMMA EventOnce ==
  ASSUME NEW log, Once(log), NEW n \in DOMAIN log, NEW e, e = <<log[n].req, log[n].kind>>
  PROVE  EventIn(log, e) = n
<1>1. \A m \in DOMAIN log : <<log[m].req, log[m].kind>> = e => m = n
  BY DEF Once
<1>. QED
  BY <1>1 DEF EventIn

\* The items of a listing are finitely many, in a strict total order.
LEMMA VisibleFinite ==
  ASSUME NEW table, TableOK(table), NEW log, TrailOK(log), NEW op
  PROVE  IsFiniteSet(Visible(op, table, log))
<1>1. CASE op.kind = "list_audit"
  <2>1. PICK C : C = {m \in DOMAIN log : log[m].committed}
    OBVIOUS
  <2>2. PICK V : V = Visible(op, table, log)
    OBVIOUS
  <2>3. V = {<<log[n].req, log[n].kind>> : n \in C}
    BY <1>1, <2>1, <2>2 DEF Visible
  <2>4. PICK f : f = [n \in C |-> <<log[n].req, log[n].kind>>]
    OBVIOUS
  <2>5. f \in Surjection(C, V)
    BY <2>3, <2>4 DEF Surjection
  <2>6. IsFiniteSet(C)
    <3>1. Len(log) \in Nat /\ DOMAIN log = 1 .. Len(log)
      BY Indices
    <3>2. IsFiniteSet(1 .. Len(log))
      BY <3>1, FS_Interval
    <3>3. C \in SUBSET (1 .. Len(log))
      BY <2>1, <3>1
    <3>. QED
      BY <3>2, <3>3, FS_Subset
  <2>. QED
    BY <2>2, <2>5, <2>6, FS_Surjection
<1>2. CASE op.kind # "list_audit"
  <2>1. Visible(op, table, log) \in SUBSET Incidents(table)
    BY <1>2 DEF Visible
  <2>. QED
    BY <2>1, FS_Subset DEF TableOK
<1>. QED
  BY <1>1, <1>2

LEMMA VisibleOrder ==
  ASSUME NEW table, NEW log, TrailOK(log), NEW op, NEW V, V = Visible(op, table, log)
  PROVE  /\ \A x \in V : ~NewerIn(log, op, x, x)
         /\ \A x, y, z \in V : NewerIn(log, op, x, y) /\ NewerIn(log, op, y, z)
                                 => NewerIn(log, op, x, z)
         /\ \A x, y \in V : x # y => NewerIn(log, op, x, y) \/ NewerIn(log, op, y, x)
<1>1. CASE op.kind = "list_audit"
  <2>1. ASSUME NEW x \in V
        PROVE  LET n == EventIn(log, x) IN n \in Nat /\ x = <<log[n].req, log[n].kind>>
    <3>1. \E n \in DOMAIN log : <<log[n].req, log[n].kind>> = x
      BY <1>1, <2>1 DEF Visible
    <3>2. EventIn(log, x) \in DOMAIN log
          /\ <<log[EventIn(log, x)].req, log[EventIn(log, x)].kind>> = x
      BY <3>1 DEF EventIn
    <3>. QED
      BY <3>2, Indices
  <2>2. PICK at : at = [x \in V |-> EventIn(log, x)]
    OBVIOUS
  <2>3. \A x \in V : at[x] \in Nat /\ x = <<log[at[x]].req, log[at[x]].kind>>
    BY <2>1, <2>2
  <2>4. \A x, y \in V : NewerIn(log, op, x, y) <=> at[x] > at[y]
    BY <1>1, <2>2 DEF NewerIn
  <2>. QED
    BY <2>3, <2>4
<1>2. CASE op.kind # "list_audit"
  <2>1. V \subseteq Incident
    BY <1>2 DEF Visible, Incidents
  <2>2. PICK at : at = [x \in V |-> CreatedIn(log, x)]
    OBVIOUS
  <2>3. \A x \in V : at[x] \in Nat /\ IdPlace[x] \in Nat
    BY <2>1, <2>2, CreatedFacts, BackendAssumption
  <2>4. \A x, y \in V : IdPlace[x] = IdPlace[y] => x = y
    BY <2>1, BackendAssumption
  <2>5. \A x, y \in V :
          NewerIn(log, op, x, y) <=> at[x] > at[y] \/ (at[x] = at[y] /\ IdPlace[x] > IdPlace[y])
    BY <1>2, <2>2 DEF NewerIn
  <2>6. \A x \in V : ~NewerIn(log, op, x, x)
    BY <2>3, <2>5
  <2>7. \A x, y \in V : x # y => NewerIn(log, op, x, y) \/ NewerIn(log, op, y, x)
    BY <2>3, <2>4, <2>5
  <2>8. \A x, y, z \in V : NewerIn(log, op, x, y) /\ NewerIn(log, op, y, z)
                             => NewerIn(log, op, x, z)
    BY <2>3, <2>5
  <2>. QED
    BY <2>6, <2>7, <2>8
<1>. QED
  BY <1>1, <1>2

\* In a finite strict total order, where before[x] is what precedes x, an item
\* with n others or more before it is on page n or on a later one, and no page
\* is empty before the last.
LEMMA Pages ==
  ASSUME NEW S, IsFiniteSet(S), NEW before \in [S -> SUBSET S], NEW n \in Nat,
         \A x \in S : x \notin before[x],
         \A x, y, z \in S : x \in before[y] /\ y \in before[z] => x \in before[z],
         \A x, y \in S : x # y => x \in before[y] \/ y \in before[x],
         \A x \in S : Cardinality(before[x]) # n
  PROVE  \A x \in S : Cardinality(before[x]) < n
<1>1. PICK count : count = [x \in S |-> Cardinality(before[x])]
  OBVIOUS
<1>2. \A x \in S : /\ IsFiniteSet(before[x]) /\ before[x] \subseteq S
                   /\ count[x] = Cardinality(before[x]) /\ count[x] \in Nat /\ count[x] # n
  BY <1>1, FS_Subset, FS_CardinalityType
<1>3. ASSUME NEW x \in S, NEW y \in S, x \in before[y] PROVE count[x] < count[y]
  <2>1. before[x] \in SUBSET before[y] /\ before[x] # before[y]
    BY <1>2, <1>3
  <2>. QED
    BY <1>2, <2>1, FS_Subset
<1>4. SUFFICES ASSUME NEW w \in S, count[w] > n PROVE FALSE
  BY <1>2
<1>5. PICK T : T = {c \in Nat : c > n /\ \E x \in S : count[x] = c}
  OBVIOUS
<1>6. PICK m \in T : \A c \in T : m <= c
  <2>1. T \subseteq Nat /\ count[w] \in T
    BY <1>2, <1>4, <1>5
  <2>. QED
    BY <2>1, Smallest
<1>7. PICK y \in S : count[y] = m
  BY <1>5, <1>6
<1>8. PICK f : f = [x \in before[y] |-> count[x]]
  OBVIOUS
<1>9. m \in Nat /\ m > n
  BY <1>5, <1>6
<1>10. ASSUME NEW x \in before[y] PROVE f[x] \in 0 .. n - 1
  <2>1. x \in S /\ count[x] < m /\ count[x] \in Nat
    BY <1>2, <1>3, <1>7
  <2>2. count[x] \notin T
    BY <1>6, <1>9, <2>1
  <2>3. ~(count[x] > n) /\ count[x] # n
    BY <1>2, <1>5, <2>1, <2>2
  <2>. QED
    BY <1>8, <2>1, <2>3
<1>11. ASSUME NEW x \in before[y], NEW z \in before[y], x # z PROVE f[x] # f[z]
  <2>1. x \in S /\ z \in S
    BY <1>2, <1>7
  <2>2. count[x] < count[z] \/ count[z] < count[x]
    BY <1>3, <1>11, <2>1
  <2>. QED
    BY <1>2, <1>8, <2>1, <2>2
<1>12. f \in Injection(before[y], 0 .. n - 1)
  <2>1. f \in [before[y] -> 0 .. n - 1]
    BY <1>8, <1>10
  <2>. QED
    BY <1>11, <2>1 DEF Injection, IsInjective
<1>13. IsFiniteSet(0 .. n - 1) /\ Cardinality(0 .. n - 1) = n
  BY FS_Interval
<1>14. Cardinality(before[y]) <= n
  BY <1>12, <1>13, FS_Injection
<1>. QED
  BY <1>2, <1>7, <1>9, <1>14

-----------------------------------------------------------------------------
(* Steps that change no row and no event                                   *)

LEMMA ListStep ==
  ASSUME IInv, ListInv, NEW r \in Request, NEW t, Set(r, t), UNCHANGED <<rows, audit>>,
         ListOK(t, rows, audit), \A n \in DOMAIN audit : audit[n].req = r => DoneOK(t, audit[n])
  PROVE  ListInv'
<1>1. PICK old, new, log : old = req /\ new = req' /\ log = audit
  OBVIOUS
<1>2. new[r] = t /\ \A q \in Request \ {r} : new[q] = old[q]
  BY <1>1, SetFacts DEF IInv
<1>3. \A q \in Request : ListOK(new[q], rows, log)
  BY <1>1, <1>2 DEF ListInv
<1>4. ASSUME NEW n \in DOMAIN log PROVE DoneOK(new[log[n].req], log[n])
  <2>1. CASE log[n].req = r
    BY <1>1, <1>2, <2>1
  <2>2. CASE log[n].req # r
    <3>1. new[log[n].req] = old[log[n].req]
      BY <1>1, <2>2 DEF Set
    <3>. QED
      BY <1>1, <3>1 DEF ListInv
  <2>. QED
    BY <2>1, <2>2
<1>. QED
  BY <1>1, <1>3, <1>4 DEF ListInv

\* A session that is not in the middle of a listing.
Aside(t) ==
  /\ t.pc # "reading"
  /\ t.op.kind \in Listing => (t.pc = "authorised" => t.page = 0) /\ (t.pc = "ended" => t.answer # 200)

LEMMA AsideOK ==
  ASSUME NEW t, Aside(t), NEW table, NEW log
  PROVE  ListOK(t, table, log)
  BY DEF Aside, ListOK

LEMMA EndsAside ==
  ASSUME NEW s, IsSession(s), NEW a, a # 200 \/ s.op.kind \notin Listing
  PROVE  Aside(Ended(s, a))
<1>1. PICK e : e = Ended(s, a)
  OBVIOUS
<1>2. e.pc = "ended" /\ e.answer = a /\ e.op = s.op
  BY <1>1, EndedFields
<1>. QED
  BY <1>1, <1>2 DEF Aside

\* A session without events, or one that stays at its operation.
LEMMA SilentListed ==
  ASSUME IInv, AuditInv, ListInv, NEW r \in Request, NEW t, Set(r, t), UNCHANGED <<rows, audit>>,
         Silent(req[r]), Aside(t)
  PROVE  ListInv'
<1>1. \A n \in DOMAIN audit : audit[n].req # r
  BY DEF AuditInv, LogOK, OwnerOK
<1>. QED
  BY <1>1, AsideOK, ListStep

LEMMA EndsListed ==
  ASSUME IInv, ListInv, NEW r \in Request, NEW t, Set(r, t), UNCHANGED <<rows, audit>>,
         ListOK(t, rows, audit), t.pc = "ended", t.op = req[r].op
  PROVE  ListInv'
<1>1. ASSUME NEW n \in DOMAIN audit, audit[n].req = r PROVE DoneOK(t, audit[n])
  <2>1. DoneOK(req[r], audit[n])
    BY <1>1 DEF ListInv
  <2>. QED
    BY <2>1 DEF DoneOK
<1>. QED
  BY <1>1, ListStep

\* A reader has none either.
LEMMA ReaderListed ==
  ASSUME IInv, ListInv, NEW r \in Request, NEW t, Set(r, t), UNCHANGED <<rows, audit>>,
         ListOK(t, rows, audit), req[r].op.kind \in Listing \cup {"dashboard"},
         req[r].pc \notin {"written", "reread", "ended"}
  PROVE  ListInv'
<1>1. ASSUME NEW n \in DOMAIN audit, audit[n].req = r PROVE FALSE
  <2>1. DoneOK(req[r], audit[n])
    BY <1>1 DEF ListInv
  <2>. QED
    BY <2>1 DEF DoneOK, Listing
<1>. QED
  BY <1>1, ListStep

LEMMA AuthoriseListed ==
  ASSUME IInv, AuditInv, ListInv, NEW r \in Request, NEW op \in Ops, Authorise(r, op)
  PROVE  ListInv'
<1>1. PICK row, b : row = CurrentUser(op) /\ b = Started(op)
  OBVIOUS
<1>2. PICK s, t : s = WithActor(b, row) /\ t = AtPc(s, "authorised")
  OBVIOUS
<1>3. /\ UNCHANGED <<rows, audit>> /\ req[r].pc = "idle"
      /\ \/ Set(r, t) \/ Set(r, Ended(s, 400)) \/ Set(r, Ended(s, 401)) \/ Set(r, Ended(s, 403))
  BY <1>1, <1>2 DEF Authorise, WithActor, AtPc, At
<1>4. IsSession(s) /\ IsSession(t) /\ t.pc = "authorised"
  <2>1. IsSession(b)
    BY <1>1, StartedFields
  <2>2. IsSession(s)
    BY <1>2, <2>1, ActorFields
  <2>. QED
    BY <1>2, <2>2, PcFields
<1>5. t.page = 0
  <2>1. b.page = 0 /\ IsSession(b)
    BY <1>1, StartedFields DEF Started, Blank
  <2>2. s.page = 0
    BY <1>2, <2>1, Zenon DEF WithActor, IsSession, Fields
  <2>. QED
    BY <1>2, <1>4, <2>2, Zenon DEF AtPc, IsSession, Fields
<1>6. Silent(req[r])
  BY <1>3 DEF Silent
<1>7. CASE Set(r, t)
  BY <1>3, <1>4, <1>5, <1>6, <1>7, SilentListed DEF Aside
<1>8. ASSUME NEW a \in {400, 401, 403}, Set(r, Ended(s, a)) PROVE ListInv'
  BY <1>3, <1>4, <1>6, <1>8, EndsAside, SilentListed
<1>. QED
  BY <1>3, <1>7, <1>8

LEMMA LookUpListed ==
  ASSUME IInv, AuditInv, ListInv, NEW r \in Request, NEW op \in Ops, LookUp(r, op)
  PROVE  ListInv'
<1>1. PICK b, t : b = Started(op) /\ t = AtPc(b, "loaded")
  OBVIOUS
<1>2. /\ UNCHANGED <<rows, audit>> /\ req[r].pc = "idle"
      /\ Set(r, Ended(b, 409)) \/ Set(r, t)
  BY <1>1 DEF LookUp, AtPc, At
<1>3. IsSession(b) /\ t.pc = "loaded" /\ Silent(req[r])
  <2>1. IsSession(b)
    BY <1>1, StartedFields
  <2>. QED
    BY <1>1, <1>2, <2>1, PcFields DEF Silent
<1>4. Aside(t) /\ Aside(Ended(b, 409))
  BY <1>3, EndsAside DEF Aside
<1>. QED
  BY <1>2, <1>3, <1>4, SilentListed

LEMMA LogInListed ==
  ASSUME IInv, AuditInv, ListInv, NEW r \in Request, NEW op \in Ops, LogIn(r, op)
  PROVE  ListInv'
<1>1. PICK b, u : b = Started(op) /\ u = CHOOSE v \in Verified(op.want) : TRUE
  OBVIOUS
<1>2. PICK s : s = WithTarget(b, u)
  OBVIOUS
<1>3. /\ UNCHANGED <<rows, audit>> /\ req[r].pc = "idle" /\ op.kind = "login"
      /\ Set(r, Ended(b, 401)) \/ Set(r, Ended(b, 403)) \/ Set(r, Ended(s, 200))
  BY <1>1, <1>2 DEF LogIn, WithTarget, At
<1>4. IsSession(b) /\ IsSession(s) /\ Silent(req[r]) /\ b.op = op /\ s.op = op
  <2>1. IsSession(b) /\ b.op = op
    BY <1>1, StartedFields
  <2>. QED
    BY <1>2, <1>3, <2>1, TargetFields DEF Silent
<1>5. Aside(Ended(b, 401)) /\ Aside(Ended(b, 403)) /\ Aside(Ended(s, 200))
  BY <1>3, <1>4, EndsAside DEF Listing
<1>. QED
  BY <1>3, <1>4, <1>5, SilentListed

\* The events of the stage before are of another kind.
LEMMA StageListed ==
  ASSUME IInv, AuditInv, ListInv, NEW r \in Request, NEW s, IsSession(s), NEW u, NEW row, NEW p,
         Set(r, Stage(s, u, row, p)), UNCHANGED <<rows, audit>>, s.op.kind \notin Listing,
         Silent(req[r]) \/ (s = req[r] /\ s.pc = "reread" /\ s.op.kind = "role" /\ ~p)
  PROVE  ListInv'
<1>1. \/ Set(r, Ended(s, 200))
      \/ \E kind \in {"role", "status"} :
           /\ kind = "role" => p
           /\ \E want : Set(r, StagedAs(s, row, u, OwnChange(u, kind, want)))
  BY DEF Stage, StagedAs, OwnChange
<1>2. CASE Set(r, Ended(s, 200))
  <2>1. PICK e : e = Ended(s, 200)
    OBVIOUS
  <2>2. Aside(e) /\ e.pc = "ended" /\ e.op = s.op
    BY <2>1, EndsAside, EndedFields
  <2>3. CASE Silent(req[r])
    BY <1>2, <2>1, <2>2, <2>3, SilentListed
  <2>4. CASE s = req[r] /\ s.pc = "reread"
    BY <1>2, <2>1, <2>2, <2>4, AsideOK, EndsListed
  <2>. QED
    BY <2>3, <2>4
<1>3. ASSUME NEW kind \in {"role", "status"}, kind = "role" => p, NEW want,
             Set(r, StagedAs(s, row, u, OwnChange(u, kind, want)))
      PROVE  ListInv'
  <2>1. PICK o, t : o = OwnChange(u, kind, want) /\ t = StagedAs(s, row, u, o)
    OBVIOUS
  <2>2. t.pc = "loaded" /\ t.op = o /\ o.kind = kind
    BY <2>1, StagedFields DEF OwnChange
  <2>3. Aside(t)
    BY <2>2 DEF Aside, Listing
  <2>4. CASE Silent(req[r])
    BY <1>3, <2>1, <2>3, <2>4, SilentListed
  <2>5. CASE s = req[r] /\ s.pc = "reread" /\ s.op.kind = "role" /\ ~p
    <3>1. \A n \in DOMAIN audit : audit[n].req = r => DoneOK(s, audit[n])
      BY <2>5 DEF ListInv
    <3>2. \A n \in DOMAIN audit : audit[n].req = r => DoneOK(t, audit[n])
      BY <1>3, <2>2, <2>5, <3>1 DEF DoneOK
    <3>. QED
      BY <1>3, <2>1, <2>3, <3>2, AsideOK, ListStep
  <2>. QED
    BY <2>4, <2>5
<1>. QED
  BY <1>1, <1>2, <1>3

LEMMA NextStageListed ==
  ASSUME IInv, AuditInv, ListInv, NEW r \in Request, NextStage(r)
  PROVE  ListInv'
<1>1. PICK s, u, p : s = req[r] /\ u = req[r].target /\ p = Kinds(r, {"register"})
  OBVIOUS
<1>2. s.pc = "reread" /\ Set(r, Stage(s, u, rows[u], p)) /\ UNCHANGED <<rows, audit>>
  BY <1>1 DEF NextStage, At
<1>3. IsSession(s) /\ s.op.kind \in {"register", "role"} /\ (s.op.kind = "role" => ~p)
  BY <1>1, <1>2, SessionFacts DEF Shape, KindOK, Kinds
<1>4. s.op.kind \notin Listing
  BY <1>3 DEF Listing
<1>. QED
  BY <1>1, <1>2, <1>3, <1>4, StageListed DEF Silent

LEMMA BootstrapListed ==
  ASSUME IInv, AuditInv, ListInv, NEW r \in Request, NEW op \in Ops, Bootstrap(r, op)
  PROVE  ListInv'
<1>1. PICK b, s, o, t : /\ b = Started(op) /\ s = WithCli(b) /\ o = AsKind(op, "register")
                        /\ t = Registering(s, o)
  OBVIOUS
<1>2. PICK u : u = CHOOSE v \in WithEmail(op.want.email) : TRUE
  OBVIOUS
<1>3. IsSession(b) /\ b.op = op
  BY <1>1, StartedFields
<1>4. IsSession(s) /\ s.op = op
  BY <1>1, <1>3, CliFields
<1>5. /\ UNCHANGED <<rows, audit>> /\ req[r].pc = "idle" /\ op.kind = "bootstrap"
      /\ Set(r, Stage(s, u, rows[u], TRUE)) \/ Set(r, t)
  <2>1. [s EXCEPT !.pc = "loaded", !.op.kind = "register"] = t
    BY <1>1, <1>4 DEF Registering, AsKind
  <2>. QED
    BY <1>1, <1>2, <2>1 DEF Bootstrap, WithCli, At
<1>6. Silent(req[r]) /\ s.op.kind \notin Listing
  BY <1>4, <1>5 DEF Silent, Listing
<1>7. CASE Set(r, Stage(s, u, rows[u], TRUE))
  BY <1>4, <1>5, <1>6, <1>7, StageListed
<1>8. CASE Set(r, t)
  <2>1. t.pc = "loaded"
    BY <1>1, <1>4, RegisteringFields
  <2>. QED
    BY <1>5, <1>6, <1>8, <2>1, SilentListed DEF Aside
<1>. QED
  BY <1>5, <1>7, <1>8

LEMMA LoadListed ==
  ASSUME IInv, AuditInv, ListInv, NEW r \in Request, Load(r)
  PROVE  ListInv'
<1>1. PICK s, row : /\ s = req[r]
                    /\ row = IF req[r].target = req[r].op.actor THEN req[r].actor
                             ELSE rows[req[r].target]
  OBVIOUS
<1>2. /\ s.pc = "authorised" /\ UNCHANGED <<rows, audit>>
      /\ s.op.kind \in Changing \cup {"delete", "get"}
      /\ Set(r, Ended(s, 404)) \/ Set(r, Ended(s, 200)) \/ Set(r, WithSeen(s, row))
  BY <1>1 DEF Load, Kinds, WithSeen, At
<1>3. IsSession(s) /\ Silent(s) /\ s.op.kind \notin Listing
  BY <1>1, <1>2, SessionFacts DEF Shape, Silent, Listing, Changing
<1>4. WithSeen(s, row).pc = "loaded"
  BY <1>3, SeenFields
<1>5. Aside(Ended(s, 404)) /\ Aside(Ended(s, 200)) /\ Aside(WithSeen(s, row))
  BY <1>3, <1>4, EndsAside DEF Aside
<1>. QED
  BY <1>1, <1>2, <1>3, <1>5, SilentListed

LEMMA InsertListed ==
  ASSUME IInv, AuditInv, ListInv, NEW r \in Request, Insert(r)
  PROVE  ListInv'
<1>1. PICK s : s = req[r]
  OBVIOUS
<1>2. /\ s.pc = "loaded" /\ s.op.kind = "register" /\ UNCHANGED <<rows, audit>>
      /\ Set(r, Ended(s, 409)) \/ \E u \in User : Set(r, Inserted(s, u))
  BY <1>1 DEF Insert, At, Kinds, Inserted
<1>3. IsSession(s) /\ Silent(s)
  BY <1>1, <1>2, SessionFacts DEF Shape, Silent
<1>4. CASE Set(r, Ended(s, 409))
  BY <1>1, <1>2, <1>3, <1>4, EndsAside, SilentListed
<1>5. ASSUME NEW u \in User, Set(r, Inserted(s, u)) PROVE ListInv'
  <2>1. PICK t : t = Inserted(s, u)
    OBVIOUS
  <2>2. t.pc = "written" /\ t.op = s.op
    BY <1>3, <2>1, InsertedFields
  <2>3. Aside(t)
    BY <1>2, <2>2 DEF Aside
  <2>. QED
    BY <1>1, <1>2, <1>3, <1>5, <2>1, <2>3, SilentListed
<1>. QED
  BY <1>2, <1>4, <1>5

LEMMA CountListed ==
  ASSUME IInv, ListInv, NEW r \in Request,
         CountByStatus(r) \/ CountBySeverity(r) \/ CountAffected(r)
  PROVE  ListInv'
<1>1. PICK s : s = req[r]
  OBVIOUS
<1>2. IsSession(s) /\ KindOK(s)
  BY <1>1, SessionFacts DEF Shape
<1>3. s.op.kind = "dashboard" /\ s.pc \in {"authorised", "by_status", "by_severity"}
  BY <1>1, <1>2 DEF CountByStatus, CountBySeverity, CountAffected, KindOK, At, Kinds
<1>4. PICK t : Set(r, t) /\ UNCHANGED <<rows, audit>> /\ t.op = s.op /\ t.pc # "reading"
  <2>1. PICK by_status, by_severity :
          /\ by_status = [v \in Status |-> Count("status", v)]
          /\ by_severity = [v \in Severity |-> Count("severity", v)]
    OBVIOUS
  <2>2. CASE CountByStatus(r)
    <3>1. PICK t : t = [s EXCEPT !.pc = "by_status", !.sum.status = by_status]
      OBVIOUS
    <3>2. t.op = s.op /\ t.pc = "by_status"
      BY <1>2, <3>1, Zenon DEF IsSession, Fields
    <3>. QED
      BY <1>1, <2>1, <2>2, <3>1, <3>2 DEF CountByStatus
  <2>3. CASE CountBySeverity(r)
    <3>1. PICK t : t = [s EXCEPT !.pc = "by_severity", !.sum.severity = by_severity]
      OBVIOUS
    <3>2. t.op = s.op /\ t.pc = "by_severity"
      BY <1>2, <3>1, Zenon DEF IsSession, Fields
    <3>. QED
      BY <1>1, <2>1, <2>3, <3>1, <3>2 DEF CountBySeverity
  <2>4. CASE CountAffected(r)
    <3>1. PICK c, t : /\ c = [s EXCEPT !.sum.affected = Cardinality(Affected(rows))]
                      /\ t = Ended(c, 200)
      OBVIOUS
    <3>2. IsSession(c) /\ c.op = s.op
      BY <1>2, <3>1, Zenon DEF IsSession, Fields
    <3>3. Ended(c, 200).op = c.op /\ Ended(c, 200).pc = "ended"
      BY <3>2, EndedFields
    <3>. QED
      BY <1>1, <2>4, <3>1, <3>2, <3>3 DEF CountAffected
  <2>. QED
    BY <2>2, <2>3, <2>4
<1>5. ListOK(t, rows, audit)
  BY <1>3, <1>4 DEF ListOK, Listing
<1>. QED
  BY <1>1, <1>3, <1>4, <1>5, ReaderListed

\* The page holds what has as many items before it as pages were read; what is
\* left has more, and nothing is left once a page is empty.
LEMMA PageRead ==
  ASSUME TableOK(rows), TrailOK(audit), NEW op, NEW n \in Nat, NEW must, NEW got,
         \A y \in must \ got : /\ y \in Visible(op, rows, audit)
                               /\ n <= Cardinality(BeforeIn(rows, audit, op, y))
  PROVE  /\ \A y \in must \ (got \cup Page(op, n)) :
              /\ y \in Visible(op, rows, audit)
              /\ n + 1 <= Cardinality(BeforeIn(rows, audit, op, y))
         /\ Page(op, n) = {} => must \subseteq got
<1>1. PICK V, before : /\ V = Visible(op, rows, audit)
                       /\ before = [y \in V |-> BeforeIn(rows, audit, op, y)]
  OBVIOUS
<1>2. IsFiniteSet(V) /\ before \in [V -> SUBSET V]
  BY <1>1, VisibleFinite DEF BeforeIn
<1>3. \A y \in V : before[y] = {x \in V : NewerIn(audit, op, x, y)}
  BY <1>1 DEF BeforeIn
<1>4. Page(op, n) = {y \in V : Cardinality(before[y]) = n}
  <2>1. \A x, y : NewestFirst(op, x, y) <=> NewerIn(audit, op, x, y)
    BY DEF NewestFirst, NewerIn, EventAt, EventIn, CreatedAt, CreatedIn, CreationOf, CreationIn
  <2>2. \A y \in V : {x \in V : NewestFirst(op, x, y)} = before[y]
    BY <1>3, <2>1
  <2>. QED
    BY <1>1, <2>2 DEF Page
<1>5. \A y \in V : Cardinality(before[y]) \in Nat
  BY <1>2, FS_Subset, FS_CardinalityType
<1>6. ASSUME NEW y \in must \ (got \cup Page(op, n))
      PROVE  y \in V /\ n + 1 <= Cardinality(BeforeIn(rows, audit, op, y))
  <2>1. y \in V /\ n <= Cardinality(before[y]) /\ Cardinality(before[y]) # n
    BY <1>1, <1>4, <1>6
  <2>. QED
    BY <1>1, <1>5, <2>1
<1>7. ASSUME Page(op, n) = {}, NEW y \in must \ got PROVE FALSE
  <2>1. \A x \in V : Cardinality(before[x]) # n
    BY <1>4, <1>7
  <2>2. /\ \A x \in V : x \notin before[x]
        /\ \A x, z \in V : x # z => x \in before[z] \/ z \in before[x]
    BY <1>1, <1>3, VisibleOrder
  <2>3. \A x, z, w \in V : x \in before[z] /\ z \in before[w] => x \in before[w]
    BY <1>1, <1>3, VisibleOrder
  <2>4. \A x \in V : Cardinality(before[x]) < n
    BY <1>2, <2>1, <2>2, <2>3, Pages
  <2>5. y \in V /\ n <= Cardinality(before[y])
    BY <1>1, <1>7
  <2>. QED
    BY <1>5, <2>4, <2>5
<1>. QED
  BY <1>1, <1>6, <1>7

LEMMA ReadPageListed ==
  ASSUME IInv, ListInv, NEW r \in Request, ReadPage(r)
  PROVE  ListInv'
<1>1. PICK s : s = req[r]
  OBVIOUS
<1>2. PICK items : items = Page(s.op, s.page)
  OBVIOUS
<1>3. PICK page, must, got :
        /\ page = s.page + 1
        /\ must = IF At(r, "authorised") THEN Visible(s.op, rows, audit) ELSE s.must
        /\ got = s.got \cup items
  OBVIOUS
<1>4. PICK t, e : t = Paged(s, page, must, got) /\ e = Ended(t, 200)
  OBVIOUS
<1>5. IsSession(s) /\ TableOK(rows) /\ TrailOK(audit)
  BY <1>1, SessionFacts DEF Shape, IInv
<1>6. /\ s.pc \in {"authorised", "reading"} /\ s.op.kind \in Listing /\ UNCHANGED <<rows, audit>>
      /\ Set(r, IF items # {} THEN t ELSE e)
  <2>1. [s EXCEPT !.pc = "reading", !.page = @ + 1,
                  !.must = IF At(r, "authorised") THEN Visible(s.op, rows, audit) ELSE @,
                  !.got = @ \cup items] = t
    BY <1>3, <1>4, <1>5, Zenon DEF Paged, IsSession, Fields
  <2>. QED
    BY <1>1, <1>2, <1>4, <2>1 DEF ReadPage, Kinds, At
<1>7. /\ IsSession(t) /\ t.pc = "reading" /\ t.op = s.op /\ t.page = page /\ t.must = must
      /\ t.got = got
  <2>1. t.page = page /\ t.must = must /\ t.got = got
    BY <1>4, <1>5, Zenon DEF Paged, IsSession, Fields
  <2>. QED
    BY <1>4, <1>5, <2>1, PagedFields
<1>8. e.pc = "ended" /\ e.op = s.op /\ e.must = must /\ e.got = got
  <2>1. e.must = t.must /\ e.got = t.got
    BY <1>4, <1>7, Zenon DEF Ended, IsSession, Fields
  <2>. QED
    BY <1>4, <1>7, <2>1, EndedFields
<1>9. ListOK(s, rows, audit)
  BY <1>1 DEF ListInv
<1>10. /\ s.page \in Nat
       /\ \A y \in must \ s.got : /\ y \in Visible(s.op, rows, audit)
                                  /\ s.page <= Cardinality(BeforeIn(rows, audit, s.op, y))
  <2>1. CASE s.pc = "authorised"
    <3>1. s.page = 0 /\ must = Visible(s.op, rows, audit)
      BY <1>1, <1>3, <1>6, <1>9, <2>1 DEF ListOK, At
    <3>2. ASSUME NEW y \in must PROVE 0 <= Cardinality(BeforeIn(rows, audit, s.op, y))
      <4>1. PICK V, B : V = Visible(s.op, rows, audit) /\ B = BeforeIn(rows, audit, s.op, y)
        OBVIOUS
      <4>2. IsFiniteSet(V) /\ B \in SUBSET V
        BY <1>5, <4>1, VisibleFinite DEF BeforeIn
      <4>3. Cardinality(B) \in Nat
        BY <4>2, FS_Subset, FS_CardinalityType
      <4>. QED
        BY <4>1, <4>3
    <3>. QED
      BY <3>1, <3>2
  <2>2. CASE s.pc = "reading"
    BY <1>1, <1>3, <1>6, <1>9, <2>2 DEF ListOK, At
  <2>. QED
    BY <1>6, <2>1, <2>2
<1>11. /\ \A y \in must \ got : /\ y \in Visible(s.op, rows, audit)
                                /\ s.page + 1 <= Cardinality(BeforeIn(rows, audit, s.op, y))
       /\ items = {} => must \subseteq s.got
  BY <1>2, <1>3, <1>5, <1>10, PageRead
<1>12. ListOK(t, rows, audit)
  BY <1>3, <1>6, <1>7, <1>10, <1>11 DEF ListOK
<1>13. items = {} => ListOK(e, rows, audit)
  BY <1>3, <1>6, <1>8, <1>11 DEF ListOK
<1>14. PICK f : f = (IF items # {} THEN t ELSE e)
  OBVIOUS
<1>15. Set(r, f) /\ ListOK(f, rows, audit)
  BY <1>6, <1>12, <1>13, <1>14
<1>. QED
  BY <1>1, <1>6, <1>15, ReaderListed

-----------------------------------------------------------------------------
(* Steps that change the trail                                             *)

\* h is where the events of a log are after a step, those in K excepted.
Shifted(log, log2, K, h) ==
  /\ \A n \in DOMAIN log \ K :
       /\ h[n] \in DOMAIN log2 /\ log2[h[n]].req = log[n].req
       /\ log2[h[n]].kind = log[n].kind /\ log2[h[n]].resource = log[n].resource
  /\ \A m, n \in DOMAIN log \ K : m < n => h[m] < h[n]

SameCreation(log, log2, K, h, i) ==
  /\ CreationIn(log, i) \cap K = {}
  /\ \A m \in CreationIn(log2, i) : \E n \in CreationIn(log, i) : h[n] = m

LEMMA CreatedShifted ==
  ASSUME NEW log, TrailOK(log), NEW log2, TrailOK(log2), NEW K, NEW h,
         Shifted(log, log2, K, h), NEW i, SameCreation(log, log2, K, h, i)
  PROVE  LET c == CreatedIn(log, i)  d == CreatedIn(log2, i) IN
         (c = 0 /\ d = 0) \/ (c \in DOMAIN log \ K /\ d = h[c])
<1>1. PICK c, d, S, T : /\ c = CreatedIn(log, i) /\ d = CreatedIn(log2, i)
                        /\ S = CreationIn(log, i) /\ T = CreationIn(log2, i)
  OBVIOUS
<1>2. c \in Nat /\ (S = {} => c = 0) /\ (S # {} => c \in S) /\ \A n \in S : n <= c
  BY <1>1, CreatedFacts
<1>3. d \in Nat /\ (T = {} => d = 0) /\ (T # {} => d \in T) /\ \A n \in T : n <= d
  BY <1>1, CreatedFacts
<1>4. S \subseteq DOMAIN log \ K /\ \A m \in T : \E n \in S : h[n] = m
  BY <1>1 DEF SameCreation, CreationIn
<1>5. \A n \in S : h[n] \in T
  BY <1>1, <1>4 DEF Shifted, CreationIn
<1>6. CASE S = {}
  BY <1>1, <1>2, <1>3, <1>4, <1>6
<1>7. CASE S # {}
  <2>1. c \in S /\ h[c] \in T /\ d \in T /\ h[c] <= d
    BY <1>2, <1>3, <1>5, <1>7
  <2>2. PICK n \in S : h[n] = d
    BY <1>4, <2>1
  <2>3. n <= c /\ n \in Nat /\ h[c] \in Nat
    <3>1. DOMAIN log \subseteq Nat /\ DOMAIN log2 \subseteq Nat
      BY Indices
    <3>2. T \subseteq DOMAIN log2
      BY <1>1 DEF CreationIn
    <3>. QED
      BY <1>2, <1>4, <2>1, <2>2, <3>1, <3>2
  <2>4. n < c => h[n] < h[c]
    BY <1>4, <2>1, <2>2 DEF Shifted
  <2>5. n = c
    BY <1>2, <1>3, <2>1, <2>2, <2>3, <2>4
  <2>. QED
    BY <1>1, <1>4, <2>1, <2>2, <2>5
<1>. QED
  BY <1>6, <1>7

LEMMA EventShifted ==
  ASSUME NEW log, Once(log), NEW log2, Once(log2), NEW K, NEW h, Shifted(log, log2, K, h),
         \A n \in DOMAIN log \cap K : ~log[n].committed,
         NEW op, op.kind = "list_audit", NEW table, NEW x \in Visible(op, table, log)
  PROVE  EventIn(log, x) \in DOMAIN log \ K /\ EventIn(log2, x) = h[EventIn(log, x)]
<1>1. PICK n \in DOMAIN log : log[n].committed /\ x = <<log[n].req, log[n].kind>>
  BY DEF Visible
<1>2. n \in DOMAIN log \ K /\ EventIn(log, x) = n
  BY <1>1, EventOnce
<1>3. h[n] \in DOMAIN log2 /\ x = <<log2[h[n]].req, log2[h[n]].kind>>
  BY <1>1, <1>2 DEF Shifted
<1>4. EventIn(log2, x) = h[n]
  BY <1>3, EventOnce
<1>. QED
  BY <1>2, <1>4

\* What keeps the order of the visible items.
Kept(table, log, log2, K, h) ==
  /\ Shifted(log, log2, K, h)
  /\ \A n \in DOMAIN log \cap K : ~log[n].committed
  /\ \A i \in Incidents(table) : SameCreation(log, log2, K, h, i)

LEMMA OrderKept ==
  ASSUME NEW log, TrailOK(log), Once(log), NEW log2, TrailOK(log2), Once(log2), NEW K, NEW h,
         NEW op, NEW table, Kept(table, log, log2, K, h),
         NEW x \in Visible(op, table, log), NEW y \in Visible(op, table, log),
         NewerIn(log, op, x, y)
  PROVE  NewerIn(log2, op, x, y)
<1>1. Shifted(log, log2, K, h) /\ DOMAIN log \subseteq Nat /\ DOMAIN log2 \subseteq Nat
  BY Indices DEF Kept
<1>2. CASE op.kind = "list_audit"
  <2>1. PICK m, n : m = EventIn(log, x) /\ n = EventIn(log, y)
    OBVIOUS
  <2>2. /\ m \in DOMAIN log \ K /\ EventIn(log2, x) = h[m]
        /\ n \in DOMAIN log \ K /\ EventIn(log2, y) = h[n]
    BY <1>2, <2>1, EventShifted DEF Kept
  <2>3. n < m
    BY <1>1, <1>2, <2>1, <2>2 DEF NewerIn
  <2>4. h[n] < h[m] /\ h[n] \in Nat /\ h[m] \in Nat
    BY <1>1, <2>2, <2>3 DEF Shifted
  <2>. QED
    BY <1>2, <2>2, <2>4 DEF NewerIn
<1>3. CASE op.kind # "list_audit"
  <2>1. PICK a, b, c, d : /\ a = CreatedIn(log, x) /\ b = CreatedIn(log, y)
                          /\ c = CreatedIn(log2, x) /\ d = CreatedIn(log2, y)
    OBVIOUS
  <2>2. SameCreation(log, log2, K, h, x) /\ SameCreation(log, log2, K, h, y)
    BY <1>3 DEF Visible, Kept
  <2>3. (a = 0 /\ c = 0) \/ (a \in DOMAIN log \ K /\ c = h[a])
    BY <1>1, <2>1, <2>2, CreatedShifted
  <2>4. (b = 0 /\ d = 0) \/ (b \in DOMAIN log \ K /\ d = h[b])
    BY <1>1, <2>1, <2>2, CreatedShifted
  <2>5. a \in Nat /\ b \in Nat /\ c \in Nat /\ d \in Nat
    BY <2>1, CreatedFacts
  <2>6. \A n \in DOMAIN log \ K : n > 0 /\ h[n] > 0
    <3>1. DOMAIN log = 1 .. Len(log) /\ DOMAIN log2 = 1 .. Len(log2)
      BY Indices
    <3>2. Len(log) \in Nat /\ Len(log2) \in Nat
      BY Indices
    <3>. QED
      BY <1>1, <3>1, <3>2 DEF Shifted
  <2>7. a > b => c > d
    <3>1. SUFFICES ASSUME a > b PROVE c > d
      OBVIOUS
    <3>2. a \in DOMAIN log \ K /\ c = h[a]
      BY <2>3, <2>5, <3>1
    <3>3. CASE b = 0 /\ d = 0
      BY <2>6, <3>2, <3>3
    <3>4. CASE b \in DOMAIN log \ K /\ d = h[b]
      <4>1. h[b] < h[a]
        BY <1>1, <2>5, <3>1, <3>2, <3>4 DEF Shifted
      <4>. QED
        BY <2>5, <3>2, <3>4, <4>1
    <3>. QED
      BY <2>4, <3>3, <3>4
  <2>8. a = b => c = d
    BY <2>3, <2>4, <2>6
  <2>. QED
    BY <1>3, <2>1, <2>7, <2>8 DEF NewerIn
<1>. QED
  BY <1>2, <1>3

\* A listing whose items stay visible, or that is no longer accountable.
LEMMA ListKept ==
  ASSUME NEW s, NEW table, NEW log, TrailOK(log), Once(log), ListOK(s, table, log),
         NEW table2, TableOK(table2), NEW log2, TrailOK(log2), Once(log2), NEW K, NEW h,
         Kept(table, log, log2, K, h),
         NEW t, t.pc = s.pc, t.op = s.op, t.page = s.page, t.got = s.got, t.answer = s.answer,
         t.must = s.must \/ (s.pc = "reading" /\ t.must = {}),
         s.pc = "reading" /\ t.must # {} =>
           Visible(s.op, table, log) \subseteq Visible(s.op, table2, log2)
  PROVE  ListOK(t, table2, log2)
<1>1. ASSUME s.pc = "reading", s.op.kind \in Listing, NEW y \in t.must \ t.got
      PROVE  /\ y \in Visible(s.op, table2, log2)
             /\ s.page <= Cardinality(BeforeIn(table2, log2, s.op, y))
  <2>1. PICK V, W, A, B : /\ V = Visible(s.op, table, log) /\ W = Visible(s.op, table2, log2)
                          /\ A = BeforeIn(table, log, s.op, y)
                          /\ B = BeforeIn(table2, log2, s.op, y)
    OBVIOUS
  <2>2. y \in V /\ s.page <= Cardinality(A) /\ s.page \in Nat
    BY <1>1, <2>1 DEF ListOK
  <2>3. V \subseteq W
    BY <1>1, <2>1
  <2>4. ASSUME NEW x \in A PROVE x \in B
    <3>1. x \in V /\ NewerIn(log, s.op, x, y)
      BY <2>1, <2>4 DEF BeforeIn
    <3>2. NewerIn(log2, s.op, x, y)
      BY <2>1, <2>2, <3>1, OrderKept
    <3>. QED
      BY <2>1, <2>3, <3>1, <3>2 DEF BeforeIn
  <2>5. IsFiniteSet(W) /\ B \in SUBSET W
    BY <2>1, VisibleFinite DEF BeforeIn
  <2>6. IsFiniteSet(B)
    BY <2>5, FS_Subset
  <2>7. A \in SUBSET B
    BY <2>4
  <2>8. Cardinality(A) <= Cardinality(B) /\ IsFiniteSet(A)
    BY <2>6, <2>7, FS_Subset
  <2>9. Cardinality(A) \in Nat /\ Cardinality(B) \in Nat
    BY <2>6, <2>8, FS_CardinalityType
  <2>. QED
    BY <2>1, <2>2, <2>3, <2>8, <2>9
<1>. QED
  BY <1>1 DEF ListOK

\* A new event has no listing lose its place.
LEMMA AppendListed ==
  ASSUME IInv, IInv', ListInv, NEW r \in Request, NEW t, Set(r, t), UNCHANGED rows, NEW e,
         audit' = Append(audit, e), t.pc = "written", e.req = r, e.kind = t.op.kind,
         ~e.committed, e.kind = "create" => rows[e.resource] = NoRow,
         \A n \in DOMAIN audit :
           audit[n].req = r => audit[n].kind = "role" /\ t.op.kind = "status"
  PROVE  ListInv'
<1>1. PICK old, new, log, log2 : old = req /\ new = req' /\ log = audit /\ log2 = audit'
  OBVIOUS
<1>2. PICK N : N = Len(log)
  OBVIOUS
<1>3. N \in Nat /\ DOMAIN log = 1 .. N /\ DOMAIN log2 = 1 .. N + 1 /\ log2[N + 1] = e
      /\ \A n \in 1 .. N : log2[n] = log[n]
  <2>1. PICK S : log \in Seq(S)
    BY <1>1 DEF IInv, TrailOK
  <2>. QED
    BY <1>1, <1>2, <2>1
<1>4. new[r] = t /\ \A q \in Request \ {r} : new[q] = old[q]
  BY <1>1, SetFacts DEF IInv
<1>5. /\ Once(log) /\ TrailOK(log) /\ TrailOK(log2) /\ TableOK(rows)
      /\ \A n \in 1 .. N : DoneOK(old[log[n].req], log[n])
      /\ \A q \in Request : ListOK(old[q], rows, log)
  BY <1>1, <1>3 DEF IInv, ListInv
<1>6. \A n \in 1 .. N : log[n].req = e.req => log[n].kind # e.kind
  BY <1>1, <1>3
<1>7. Once(log2)
  BY <1>3, <1>5, <1>6 DEF Once
<1>8. ASSUME NEW n \in 1 .. N + 1 PROVE DoneOK(new[log2[n].req], log2[n])
  <2>1. CASE n = N + 1
    BY <1>3, <1>4, <2>1 DEF DoneOK
  <2>2. CASE n \in 1 .. N /\ log[n].req = r
    BY <1>1, <1>3, <1>4, <2>2 DEF DoneOK
  <2>3. CASE n \in 1 .. N /\ log[n].req # r
    <3>1. new[log[n].req] = old[log[n].req]
      BY <1>1, <2>3 DEF Set
    <3>. QED
      BY <1>3, <1>5, <2>3, <3>1
  <2>. QED
    BY <1>3, <2>1, <2>2, <2>3
<1>9. PICK h : h = [n \in 1 .. N |-> n]
  OBVIOUS
<1>10. Kept(rows, log, log2, {}, h)
  <2>1. Shifted(log, log2, {}, h)
    BY <1>3, <1>9 DEF Shifted
  <2>2. ASSUME NEW i \in Incidents(rows) PROVE SameCreation(log, log2, {}, h, i)
    <3>1. rows[i] # NoRow
      BY <2>2 DEF Incidents
    <3>2. ASSUME NEW m \in CreationIn(log2, i) PROVE m \in CreationIn(log, i) /\ h[m] = m
      <4>1. m \in 1 .. N + 1 /\ log2[m].resource = i /\ log2[m].kind = "create"
        BY <1>3, <3>2 DEF CreationIn
      <4>2. m # N + 1
        BY <1>3, <3>1, <4>1
      <4>3. m \in 1 .. N
        BY <1>3, <4>1, <4>2
      <4>. QED
        BY <1>3, <1>9, <4>1, <4>3 DEF CreationIn
    <3>. QED
      BY <3>2 DEF SameCreation
  <2>. QED
    BY <2>1, <2>2 DEF Kept
<1>11. ASSUME NEW q \in Request PROVE ListOK(new[q], rows, log2)
  <2>1. CASE q = r
    <3>1. Aside(t)
      BY DEF Aside
    <3>. QED
      BY <1>4, <2>1, <3>1, AsideOK
  <2>2. CASE q # r
    <3>1. PICK s : s = old[q]
      OBVIOUS
    <3>2. Visible(s.op, rows, log) \subseteq Visible(s.op, rows, log2)
      <4>1. CASE s.op.kind = "list_audit"
        BY <1>3, <4>1 DEF Visible
      <4>2. CASE s.op.kind # "list_audit"
        BY <4>2 DEF Visible
      <4>. QED
        BY <4>1, <4>2
    <3>3. ListOK(s, rows, log2)
      BY <1>5, <1>7, <1>10, <3>1, <3>2, ListKept
    <3>. QED
      BY <1>4, <2>2, <3>1, <3>3
  <2>. QED
    BY <2>1, <2>2
<1>12. \A n \in DOMAIN log2 : DoneOK(new[log2[n].req], log2[n])
  BY <1>3, <1>8
<1>. QED
  BY <1>1, <1>7, <1>11, <1>12 DEF ListInv

LEMMA WriteListed ==
  ASSUME IInv, AuditInv, ListInv, NEW r \in Request, Write(r)
  PROVE  ListInv'
<1>1. PICK s, t, ch, e :
        /\ s = req[r] /\ t = AtPc(s, "written")
        /\ ch = IF s.op.kind \in Changing THEN Changes(s.seen, s.op.want)
                ELSE [deleted |-> [from |-> FALSE, to |-> TRUE]]
        /\ e = Event(r, ch)
  OBVIOUS
<1>2. /\ s.pc = "loaded" /\ s.op.kind \in Changing \cup {"delete"} /\ UNCHANGED rows
      /\ \/ Set(r, Ended(s, 500)) /\ UNCHANGED audit
         \/ Set(r, t) /\ audit' = Append(audit, e)
  BY <1>1 DEF Write, At, Kinds, AtPc
<1>3. IsSession(s) /\ IInv'
  BY <1>1, SessionFacts, WriteStep DEF Shape
<1>4. CASE Set(r, Ended(s, 500)) /\ UNCHANGED audit
  <2>1. PICK f : f = Ended(s, 500)
    OBVIOUS
  <2>2. f.pc = "ended" /\ f.op = s.op /\ Aside(f)
    BY <1>3, <2>1, EndedFields, EndsAside
  <2>. QED
    BY <1>1, <1>2, <1>4, <2>1, <2>2, AsideOK, EndsListed
<1>5. CASE Set(r, t) /\ audit' = Append(audit, e)
  <2>1. t.pc = "written" /\ t.op = s.op
    BY <1>1, <1>3, PcFields
  <2>2. e.req = r /\ e.kind = s.op.kind /\ e.committed = FALSE
    BY <1>1 DEF Event
  <2>3. ASSUME NEW n \in DOMAIN audit, audit[n].req = r
        PROVE  audit[n].kind = "role" /\ s.op.kind = "status"
    <3>1. DoneOK(s, audit[n])
      BY <1>1, <2>3 DEF ListInv
    <3>. QED
      BY <1>2, <3>1 DEF DoneOK
  <2>4. ~e.committed /\ e.kind # "create" /\ e.kind = t.op.kind
    BY <1>2, <2>1, <2>2 DEF Changing
  <2>. QED
    BY <1>2, <1>3, <1>5, <2>1, <2>2, <2>3, <2>4, AppendListed
<1>. QED
  BY <1>2, <1>4, <1>5

LEMMA WriteNewListed ==
  ASSUME IInv, AuditInv, ListInv, NEW r \in Request, WriteNew(r)
  PROVE  ListInv'
<1>1. PICK s, ch : s = req[r] /\ ch = AllNew(NewIncident(req[r].op.want))
  OBVIOUS
<1>2. s.pc = "authorised" /\ s.op.kind = "create" /\ UNCHANGED rows
  BY <1>1 DEF WriteNew, At, Kinds
<1>3. PICK i \in Incident : /\ rows[i] = NoRow /\ Set(r, Inserted(s, i))
                            /\ audit' = Append(audit, NewEvent(r, ch, i))
  BY <1>1 DEF WriteNew, Inserted, NewEvent
<1>4. PICK t, e : t = Inserted(s, i) /\ e = NewEvent(r, ch, i)
  OBVIOUS
<1>5. IsSession(s) /\ IInv' /\ Silent(s)
  BY <1>1, <1>2, SessionFacts, WriteNewStep DEF Shape, Silent
<1>6. t.pc = "written" /\ t.op = s.op
  BY <1>4, <1>5, InsertedFields
<1>7. e.req = r /\ e.kind = s.op.kind /\ e.resource = i /\ e.committed = FALSE
  <2>1. Names(e, r, s.op.kind, i, ch)
    BY <1>1, <1>4, NewEventFields, Zenon
  <2>. QED
    BY <2>1 DEF Names
<1>8. \A n \in DOMAIN audit : audit[n].req # r
  BY <1>1, <1>5 DEF AuditInv, LogOK, OwnerOK
<1>9. Set(r, t) /\ audit' = Append(audit, e) /\ ~e.committed
  BY <1>3, <1>4, <1>7
<1>. QED
  BY <1>2, <1>3, <1>5, <1>6, <1>7, <1>8, <1>9, AppendListed

\* A commit moves no event; a listing that loses an item gives up the rest.
LEMMA NoticedListing ==
  ASSUME NEW s, IsSession(s), NEW must, NEW touched
  PROVE  LET t == NoticedAs(s, must, touched) IN
         t.page = s.page /\ t.got = s.got /\ t.must = must
  BY Zenon DEF NoticedAs, IsSession, Fields

LEMMA CommitSees ==
  ASSUME NEW log, NEW log2, NEW r, Commits(log, log2, r), NEW table, NEW op
  PROVE  Visible(op, table, log) \subseteq Visible(op, table, log2)
<1>1. CASE op.kind = "list_audit"
  <2>1. ASSUME NEW n \in DOMAIN log, log[n].committed
        PROVE  /\ n \in DOMAIN log2 /\ log2[n].committed
               /\ <<log2[n].req, log2[n].kind>> = <<log[n].req, log[n].kind>>
    BY <2>1 DEF Commits
  <2>2. PICK V, W : V = Visible(op, table, log) /\ W = Visible(op, table, log2)
    OBVIOUS
  <2>3. /\ V = {<<log[n].req, log[n].kind>> : n \in {m \in DOMAIN log : log[m].committed}}
        /\ W = {<<log2[n].req, log2[n].kind>> : n \in {m \in DOMAIN log2 : log2[m].committed}}
    BY <1>1, <2>2 DEF Visible
  <2>4. ASSUME NEW x \in V PROVE x \in W
    <3>1. PICK n \in DOMAIN log : log[n].committed /\ x = <<log[n].req, log[n].kind>>
      BY <2>3
    <3>. QED
      BY <2>1, <2>3, <3>1
  <2>. QED
    BY <2>2, <2>4
<1>2. CASE op.kind # "list_audit"
  BY <1>2 DEF Visible
<1>. QED
  BY <1>1, <1>2

LEMMA CommitKept ==
  ASSUME NEW log, TrailOK(log), NEW log2, NEW r, Commits(log, log2, r), NEW table
  PROVE  LET h == [n \in DOMAIN log |-> n] IN Kept(table, log, log2, {}, h)
<1>1. PICK h : h = [n \in DOMAIN log |-> n]
  OBVIOUS
<1>2. \A n \in DOMAIN log : h[n] = n
  BY <1>1
<1>3. Shifted(log, log2, {}, h)
  BY <1>2 DEF Shifted, Commits
<1>4. ASSUME NEW i PROVE SameCreation(log, log2, {}, h, i)
  <2>1. CreationIn(log2, i) \subseteq CreationIn(log, i) /\ CreationIn(log, i) \subseteq DOMAIN log
    BY DEF CreationIn, Commits
  <2>. QED
    BY <1>2, <2>1 DEF SameCreation
<1>. QED
  BY <1>1, <1>3, <1>4 DEF Kept

LEMMA CommitListed ==
  ASSUME IInv, AuditInv, ListInv, NEW r \in Request, Commit(r)
  PROVE  ListInv'
<1>1. PICK old, new, log, log2, table :
        old = req /\ new = req' /\ log = audit /\ log2 = audit' /\ table = rows'
  OBVIOUS
<1>2. Commits(log, log2, r) /\ TrailOK(log) /\ TrailOK(log2) /\ TableOK(table)
  <2>1. IInv'
    BY CommitStep
  <2>. QED
    BY <1>1, <2>1, CommitsTrail DEF IInv
<1>3. /\ old[r].pc = "written" /\ new[r].pc \in {"reread", "ended"}
      /\ \A q \in Request : new[q].op = old[q].op
      /\ \A q \in Request \ {r} : new[q].pc = old[q].pc
  BY <1>1, CommitSessions
<1>4. /\ Once(log) /\ \A n \in DOMAIN log : DoneOK(old[log[n].req], log[n])
      /\ \A q \in Request : ListOK(old[q], rows, log)
  BY <1>1 DEF ListInv
<1>5. DOMAIN log2 = DOMAIN log
      /\ \A n \in DOMAIN log : log2[n].req = log[n].req /\ log2[n].kind = log[n].kind
  BY <1>2 DEF Commits
<1>6. Once(log2)
  BY <1>4, <1>5 DEF Once
<1>7. ASSUME NEW n \in DOMAIN log2 PROVE DoneOK(new[log2[n].req], log2[n])
  <2>1. DoneOK(old[log[n].req], log[n]) /\ log2[n].req = log[n].req /\ log2[n].kind = log[n].kind
    BY <1>4, <1>5
  <2>2. log[n].req \in Request
    BY <1>1, <1>5 DEF AuditInv, LogOK, OwnerOK
  <2>. QED
    BY <1>3, <2>1, <2>2 DEF DoneOK
<1>8. PICK h : h = [n \in DOMAIN log |-> n]
  OBVIOUS
<1>9. Kept(rows, log, log2, {}, h)
  BY <1>2, <1>8, CommitKept
<1>10. ASSUME NEW q \in Request PROVE ListOK(new[q], table, log2)
  <2>1. CASE q = r
    <3>1. Aside(new[r])
      <4>1. old[r].op.kind \in Changing \cup {"delete", "register", "create"}
        BY <1>1, <1>3, SessionFacts DEF KindOK
      <4>. QED
        BY <1>3, <4>1 DEF Aside, Listing, Changing
    <3>. QED
      BY <2>1, <3>1, AsideOK
  <2>2. CASE q # r
    <3>1. PICK s, t, must, touched :
            /\ s = old[q] /\ t = new[q]
            /\ must = IF s.pc = "reading"
                         /\ ~(Visible(s.op, rows, log) \subseteq Visible(s.op, table, log))
                      THEN {} ELSE s.must
            /\ touched = IF s.pc \in {"by_status", "by_severity"}
                         THEN s.touched \cup {i \in Incident : rows[i] # table[i]} ELSE s.touched
      OBVIOUS
    <3>2. t = NoticedAs(s, must, touched)
      <4>1. t = Noticed(s, table)
        BY <1>1, <2>2, <3>1, CommitFacts
      <4>. QED
        BY <1>1, <3>1, <4>1 DEF Noticed, NoticedAs
    <3>3. IsSession(s)
      BY <1>1, <3>1, SessionFacts DEF Shape
    <3>4. t.pc = s.pc /\ t.op = s.op /\ t.answer = s.answer
      BY <3>2, <3>3, NoticedFields
    <3>5. t.page = s.page /\ t.got = s.got /\ t.must = must
      BY <3>2, <3>3, NoticedListing
    <3>6. /\ t.must = s.must \/ (s.pc = "reading" /\ t.must = {})
          /\ s.pc = "reading" /\ t.must # {} =>
               Visible(s.op, rows, log) \subseteq Visible(s.op, table, log)
      BY <3>1, <3>5
    <3>7. Visible(s.op, table, log) \subseteq Visible(s.op, table, log2)
      BY <1>2, CommitSees
    <3>8. ListOK(s, rows, log)
      BY <1>4, <3>1
    <3>9. ListOK(t, table, log2)
      BY <1>2, <1>4, <1>6, <1>9, <3>4, <3>5, <3>6, <3>7, <3>8, ListKept
    <3>. QED
      BY <3>1, <3>9
  <2>. QED
    BY <2>1, <2>2
<1>. QED
  BY <1>1, <1>6, <1>7, <1>10 DEF ListInv

\* A rollback takes an event back that no listing returned: an item that it
\* created is not in the table.
LEMMA WithoutKept ==
  ASSUME NEW log, TrailOK(log), NEW log2, TrailOK(log2), NEW k \in DOMAIN log, NEW g,
         Without(log, log2, k, g), ~log[k].committed, NEW table,
         log[k].kind = "create" => log[k].resource \notin Incidents(table)
  PROVE  LET h == [n \in DOMAIN log |-> CHOOSE m \in DOMAIN log2 : g[m] = n]
         IN  Kept(table, log, log2, {k}, h)
<1>1. PICK h : h = [n \in DOMAIN log |-> CHOOSE m \in DOMAIN log2 : g[m] = n]
  OBVIOUS
<1>2. ASSUME NEW n \in DOMAIN log \ {k} PROVE h[n] \in DOMAIN log2 /\ g[h[n]] = n
  <2>1. \E m \in DOMAIN log2 : g[m] = n
    BY DEF Without
  <2>. QED
    BY <1>1, <2>1
<1>3. \A m \in DOMAIN log2 : g[m] \in DOMAIN log \ {k} /\ log2[m] = log[g[m]]
  BY DEF Without
<1>4. DOMAIN log \subseteq Nat /\ DOMAIN log2 \subseteq Nat
  BY Indices
<1>5. \A m, n \in DOMAIN log2 : m <= n <=> g[m] <= g[n]
  BY DEF Without
<1>6. ASSUME NEW m \in DOMAIN log \ {k}, NEW n \in DOMAIN log \ {k}, m < n PROVE h[m] < h[n]
  <2>1. PICK a, b : a = h[m] /\ b = h[n]
    OBVIOUS
  <2>2. a \in DOMAIN log2 /\ b \in DOMAIN log2 /\ g[a] = m /\ g[b] = n
    BY <1>2, <2>1
  <2>3. ~(b <= a)
    BY <1>4, <1>5, <1>6, <2>2
  <2>. QED
    BY <1>4, <2>1, <2>2, <2>3
<1>7. Shifted(log, log2, {k}, h)
  BY <1>2, <1>3, <1>6 DEF Shifted
<1>8. ASSUME NEW i \in Incidents(table) PROVE SameCreation(log, log2, {k}, h, i)
  <2>1. k \notin CreationIn(log, i)
    BY <1>8 DEF CreationIn
  <2>2. ASSUME NEW m \in CreationIn(log2, i) PROVE \E n \in CreationIn(log, i) : h[n] = m
    <3>1. PICK n : n = g[m]
      OBVIOUS
    <3>2. m \in DOMAIN log2 /\ log2[m] = log[n] /\ n \in DOMAIN log \ {k}
      BY <1>3, <2>2, <3>1 DEF CreationIn
    <3>3. n \in CreationIn(log, i)
      BY <2>2, <3>2 DEF CreationIn
    <3>4. PICK a : a = h[n]
      OBVIOUS
    <3>5. a \in DOMAIN log2 /\ g[a] = g[m]
      BY <1>2, <3>1, <3>2, <3>4
    <3>6. a = m
      BY <1>3, <1>4, <1>5, <3>2, <3>5
    <3>. QED
      BY <3>3, <3>4, <3>6
  <2>. QED
    BY <2>1, <2>2 DEF SameCreation
<1>. QED
  BY <1>1, <1>7, <1>8 DEF Kept

\* What is committed stays in sight.
LEMMA WithoutSees ==
  ASSUME NEW log, NEW log2, NEW k, NEW g, Without(log, log2, k, g), ~log[k].committed,
         NEW table, NEW op
  PROVE  Visible(op, table, log) \subseteq Visible(op, table, log2)
<1>1. CASE op.kind = "list_audit"
  <2>1. PICK V, W : V = Visible(op, table, log) /\ W = Visible(op, table, log2)
    OBVIOUS
  <2>2. /\ V = {<<log[n].req, log[n].kind>> : n \in {m \in DOMAIN log : log[m].committed}}
        /\ W = {<<log2[n].req, log2[n].kind>> : n \in {m \in DOMAIN log2 : log2[m].committed}}
    BY <1>1, <2>1 DEF Visible
  <2>3. ASSUME NEW x \in V PROVE x \in W
    <3>1. PICK n \in DOMAIN log : log[n].committed /\ x = <<log[n].req, log[n].kind>>
      BY <2>2
    <3>2. PICK m \in DOMAIN log2 : log2[m] = log[n]
      BY <3>1 DEF Without
    <3>. QED
      BY <2>2, <3>1, <3>2
  <2>. QED
    BY <2>1, <2>3
<1>2. CASE op.kind # "list_audit"
  BY <1>2 DEF Visible
<1>. QED
  BY <1>1, <1>2

LEMMA FailListed ==
  ASSUME IInv, AuditInv, ListInv, NEW r \in Request, Fail(r)
  PROVE  ListInv'
<1>1. PICK old, new, log, log2, s, t :
        old = req /\ new = req' /\ log = audit /\ log2 = audit' /\ s = req[r] /\ t = Ended(req[r], 500)
  OBVIOUS
<1>2. Set(r, t) /\ UNCHANGED rows
  BY <1>1 DEF Fail
<1>3. new[r] = t /\ \A q \in Request \ {r} : new[q] = old[q]
  BY <1>1, <1>2, SetFacts DEF IInv
<1>4. t.pc = "ended" /\ t.op = s.op /\ Aside(t)
  <2>1. IsSession(s)
    BY <1>1, SessionFacts DEF Shape
  <2>. QED
    BY <1>1, <2>1, EndedFields, EndsAside
<1>5. CASE Pending(r) = {}
  <2>1. UNCHANGED audit
    BY <1>5 DEF Fail
  <2>. QED
    BY <1>1, <1>2, <1>4, <2>1, AsideOK, EndsListed
<1>6. CASE Pending(r) # {}
  <2>1. PICK k : k = CHOOSE m \in Pending(r) : TRUE
    OBVIOUS
  <2>2. k \in Pending(r)
    BY <1>6, <2>1
  <2>3. k \in DOMAIN log /\ log[k].req = r /\ ~log[k].committed /\ log2 = RemoveAt(log, k)
    BY <1>1, <1>6, <2>1, <2>2 DEF Pending, Fail
  <2>4. PICK g : Without(log, log2, k, g)
    BY <1>1, <2>3, Removed DEF IInv
  <2>5. \A m \in DOMAIN log2 : g[m] \in DOMAIN log \ {k} /\ log2[m] = log[g[m]]
    BY <2>4 DEF Without
  <2>6. TrailOK(log) /\ TrailOK(log2) /\ TableOK(rows)
    <3>1. IInv'
      BY FailStep
    <3>. QED
      BY <1>1, <3>1 DEF IInv
  <2>7. /\ Once(log) /\ \A n \in DOMAIN log : DoneOK(old[log[n].req], log[n])
        /\ \A q \in Request : ListOK(old[q], rows, log)
    BY <1>1 DEF ListInv
  <2>8. Once(log2)
    <3>1. SUFFICES ASSUME NEW m \in DOMAIN log2, NEW n \in DOMAIN log2,
                          log2[m].req = log2[n].req, log2[m].kind = log2[n].kind
                   PROVE  m = n
      BY DEF Once
    <3>2. g[m] = g[n]
      BY <2>5, <2>7, <3>1 DEF Once
    <3>3. g[m] \in Nat /\ m \in Nat /\ n \in Nat
      BY <2>5, <2>6, Indices
    <3>4. m <= n /\ n <= m
      BY <2>4, <3>2, <3>3 DEF Without
    <3>. QED
      BY <3>3, <3>4
  <2>9. ASSUME NEW m \in DOMAIN log2 PROVE DoneOK(new[log2[m].req], log2[m])
    <3>1. PICK e : e = log2[m]
      OBVIOUS
    <3>2. DoneOK(old[e.req], e) /\ e.req \in Request
      BY <1>1, <2>5, <2>7, <3>1 DEF AuditInv, LogOK, OwnerOK
    <3>3. CASE e.req = r
      BY <1>1, <1>3, <1>4, <3>1, <3>2, <3>3 DEF DoneOK
    <3>4. CASE e.req # r
      BY <1>3, <3>1, <3>2, <3>4
    <3>. QED
      BY <3>3, <3>4
  <2>10. PICK h : h = [n \in DOMAIN log |-> CHOOSE m \in DOMAIN log2 : g[m] = n]
    OBVIOUS
  <2>11. log[k].kind = "create" => log[k].resource \notin Incidents(rows)
    <3>1. SUFFICES ASSUME log[k].kind = "create" PROVE rows[log[k].resource] = NoRow
      BY DEF Incidents
    <3>2. s.target = log[k].resource /\ s.pc = "written" /\ s.op.kind = "create"
      BY <1>1, <2>3, <3>1 DEF AuditInv, LogOK, OwnerOK, Wanted
    <3>3. TargetOK(s, rows)
      BY <1>1, SessionFacts
    <3>. QED
      BY <3>2, <3>3 DEF TargetOK, Wrote
  <2>12. Kept(rows, log, log2, {k}, h)
    BY <2>3, <2>4, <2>6, <2>10, <2>11, WithoutKept
  <2>13. ASSUME NEW q \in Request PROVE ListOK(new[q], rows, log2)
    <3>1. CASE q = r
      BY <1>3, <1>4, <3>1, AsideOK
    <3>2. CASE q # r
      <4>1. PICK p : p = old[q]
        OBVIOUS
      <4>2. Visible(p.op, rows, log) \subseteq Visible(p.op, rows, log2)
        BY <2>3, <2>4, WithoutSees
      <4>3. ListOK(p, rows, log)
        BY <2>7, <4>1
      <4>4. ListOK(p, rows, log2)
        BY <2>6, <2>7, <2>8, <2>12, <4>2, <4>3, ListKept
      <4>. QED
        BY <1>3, <3>2, <4>1, <4>4
    <3>. QED
      BY <3>1, <3>2
  <2>. QED
    BY <1>1, <1>2, <2>8, <2>9, <2>13 DEF ListInv
<1>. QED
  BY <1>5, <1>6

LEMMA ListInitial == Init => ListInv
<1>. SUFFICES ASSUME Init PROVE ListInv
  OBVIOUS
<1>1. DOMAIN audit = {}
  BY DEF Init
<1>2. ASSUME NEW r \in Request PROVE ListOK(req[r], rows, audit)
  <2>1. req[r].pc = "idle"
    BY DEF Init, Blank
  <2>. QED
    BY <2>1 DEF ListOK
<1>. QED
  BY <1>1, <1>2 DEF ListInv, Once

LEMMA ListInductive == IInv /\ AuditInv /\ ListInv /\ [Next]_vars => ListInv'
<1>. SUFFICES ASSUME IInv, AuditInv, ListInv, [Next]_vars PROVE ListInv'
  OBVIOUS
<1>1. CASE UNCHANGED vars
  BY <1>1 DEF ListInv, vars
<1>2. CASE Next
  <2>1. PICK r \in Request :
          \/ \E op \in Ops : Authorise(r, op) \/ LookUp(r, op) \/ LogIn(r, op) \/ Bootstrap(r, op)
          \/ Load(r) \/ Write(r) \/ WriteNew(r) \/ Insert(r) \/ NextStage(r)
          \/ CountByStatus(r) \/ CountBySeverity(r) \/ CountAffected(r) \/ ReadPage(r)
          \/ Commit(r) \/ Fail(r)
    BY <1>2 DEF Next
  <2>2. CASE \E op \in Ops :
               Authorise(r, op) \/ LookUp(r, op) \/ LogIn(r, op) \/ Bootstrap(r, op)
    BY <2>2, AuthoriseListed, LookUpListed, LogInListed, BootstrapListed
  <2>3. CASE Load(r) \/ Insert(r) \/ NextStage(r)
    BY <2>3, LoadListed, InsertListed, NextStageListed
  <2>4. CASE CountByStatus(r) \/ CountBySeverity(r) \/ CountAffected(r) \/ ReadPage(r)
    BY <2>4, CountListed, ReadPageListed
  <2>5. CASE Write(r) \/ WriteNew(r) \/ Commit(r) \/ Fail(r)
    BY <2>5, WriteListed, WriteNewListed, CommitListed, FailListed
  <2>. QED
    BY <2>1, <2>2, <2>3, <2>4, <2>5
<1>. QED
  BY <1>1, <1>2

LEMMA ListInvariance == Spec => []ListInv
<1>. QED
  BY ListInitial, ListInductive, Invariance, AuditInvariance, PTL DEF Spec

-----------------------------------------------------------------------------
(* The theorems                                                            *)

\* The tables hold rows of their model classes, every event is about a resource
\* and by one of the roles, and every session is in a state its handler can be in.
THEOREM TypeCorrect == Spec => []TypeOK
<1>1. ASSUME IInv PROVE TypeOK
  <2>1. /\ rows \in [Resource -> UserRow \cup IncidentRow \cup {NoRow}]
        /\ \A u \in User : rows[u] \in UserRow \cup {NoRow}
    BY <1>1 DEF IInv, TableOK
  <2>2. ASSUME NEW n \in DOMAIN audit
        PROVE  audit[n].resource \in Resource /\ audit[n].role \in Role
    <3>1. PICK S : audit \in Seq(S) /\ \A e \in S : EventOK(e)
      BY <1>1 DEF IInv, TrailOK
    <3>2. EventOK(audit[n])
      BY <3>1
    <3>. QED
      BY <3>2 DEF EventOK
  <2>3. ASSUME NEW r \in Request
        PROVE  /\ req[r].pc \in {"idle", "authorised", "loaded", "written", "reread", "reading",
                                 "by_status", "by_severity", "ended"}
               /\ req[r].answer \in {0, 200, 201, 204, 400, 401, 403, 404, 409, 500}
    <3>1. req[r].pc \in Pc /\ req[r].answer \in Answers
      BY <1>1, SessionFacts DEF Shape
    <3>. QED
      BY <3>1 DEF Pc, Answers
  <2>. QED
    BY <2>1, <2>2, <2>3 DEF TypeOK
<1>. QED
  BY <1>1, Invariance, PTL

\* However requests on one incident or account overlap and fail, replaying the
\* committed events gives the row: an event is written under the lock of its
\* row, by the transaction whose UPDATE sets exactly the fields it names, and
\* takes its place in the trail before the lock is released.
THEOREM TrailTellsRows == Spec => []AuditReplays
<1>1. ASSUME IInv, AuditInv, NEW x \in Resource
      PROVE  IF \E n \in About(x) : audit[n].kind = "delete" THEN rows[x] = NoRow
             ELSE IF About(x) = {} THEN rows[x] = Registered(x)
             ELSE rows[x] # NoRow /\ \A f \in DOMAIN rows[x] : rows[x][f] = Recorded(x, f)
  <2>1. PICK log, table : log = audit /\ table = rows
    OBVIOUS
  <2>2. /\ About(x) = AboutIn(log, x) /\ Registered(x) = RegisteredIn(table, x)
        /\ \A f : Setting(x, f) = SettingIn(log, x, f)
    BY <2>1 DEF About, AboutIn, Registered, RegisteredIn, Setting, SettingIn
  <2>3. Told(table, log, x)
    BY <1>1, <2>1 DEF AuditInv
  <2>4. Len(log) \in Nat /\ DOMAIN log = 1 .. Len(log)
    BY <1>1, <2>1, Indices DEF IInv
  <2>5. ASSUME NEW f \in DOMAIN table[x], table[x] # NoRow PROVE table[x][f] = Recorded(x, f)
    <3>1. PICK S : S = SettingIn(log, x, f)
      OBVIOUS
    <3>2. CASE S = {}
      BY <2>2, <2>3, <2>5, <3>1, <3>2 DEF Told, Recorded
    <3>3. CASE S # {}
      <4>1. S \subseteq 1 .. Len(log)
        BY <2>4, <3>1 DEF SettingIn, AboutIn
      <4>2. Max(S) \in LatestIn(log, x, f)
        BY <2>4, <3>1, <3>3, <4>1, Latest DEF LatestIn
      <4>3. Recorded(x, f) = log[Max(S)].changes[f].to
        BY <2>1, <2>2, <3>1, <3>3 DEF Recorded
      <4>. QED
        BY <2>3, <2>5, <4>2, <4>3 DEF Told
    <3>. QED
      BY <3>2, <3>3
  <2>. QED
    BY <2>1, <2>2, <2>3, <2>5 DEF Told
<1>2. IInv /\ AuditInv => AuditReplays
  BY <1>1 DEF AuditReplays
<1>. QED
  BY <1>2, Invariance, AuditInvariance, PTL

\* Of the registrations that race for an email address at most one is told 201,
\* the account stored is its own, and 409 is told only of an address that has an
\* account: the unique index lets one pending INSERT through, and nothing that
\* commits later deletes an account or changes its address or password.
THEOREM RegisteredOnce == Spec => []OneAccountPerEmail
<1>1. ASSUME IInv PROVE OneAccountPerEmail
  <2>1. ASSUME NEW e \in Email PROVE Cardinality(WithEmail(e)) <= 1
    <3>1. \A u, v \in WithEmail(e) : u = v
      BY <1>1 DEF WithEmail, IInv, TableOK
    <3>2. CASE WithEmail(e) = {}
      BY <3>2, FS_EmptySet
    <3>3. CASE WithEmail(e) # {}
      <4>1. PICK u : WithEmail(e) = {u}
        BY <3>1, <3>3
      <4>. QED
        BY <4>1, FS_Singleton
    <3>. QED
      BY <3>2, <3>3
  <2>2. ASSUME NEW r \in Request, ToldClient(r, 201)
        PROVE  /\ req[r].target \in WithEmail(req[r].op.want.email)
               /\ rows[req[r].target].password = req[r].op.want.password
    BY <1>1, <2>2, SessionFacts DEF ToldClient, TargetOK, WithEmail
  <2>3. ASSUME NEW r \in Request, ToldClient(r, 409)
        PROVE  WithEmail(req[r].op.want.email) # {}
    BY <1>1, <2>3, SessionFacts DEF ToldClient, TargetOK, NoAccount, WithEmail
  <2>4. ASSUME NEW q \in Request, NEW r \in Request, q # r, ToldClient(q, 201), ToldClient(r, 201)
        PROVE  req[q].op.want.email # req[r].op.want.email
    <3>1. req[q].target # req[r].target
      BY <1>1, <2>4 DEF IInv, Apart, ToldClient
    <3>2. \A u, v \in User :
            rows[u] # NoRow /\ rows[v] # NoRow /\ rows[u].email = rows[v].email => u = v
      BY <1>1 DEF IInv, TableOK
    <3>. QED
      BY <2>2, <2>4, <3>1, <3>2 DEF WithEmail
  <2>. QED
    BY <2>1, <2>2, <2>3, <2>4 DEF OneAccountPerEmail
<1>. QED
  BY <1>1, Invariance, PTL

\* A listing that is read page by page, newest first, while incidents are
\* created, updated and events committed returns everything that was there
\* when it began and stayed in the selection: the place of an item never moves
\* towards the front, and a page is empty only behind the last item.
THEOREM ListingsReturnAll == Spec => []ListingsComplete
<1>1. ListInv => ListingsComplete
  BY DEF ListInv, ListOK, ListingsComplete
<1>. QED
  BY <1>1, ListInvariance, PTL

\* The figures of a dashboard summary contradict each other by no more than the
\* number of incidents that were changed between its three statements: every
\* incident has one status and one severity, and a service is affected only
\* through an active incident.
THEOREM SummaryAgrees == Spec => []SummaryConsistent
<1>1. ASSUME IInv PROVE SummaryConsistent
  BY <1>1, SessionFacts DEF SummaryConsistent, SumOK
<1>. QED
  BY <1>1, Invariance, PTL

\* "Administrator self-lockout protection": the step that leaves no active
\* administrator is taken for an actor who no longer is one.  Only a commit changes an
\* account, the account it changes is not the one it is authorised by, unless it
\* promotes it, and every other administrator stays one.
THEOREM LockOutNeedsStaleActor == Spec => OnlyStaleActorsLockOut
<1>1. ASSUME IInv, [Next]_vars, Administrators # {}, Administrators' = {}
      PROVE  \E r \in Request : /\ req[r].pc = "written" /\ req'[r].pc = "ended"
                                /\ req[r].op.actor \notin Administrators
  <2>1. rows' # rows
    BY <1>1 DEF Administrators
  <2>2. PICK r \in Request : Commit(r)
    <3>1. Next
      BY <1>1, <2>1 DEF vars
    <3>2. ASSUME NEW r \in Request, NEW op \in Ops
          PROVE  ~(Authorise(r, op) \/ LookUp(r, op) \/ LogIn(r, op) \/ Bootstrap(r, op))
      BY <2>1 DEF Authorise, LookUp, LogIn, Bootstrap
    <3>3. ASSUME NEW r \in Request
          PROVE  /\ ~(Load(r) \/ WriteNew(r) \/ Insert(r) \/ NextStage(r))
                 /\ ~(CountByStatus(r) \/ CountBySeverity(r) \/ CountAffected(r))
                 /\ ~(Write(r) \/ ReadPage(r) \/ Fail(r))
      <4>1. ~(Load(r) \/ WriteNew(r) \/ Insert(r) \/ NextStage(r))
        BY <2>1 DEF Load, WriteNew, Insert, NextStage
      <4>2. ~(CountByStatus(r) \/ CountBySeverity(r) \/ CountAffected(r))
        BY <2>1 DEF CountByStatus, CountBySeverity, CountAffected
      <4>3. ~Write(r) /\ ~ReadPage(r) /\ ~Fail(r)
        BY <2>1 DEF Write, ReadPage, Fail
      <4>. QED
        BY <4>1, <4>2, <4>3
    <3>. QED
      BY <3>1, <3>2, <3>3 DEF Next
  <2>3. PICK s, x, w, table : /\ s = req[r] /\ x = req[r].target /\ w = WrittenRow(r)
                              /\ table = rows'
    OBVIOUS
  <2>4. /\ At(r, "written") /\ Keeps(rows, table, x) /\ table[x] = w /\ Stores(s, rows, x, w)
        /\ req'[r] = DoneAfter(s)
    BY <1>1, <2>2, <2>3, CommitFacts
  <2>5. /\ Shape(s) /\ KindOK(s) /\ ActorOK(s, rows) /\ TargetOK(s, rows) /\ Operation(s.op)
        /\ s.pc = "written" /\ s.target = x
    BY <1>1, <2>3, <2>4, SessionFacts DEF At
  <2>6. \A u \in User : ~(table[u] # NoRow /\ table[u].role = "admin" /\ table[u].is_active)
    BY <1>1, <2>3 DEF Administrators
  <2>7. x \in Administrators
    <3>1. PICK u \in Administrators : TRUE
      BY <1>1
    <3>2. u \in User /\ (u # x => table[u] = rows[u])
      BY <2>4, <3>1 DEF Administrators, Keeps, Resource
    <3>. QED
      BY <2>6, <3>1, <3>2 DEF Administrators
  <2>8. s.op.kind \in {"role", "status"} /\ rows[x] \in UserRow
    BY <2>4, <2>7, BackendAssumption DEF Administrators, Stores
  <2>9. s.op.want \notin Promotion
    <3>1. SUFFICES ASSUME s.op.want \in Promotion PROVE FALSE
      OBVIOUS
    <3>2. w = Applied(rows[x], s.seen, s.op.want)
      BY <2>3, <2>5, <2>8 DEF WrittenRow, Kinds, Changing
    <3>3. PICK row, D : row = rows[x] /\ D = DOMAIN Changes(s.seen, s.op.want)
      OBVIOUS
    <3>4. w = [f \in DOMAIN row |-> IF f \in D THEN s.op.want[f] ELSE row[f]]
      BY <3>2, <3>3 DEF Applied
    <3>5. D \subseteq DOMAIN s.op.want
      BY <3>3 DEF Changes
    <3>6. /\ DOMAIN row = {"email", "password", "role", "is_active"} /\ row["role"] = "admin"
          /\ row["is_active"]
      BY <2>7, <2>8, <3>3 DEF Administrators, UserRow
    <3>7. w["role"] = "admin" /\ w["is_active"]
      <4>1. CASE s.op.want = [role |-> "admin"]
        BY <3>4, <3>5, <3>6, <4>1
      <4>2. CASE s.op.want = [is_active |-> TRUE]
        BY <3>4, <3>5, <3>6, <4>2
      <4>. QED
        BY <3>1, <4>1, <4>2 DEF Promotion
    <3>8. w \in UserRow /\ x \in User
      BY <2>4, <2>7, <2>8, BackendAssumption DEF Stores, Administrators
    <3>. QED
      BY <2>4, <2>6, <3>7, <3>8, BackendAssumption
  <2>10. s.op.actor # x /\ s.op.actor \in User
    BY <2>5, <2>8, <2>9
    DEF ActorOK, Authorised, TargetOK, Works, SelfHarm, Promotion, Changing
  <2>11. s.op.actor \notin Administrators
    <3>1. table[s.op.actor] = rows[s.op.actor]
      BY <2>4, <2>10 DEF Keeps, Resource
    <3>. QED
      BY <2>6, <3>1 DEF Administrators
  <2>12. req'[r].pc = "ended"
    <3>1. DoneAfter(s) = Ended(s, Success(s.op.kind))
      BY <2>5, <2>8, <2>9 DEF DoneAfter, KindOK
    <3>2. IsSession(s)
      BY <2>5 DEF Shape
    <3>. QED
      BY <2>4, <3>1, <3>2, EndedFields
  <2>. QED
    BY <2>3, <2>5, <2>11, <2>12
<1>2. IInv /\ [Next]_vars =>
        (Administrators # {} /\ Administrators' = {} =>
           \E r \in Request : /\ req[r].pc = "written" /\ req'[r].pc = "ended"
                              /\ req[r].op.actor \notin Administrators)
  BY <1>1
<1>. QED
  BY <1>2, Invariance, PTL DEF Spec, OnlyStaleActorsLockOut
=============================================================================
