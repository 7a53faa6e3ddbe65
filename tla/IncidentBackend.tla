-------------------------- MODULE IncidentBackend ---------------------------
(***************************************************************************)
(* The incident backend of the cloud system: accounts, incidents and the   *)
(* audit trail in one PostgreSQL database, changed by concurrent requests  *)
(* and by the bootstrap_admin command.                                     *)
(*                                                                         *)
(* Every request has a session of its own at READ COMMITTED.  What it has  *)
(* read stays in the session and is not read again, so the account that    *)
(* authorised it and the row it compares with may be out of date.  Its     *)
(* UPDATE or DELETE waits for the row lock of another request and holds it *)
(* to the end; the audit event is inserted under that lock and becomes     *)
(* visible with the row, or is rolled back with it.                        *)
(***************************************************************************)
EXTENDS Naturals, FiniteSets, FiniteSetsExt, SequencesExt

CONSTANTS
  User, Incident,  \* identifiers (UUIDs) of accounts and incidents
  Email, Password, Service,
  Request,         \* the requests of a behaviour
  Ops,             \* the operations they may ask for
  Rows0,           \* the tables at the start
  IdPlace,         \* [Incident -> Nat]: the place of an id in the order of ids
  NoRow

Role == {"viewer", "operator", "admin"}
Status == {"open", "investigating", "resolved", "closed"}
Severity == {"low", "medium", "high", "critical"}
ActiveStatus == {"open", "investigating"}

Resource == User \cup Incident
UserRow == [email : Email, password : Password, role : Role, is_active : BOOLEAN]
IncidentRow == [service_name : Service, severity : Severity, status : Status]

\* Requests that need no token, those that change a row they loaded, and
\* those that read page after page.
Public == {"register", "login", "bootstrap"}
Changing == {"role", "status", "update"}
Listing == {"list_incidents", "list_audit"}
Kind == Public \cup Changing \cup Listing \cup {"create", "delete", "get", "dashboard"}

\* What their bodies hold; the fields of an update are optional.
UserCreate == [email : Email, password : Password]
UserUpdate == [role : Role] \cup [is_active : BOOLEAN]
IncidentCreate == [service_name : Service, severity : Severity]
IncidentUpdate(want) ==
  \E row \in IncidentRow : DOMAIN want \subseteq DOMAIN row /\ \A f \in DOMAIN want : want[f] = row[f]

Operation(op) ==
  /\ op \in [kind : Kind, actor : User \cup {NoRow}, target : Resource \cup {NoRow}, want : {op.want}]
  /\ op.kind \in Public => op.want \in UserCreate
  /\ op.kind \in {"role", "status"} => op.want \in UserUpdate /\ op.target \in User
  /\ op.kind = "create" => op.want \in IncidentCreate /\ op.target = NoRow
  /\ op.kind \in {"update", "delete"} => op.target \in Incident
  /\ op.kind \in {"update", "list_incidents"} => IncidentUpdate(op.want)

ASSUME BackendAssumption ==
  /\ User \cap Incident = {} /\ NoRow \notin Resource \cup UserRow \cup IncidentRow
  /\ Rows0 \in [Resource -> UserRow \cup IncidentRow \cup {NoRow}]
  /\ \A u \in User : Rows0[u] \in UserRow \cup {NoRow}
  /\ \A i \in Incident : Rows0[i] \in IncidentRow \cup {NoRow}
  /\ IsFiniteSet({i \in Incident : Rows0[i] # NoRow})
  /\ \A u, v \in {x \in User : Rows0[x] # NoRow} : Rows0[u].email = Rows0[v].email => u = v
  /\ \A op \in Ops : Operation(op)
  /\ IdPlace \in [Incident -> Nat] /\ \A i, j \in Incident : IdPlace[i] = IdPlace[j] => i = j

VARIABLES
  rows,   \* [Resource -> row]: the committed rows of users and incidents
  audit,  \* audit_events in the order of created_at, the pending ones too
  req     \* [Request -> record]: the session of each request

vars == <<rows, audit, req>>

-----------------------------------------------------------------------------
\* The rows.

NewUserWithoutDefaults(want) ==
  [email |-> want.email, password |-> want.password, role |-> NoRow,
   is_active |-> TRUE]
NewUser(want) ==
  [email |-> want.email, password |-> want.password, role |-> "viewer",
   is_active |-> TRUE]

NewIncident(want) ==
  [service_name |-> want.service_name, severity |-> want.severity, status |-> "open"]

\* build_change_set: the requested fields whose value differs.
Changes(seen, want) ==
  [f \in {g \in DOMAIN want : seen[g] # want[g]} |->
     [from |-> seen[f], to |-> want[f]]]
AllNew(row) == [f \in DOMAIN row |-> [from |-> NoRow, to |-> row[f]]]

\* The UPDATE statement sets the attributes that differ from the loaded ones.
AppliedWhole(row, seen, want) ==
  [f \in DOMAIN row |-> IF f \in DOMAIN want THEN want[f] ELSE seen[f]]
Applied(row, seen, want) ==
  [f \in DOMAIN row |-> IF f \in DOMAIN Changes(seen, want) THEN want[f] ELSE row[f]]

Deleted(row) == NoRow

-----------------------------------------------------------------------------
\* Who may do what.

RolesFor(kind) ==
  CASE kind \in {"role", "status", "delete", "list_audit"} -> {"admin"}
    [] kind \in {"create", "update"} -> {"operator", "admin"}
    [] OTHER -> Role

\* The routes refuse to take one's own administrator role or activity.
SelfHarmAllowed(op) == FALSE
SelfHarm(op) ==
  /\ op.kind \in {"role", "status"} /\ op.target = op.actor
  /\ op.want \notin {[role |-> "admin"], [is_active |-> TRUE]}

-----------------------------------------------------------------------------
\* A session.  target and seen are the row it works on and the copy it loaded,
\* actor the copy of the account that authorised it; cli marks the command.
\* got, page and must belong to a listing, sum and touched to the dashboard:
\* must holds the items that a complete listing has to return, touched the
\* incidents that were changed since the first statement (both are history).
NoSum == [status |-> [s \in Status |-> 0], severity |-> [s \in Severity |-> 0],
          affected |-> 0]
Blank ==
  [pc |-> "idle", op |-> NoRow, cli |-> FALSE, actor |-> NoRow, target |-> NoRow,
   seen |-> NoRow, answer |-> 0, got |-> {}, page |-> 0, must |-> {},
   sum |-> NoSum, touched |-> {}]

Started(op) == [Blank EXCEPT !.op = op, !.target = op.target]
Ended(s, answer) ==
  [s EXCEPT !.pc = "ended", !.answer = answer, !.actor = NoRow, !.seen = NoRow]

Init ==
  /\ rows = Rows0
  /\ audit = <<>>
  /\ req = [r \in Request |-> Blank]

Set(r, s) == req' = [req EXCEPT ![r] = s]
At(r, pc) == req[r].pc = pc
Kinds(r, K) == req[r].op.kind \in K

\* Row locks: an UPDATE or DELETE waits for a row another request has written.
LockedByOther(r, x) ==
  /\ rows[x] # NoRow
  /\ \E q \in Request \ {r} : At(q, "written") /\ req[q].target = x

WithEmail(e) == {u \in User : rows[u] # NoRow /\ rows[u].email = e}

\* The unique index on users.email: a pending INSERT makes another one wait,
\* a committed one makes it fail.
InsertPending(r, e) ==
  \E q \in Request \ {r} :
    At(q, "written") /\ Kinds(q, {"register"}) /\ req[q].op.want.email = e
EmailNotUnique(e) == FALSE
EmailTaken(e) == WithEmail(e) # {}

-----------------------------------------------------------------------------
\* The account of a token's subject; NoRow as well for a token that is invalid.
CurrentUser(op) == IF op.actor \in User THEN rows[op.actor] ELSE NoRow

\* get_current_user and require_roles: the account is loaded once.
Authorise(r, op) ==
  /\ At(r, "idle") /\ op.kind \notin Public
  /\ LET row == CurrentUser(op)
         s == [Started(op) EXCEPT !.actor = row]
     IN  Set(r, CASE row = NoRow -> Ended(s, 401)
                  [] row # NoRow /\ ~row.is_active -> Ended(s, 403)
                  [] row # NoRow /\ row.is_active /\ row.role \notin RolesFor(op.kind) -> Ended(s, 403)
                  [] OTHER -> IF SelfHarm(op) THEN Ended(s, 400)
                              ELSE [s EXCEPT !.pc = "authorised"])
  /\ UNCHANGED <<rows, audit>>

\* get_user or get_incident; an object of the session is not read again.  A
\* change set without a difference returns at once.
Load(r) ==
  /\ At(r, "authorised") /\ Kinds(r, Changing \cup {"delete", "get"})
  /\ LET s == req[r]
         row == IF s.target = s.op.actor THEN s.actor ELSE rows[s.target]
     IN  Set(r, CASE row = NoRow -> Ended(s, 404)
                  [] row # NoRow /\ Kinds(r, {"get"}) -> Ended(s, 200)
                  [] row # NoRow /\ Kinds(r, Changing)
                       /\ DOMAIN Changes(row, s.op.want) = {} -> Ended(s, 200)
                  [] OTHER -> [s EXCEPT !.pc = "loaded", !.seen = row])
  /\ UNCHANGED <<rows, audit>>

\* create_audit_event: the event takes its timestamp here.  An actor that
\* changes its own row is recorded with the role it just got.
Event(r, changes) ==
  LET s == req[r] IN
  [req |-> r, kind |-> s.op.kind, resource |-> s.target, changes |-> changes,
   actor |-> s.op.actor, committed |-> FALSE,
   role |-> IF s.target = s.op.actor /\ "role" \in DOMAIN changes
            THEN changes["role"].to ELSE s.actor.role]

\* The flush of a change: the UPDATE of a row that is gone raises
\* StaleDataError, a DELETE that matches no row only warns.
Write(r) ==
  LET s == req[r] IN
  /\ At(r, "loaded") /\ Kinds(r, Changing \cup {"delete"})
  /\ ~LockedByOther(r, s.target)
  /\ IF Kinds(r, Changing) /\ rows[s.target] = NoRow
     THEN Set(r, Ended(s, 500)) /\ UNCHANGED audit
     ELSE /\ Set(r, [s EXCEPT !.pc = "written"])
          /\ audit' = Append(audit, Event(r,
               IF Kinds(r, Changing) THEN Changes(s.seen, s.op.want)
               ELSE [deleted |-> [from |-> FALSE, to |-> TRUE]]))
  /\ UNCHANGED rows

\* create_incident: a fresh id, one INSERT, one event.
WriteNew(r) ==
  LET s == req[r] IN
  /\ At(r, "authorised") /\ Kinds(r, {"create"})
  /\ \E i \in Incident :
       /\ rows[i] = NoRow
       /\ \A q \in Request : req[q].target # i
       /\ Set(r, [s EXCEPT !.pc = "written", !.target = i])
       /\ audit' = Append(audit, [Event(r, AllNew(NewIncident(s.op.want))) EXCEPT !.resource = i])
  /\ UNCHANGED rows

-----------------------------------------------------------------------------
\* register_user: a look-up, then an INSERT that may still meet the index.
LookUp(r, op) ==
  /\ At(r, "idle") /\ op.kind = "register"
  /\ Set(r, IF WithEmail(op.want.email) # {} THEN Ended(Started(op), 409)
            ELSE [Started(op) EXCEPT !.pc = "loaded"])
  /\ UNCHANGED <<rows, audit>>

Insert(r) ==
  LET s == req[r] IN
  /\ At(r, "loaded") /\ Kinds(r, {"register"})
  /\ ~InsertPending(r, s.op.want.email)
  /\ IF EmailTaken(s.op.want.email) THEN Set(r, Ended(s, 409))
     ELSE \E u \in User : /\ rows[u] = NoRow
                          /\ \A q \in Request : req[q].target # u
                          /\ Set(r, [s EXCEPT !.pc = "written", !.target = u])
  /\ UNCHANGED <<rows, audit>>

\* The account whose password hash matches.
Verified(want) == {u \in WithEmail(want.email) : rows[u].password = want.password}

\* authenticate_user; the answer 200 carries a token for target.
LogIn(r, op) ==
  /\ At(r, "idle") /\ op.kind = "login"
  /\ LET found == Verified(op.want)
         u == CHOOSE v \in found : TRUE
     IN  Set(r, CASE found = {} -> Ended(Started(op), 401)
                  [] found # {} /\ ~rows[u].is_active -> Ended(Started(op), 403)
                  [] OTHER -> Ended([Started(op) EXCEPT !.target = u], 200))
  /\ UNCHANGED <<rows, audit>>

\* bootstrap_admin: registers the account if need be, promotes it, activates it.
\* Its session expires at every commit, so each stage begins with a new read.
Stage(s, u, row, mayPromote) ==
  LET change(kind, want) ==
        [s EXCEPT !.pc = "loaded", !.seen = row, !.actor = row, !.target = u,
                  !.op = [kind |-> kind, actor |-> u, target |-> u, want |-> want]]
  IN  IF mayPromote /\ row.role # "admin" THEN change("role", [role |-> "admin"])
      ELSE IF ~row.is_active THEN change("status", [is_active |-> TRUE])
      ELSE Ended(s, 200)

Bootstrap(r, op) ==
  /\ At(r, "idle") /\ op.kind = "bootstrap"
  /\ LET s == [Started(op) EXCEPT !.cli = TRUE]
         found == WithEmail(op.want.email)
         u == CHOOSE v \in found : TRUE
     IN  Set(r, IF found # {} THEN Stage(s, u, rows[u], TRUE)
                ELSE [s EXCEPT !.pc = "loaded", !.op.kind = "register"])
  /\ UNCHANGED <<rows, audit>>

NextStage(r) ==
  /\ At(r, "reread")
  /\ Set(r, Stage(req[r], req[r].target, rows[req[r].target], Kinds(r, {"register"})))
  /\ UNCHANGED <<rows, audit>>

-----------------------------------------------------------------------------
\* Reading.

Incidents(table) == {i \in Incident : table[i] # NoRow}
Count(f, v) == Cardinality({i \in Incidents(rows) : rows[i][f] = v})

\* get_dashboard_summary: three statements.
CountByStatus(r) ==
  /\ At(r, "authorised") /\ Kinds(r, {"dashboard"})
  /\ Set(r, [req[r] EXCEPT !.pc = "by_status",
                           !.sum.status = [s \in Status |-> Count("status", s)]])
  /\ UNCHANGED <<rows, audit>>

CountBySeverity(r) ==
  /\ At(r, "by_status")
  /\ Set(r, [req[r] EXCEPT !.pc = "by_severity",
                           !.sum.severity = [s \in Severity |-> Count("severity", s)]])
  /\ UNCHANGED <<rows, audit>>

AffectedByAny(table) == {table[i].service_name : i \in Incidents(table)}
Affected(table) ==
  {table[i].service_name : i \in {j \in Incidents(table) : table[j].status \in ActiveStatus}}

CountAffected(r) ==
  /\ At(r, "by_severity")
  /\ Set(r, Ended([req[r] EXCEPT !.sum.affected = Cardinality(Affected(rows))], 200))
  /\ UNCHANGED <<rows, audit>>

\* created_at of an incident is the time of the event inserted with it.
CreationOf(i) ==
  {n \in DOMAIN audit : audit[n].resource = i /\ audit[n].kind = "create"}
CreatedAt(i) == Max(CreationOf(i) \cup {0})
UpdatedAt(i) == Max({n \in DOMAIN audit : audit[n].resource = i} \cup {0})

\* What a listing selects from: incidents that match the filters, or events.
Visible(op, table, log) ==
  IF op.kind = "list_audit"
  THEN {<<log[n].req, log[n].kind>> : n \in {m \in DOMAIN log : log[m].committed}}
  ELSE {i \in Incidents(table) : \A f \in DOMAIN op.want : table[i][f] = op.want[f]}

\* ORDER BY created_at DESC, id DESC.
EventAt(e) == CHOOSE n \in DOMAIN audit : <<audit[n].req, audit[n].kind>> = e
NewestUpdateFirst(op, x, y) ==
  IF op.kind = "list_audit" THEN EventAt(x) > EventAt(y) ELSE UpdatedAt(x) > UpdatedAt(y)
NewestFirst(op, x, y) ==
  IF op.kind = "list_audit" THEN EventAt(x) > EventAt(y)
  ELSE \/ CreatedAt(x) > CreatedAt(y)
       \/ CreatedAt(x) = CreatedAt(y) /\ IdPlace[x] > IdPlace[y]

\* OFFSET n LIMIT 1: the item that n others precede.
Page(op, n) ==
  LET items == Visible(op, rows, audit)
  IN  {x \in items : Cardinality({y \in items : NewestFirst(op, y, x)}) = n}

\* One page of one item; the reader goes on until a page is empty.
ReadPage(r) ==
  LET s == req[r]
      page == Page(s.op, s.page)
      t == [s EXCEPT !.pc = "reading", !.page = @ + 1,
                     !.must = IF At(r, "authorised") THEN Visible(s.op, rows, audit) ELSE @,
                     !.got = @ \cup page]
  IN  /\ At(r, "authorised") \/ At(r, "reading")
      /\ Kinds(r, Listing)
      /\ Set(r, IF page # {} THEN t ELSE Ended(t, 200))
      /\ UNCHANGED <<rows, audit>>

-----------------------------------------------------------------------------
\* The commit makes the row and its event visible together.
WrittenRow(r) ==
  LET s == req[r] IN
  CASE Kinds(r, Changing) -> Applied(rows[s.target], s.seen, s.op.want)
    [] Kinds(r, {"delete"}) -> Deleted(rows[s.target])
    [] Kinds(r, {"create"}) -> NewIncident(s.op.want)
    [] Kinds(r, {"register"}) -> NewUser(s.op.want)

\* What other sessions notice of a commit (history only): a listing that lost
\* an item is no longer accountable for the others, a dashboard between two
\* statements may be wrong about the incident.
Noticed(s, table) ==
  [s EXCEPT !.must = IF s.pc = "reading"
                        /\ ~(Visible(s.op, rows, audit) \subseteq Visible(s.op, table, audit))
                     THEN {} ELSE @,
            !.touched = IF s.pc \in {"by_status", "by_severity"}
                        THEN @ \cup {i \in Incident : rows[i] # table[i]} ELSE @]

Success(kind) ==
  CASE kind \in Changing -> 200 [] kind = "delete" -> 204 [] kind \in {"create", "register"} -> 201

Commit(r) ==
  LET s == req[r]
      table == [rows EXCEPT ![s.target] = WrittenRow(r)]
      done == IF s.cli /\ ~Kinds(r, {"status"}) THEN [s EXCEPT !.pc = "reread"]
              ELSE Ended(s, Success(s.op.kind))
  IN  /\ At(r, "written")
      /\ rows' = table
      /\ audit' = [n \in DOMAIN audit |->
                     IF audit[n].req = r THEN [audit[n] EXCEPT !.committed = TRUE] ELSE audit[n]]
      /\ req' = [q \in Request |-> IF q = r THEN done ELSE Noticed(req[q], table)]

\* The event of a transaction that is not committed: it has one at most.
Pending(r) == {n \in DOMAIN audit : audit[n].req = r /\ ~audit[n].committed}

\* Any statement or the commit may raise, or the process die: the transaction
\* is rolled back.
Fail(r) ==
  /\ req[r].pc \notin {"idle", "ended"}
  /\ Set(r, Ended(req[r], 500))
  /\ audit' = IF Pending(r) = {} THEN audit ELSE RemoveAt(audit, CHOOSE n \in Pending(r) : TRUE)
  /\ UNCHANGED rows

Next ==
  \E r \in Request :
    \/ \E op \in Ops : Authorise(r, op) \/ LookUp(r, op) \/ LogIn(r, op) \/ Bootstrap(r, op)
    \/ Load(r) \/ Write(r) \/ WriteNew(r) \/ Insert(r) \/ NextStage(r)
    \/ CountByStatus(r) \/ CountBySeverity(r) \/ CountAffected(r) \/ ReadPage(r)
    \/ Commit(r) \/ Fail(r)

Spec == Init /\ [][Next]_vars

-----------------------------------------------------------------------------
\* The tables hold rows of their model classes and every session is in a state
\* its handler can be in.
TypeOK ==
  /\ rows \in [Resource -> UserRow \cup IncidentRow \cup {NoRow}]
  /\ \A u \in User : rows[u] \in UserRow \cup {NoRow}
  /\ \A n \in DOMAIN audit : audit[n].resource \in Resource /\ audit[n].role \in Role
  /\ \A r \in Request :
       /\ req[r].pc \in {"idle", "authorised", "loaded", "written", "reread", "reading",
                         "by_status", "by_severity", "ended"}
       /\ req[r].answer \in {0, 200, 201, 204, 400, 401, 403, 404, 409, 500}

\* The committed events about a resource, and those of them that set a field.
About(x) == {n \in DOMAIN audit : audit[n].resource = x /\ audit[n].committed}
Setting(x, f) == {n \in About(x) : f \in DOMAIN audit[n].changes}

\* The row before its first event: a registration leaves no event.
Registered(x) == IF Rows0[x] = NoRow /\ x \in User /\ rows[x] # NoRow
                 THEN [rows[x] EXCEPT !.role = "viewer", !.is_active = TRUE]
                 ELSE Rows0[x]

\* The value of a field by the trail: the one its latest event set.
Recorded(x, f) ==
  IF Setting(x, f) = {} THEN Registered(x)[f] ELSE audit[Max(Setting(x, f))].changes[f].to

\* However requests on one incident or account overlap and fail, the values
\* the audit trail says were set, in the order of its timestamps, are the
\* values the row has: no update is lost, unrecorded or recorded in vain.
AuditReplays ==
  \A x \in Resource :
    IF \E n \in About(x) : audit[n].kind = "delete" THEN rows[x] = NoRow
    ELSE IF About(x) = {} THEN rows[x] = Registered(x)
    ELSE rows[x] # NoRow /\ \A f \in DOMAIN rows[x] : rows[x][f] = Recorded(x, f)

\* What register told its clients is true of the table, whichever of several
\* registrations of one email address comes first at the unique index: at most
\* one is told 201, the account of whoever was told 201 has the address and the
\* password asked for, and 409 is the answer only if the address has an account.
ToldClient(r, answer) == req[r].answer = answer /\ req[r].op.kind = "register"
OneAccountPerEmail ==
  /\ \A e \in Email : Cardinality(WithEmail(e)) <= 1
  /\ \A r \in Request :
       /\ ToldClient(r, 201) => /\ req[r].target \in WithEmail(req[r].op.want.email)
                               /\ rows[req[r].target].password = req[r].op.want.password
       /\ ToldClient(r, 409) => WithEmail(req[r].op.want.email) # {}
  /\ \A q, r \in Request :
       q # r /\ ToldClient(q, 201) /\ ToldClient(r, 201) =>
         req[q].op.want.email # req[r].op.want.email

Administrators == {u \in User : rows[u] # NoRow /\ rows[u].role = "admin" /\ rows[u].is_active}

\* "Administrator self-lockout protection": the step that leaves no active
\* administrator is never taken for an actor who still is one, only for one who
\* was demoted or deactivated after the request was authorised, as when two
\* administrators remove each other at the same time.
OnlyStaleActorsLockOut ==
  [][Administrators # {} /\ Administrators' = {} =>
       \E r \in Request : /\ req[r].pc = "written" /\ req'[r].pc = "ended"
                          /\ req[r].op.actor \notin Administrators]_vars

\* A listing read page by page, newest first, returns everything that was there
\* when it began, whatever is created or updated between two pages, unless an
\* item left the selection meanwhile.
ListingsComplete ==
  \A r \in Request :
    req[r].pc = "ended" /\ req[r].answer = 200 /\ req[r].op.kind \in Listing =>
      req[r].must \subseteq req[r].got

\* The three statements of a dashboard summary see three states of the table,
\* but its figures contradict each other by no more than the number of
\* incidents that were changed meanwhile, and not at all if none was.
Agreeing(sum, n) ==
  LET active == sum.status["open"] + sum.status["investigating"]
      byStatus == active + sum.status["resolved"] + sum.status["closed"]
      bySeverity == sum.severity["low"] + sum.severity["medium"]
                      + sum.severity["high"] + sum.severity["critical"]
  IN  /\ byStatus <= bySeverity + n /\ bySeverity <= byStatus + n
      /\ sum.affected <= active + n
      /\ sum.affected = 0 => active <= n

SummaryConsistent ==
  \A r \in Request :
    req[r].pc = "ended" /\ req[r].answer = 200 /\ req[r].op.kind = "dashboard" =>
      Agreeing(req[r].sum, Cardinality(req[r].touched))
=============================================================================
