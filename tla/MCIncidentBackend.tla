------------------------- MODULE MCIncidentBackend --------------------------
(***************************************************************************)
(* Instance of IncidentBackend: two administrators and an operator, one    *)
(* account to be registered, two incidents stored and one to be created.   *)
(***************************************************************************)
EXTENDS IncidentBackend, TLC

CONSTANTS a1, a2, o1, u1, u2, i1, i2, i3, e1, e2, e3, e4, p1, p2, p3, s1, s2, r1, r2, r3

Account(e, p, role) == [email |-> e, password |-> p, role |-> role, is_active |-> TRUE]

Start ==
  [x \in Resource |->
     CASE x = a1 -> Account(e1, p1, "admin")
       [] x = a2 -> Account(e2, p2, "admin")
       [] x = o1 -> Account(e4, p2, "operator")
       [] x = i1 -> [service_name |-> s1, severity |-> "high", status |-> "open"]
       [] x = i3 -> [service_name |-> s2, severity |-> "low", status |-> "closed"]
       [] OTHER -> NoRow]

Place == [i \in Incident |-> IF i = i1 THEN 1 ELSE IF i = i2 THEN 2 ELSE 3]

Op(kind, actor, target, want) ==
  [kind |-> kind, actor |-> actor, target |-> target, want |-> want]

Nothing == [f \in {} |-> NoRow]

Accounts ==
  {Op("register", NoRow, NoRow, [email |-> e3, password |-> p]) : p \in {p1, p3}}
  \cup {Op("login", NoRow, NoRow, [email |-> e3, password |-> p3])}
  \cup {Op("bootstrap", NoRow, NoRow, [email |-> e, password |-> p1]) : e \in {e1, e3}}
  \cup {Op("role", a, b, [role |-> "viewer"]) : a \in {a1, a2}, b \in {a1, a2}}
  \cup {Op("status", a1, a2, [is_active |-> FALSE]), Op("status", a2, a1, [is_active |-> FALSE])}

Work ==
  {Op("create", a1, NoRow, [service_name |-> s2, severity |-> "low"]),
   Op("update", a1, i1, [status |-> "investigating", severity |-> "low"]),
   Op("update", o1, i1, [status |-> "resolved"]),
   Op("delete", a2, i1, Nothing), Op("delete", o1, i1, Nothing),
   Op("get", NoRow, i1, Nothing), Op("get", a1, i1, Nothing),
   Op("dashboard", a1, NoRow, Nothing),
   Op("list_incidents", a1, NoRow, Nothing),
   Op("list_incidents", a1, NoRow, [severity |-> "low"]),
   Op("list_audit", a2, NoRow, Nothing)}

Everything == Accounts \cup Work
Sessions == Permutations(Request)
=============================================================================
