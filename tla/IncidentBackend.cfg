CONSTANTS
  a1 = a1  a2 = a2  o1 = o1  u1 = u1  u2 = u2  i1 = i1  i2 = i2  i3 = i3  e1 = e1  e2 = e2  e3 = e3  e4 = e4
  p1 = p1  p2 = p2  p3 = p3  s1 = s1  s2 = s2  r1 = r1  r2 = r2  r3 = r3  NoRow = NoRow
  User = {a1, a2, o1, u1, u2}
  Incident = {i1, i2, i3}
  Email = {e1, e2, e3, e4}
  Password = {p1, p2, p3}
  Service = {s1, s2}
  Request = {r1, r2, r3}
  Ops <- Everything
  IdPlace <- Place
  Rows0 <- Start
SPECIFICATION Spec
SYMMETRY Sessions
INVARIANTS TypeOK AuditReplays OneAccountPerEmail ListingsComplete SummaryConsistent
PROPERTY OnlyStaleActorsLockOut
CHECK_DEADLOCK FALSE
