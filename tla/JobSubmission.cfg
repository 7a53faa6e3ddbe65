CONSTANTS
  k1 = k1  k2 = k2  w1 = w1  w2 = w2  q1 = q1  q2 = q2  None = None
  Key = {k1, k2}
  Work = {w1, w2}
  Queue = {q1, q2}
  QueueOf <- Queues
  Request = {r1, r2, r3}
  Ops <- Everything
SPECIFICATION Spec
SYMMETRY Sessions
INVARIANTS TypeOK OneJobPerKey
CHECK_DEADLOCK FALSE
