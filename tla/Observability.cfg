CONSTANTS
  t1 = t1  t2 = t2  k1 = k1  k2 = k2  d1 = d1  d2 = d2  h1 = h1  h2 = h2  h3 = h3  r1 = r1  r2 = r2  r3 = r3  None = None
  Identity = {d1, d2}
  Source <- Sources
  SpanKey <- SpanKeys
  Request = {r1, r2, r3}
  Ops <- Everything
  Items0 <- Stored
  Known0 = {d1}
  Window = 1
  MaxTime = 2
SPECIFICATION Spec
SYMMETRY Sessions
INVARIANTS TypeOK CorrelationsExclusive EarliestUnlessOutweighed PagesNotShort TraceBatchesWhole
PROPERTY ReopenedOnlyByOverlap
CHECK_DEADLOCK FALSE
