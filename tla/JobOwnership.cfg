CONSTANTS
  w1 = w1  w2 = w2  s1 = s1  s2 = s2  j1 = j1  j2 = j2  None = None
  Job = {j1}
  Worker = {w1, w2}
  Slot = {s1, s2}
  WorkerOf <- SeparateWorkers
  QueueOf <- OneQueue
  QueuesOf <- ServesAll
  Priority <- Priorities
  Rank <- Ranks
  IdRank <- IdRanks
  MaxAttempts <- TwoAttempts
  Lease = 2
  Heartbeat = 1
  RetryBase = 1
  RetryMax = 2
  RecoverLimit = 1
  Skew <- SecondIsFast
  Reliable = {w2}
  MaxTime = 3
  FaultHorizon = 1
  SlowHorizon = 3
SPECIFICATION Spec
INVARIANTS TypeOK ResultOfLastAttempt
PROPERTIES LateReportsIgnored LeaseOnlyExtended
CHECK_DEADLOCK FALSE
