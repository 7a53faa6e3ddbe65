CONSTANTS
  w1 = w1  w2 = w2  s1 = s1  s2 = s2  j1 = j1  j2 = j2  None = None
  Job = {j1}
  Worker = {w1}
  Slot = {s1, s2}
  WorkerOf <- SharedWorker
  QueueOf <- OneQueue
  QueuesOf <- ServesAll
  Priority <- Priorities
  Rank <- Ranks
  IdRank <- IdRanks
  MaxAttempts <- TwoAttempts
  Lease = 2
  Heartbeat = 1
  RetryBase = 1
  RetryMax = 2
  RecoverLimit = 1
  Skew <- SecondIsFast
  Reliable = {}
  MaxTime = 3
  FaultHorizon = 1
  SlowHorizon = 3
SPECIFICATION Spec
PROPERTY LateReportsIgnored
CHECK_DEADLOCK FALSE
