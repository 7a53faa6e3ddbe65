CONSTANTS
  w1 = w1  w2 = w2  s1 = s1  s2 = s2  j1 = j1  j2 = j2  None = None
  Job = {j1, j2}
  Worker = {w1}
  Slot = {s1, s2}
  WorkerOf <- SharedWorker
  QueueOf <- OneQueue
  QueuesOf <- ServesAll
  Priority <- Priorities
  Rank <- Ranks
  IdRank <- IdRanks
  MaxAttempts <- OneOrTwo
  Lease = 2
  Heartbeat = 1
  RetryBase = 1
  RetryMax = 1
  RecoverLimit = 2
  Skew <- SecondIsFast
  Reliable = {}
  MaxTime = 2
  FaultHorizon = 0
  SlowHorizon = 2
SPECIFICATION Spec
INVARIANTS ClaimsExclusive DeadLetterJustified
PROPERTIES TerminalIsFinal FollowsLifecycle
CHECK_DEADLOCK FALSE
