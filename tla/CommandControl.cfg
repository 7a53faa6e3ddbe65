CONSTANTS
  a = a  b = b  None = None
  Station = {a, b}
  Script <- TwoCommands
  Skew <- SecondIsAhead
  MaxAttempts = 2
  MaxAge = 0
  MaxAhead = 0
  DropFirst = 1
  MaxTime = 1
  MaxLives = 2
  MaxFaults = 2
SPECIFICATION Spec
INVARIANTS TypeOK ProcessedInOrder RepliesLogged StationsToldTheTruth
CHECK_DEADLOCK FALSE
