CONSTANTS
  o1 = o1  o2 = o2  x1 = x1  x2 = x2  p1 = p1  p2 = p2  NoRow = NoRow
  Order = {o1, o2}
  Caller = {x1, x2}
  Product = {p1, p2}
  Lines <- OpposedLines
  MaxFaults = 1
  Stock <- OnePieceEach
  Faults = {"reply_lost"}
SPECIFICATION Spec
PROPERTY ConfirmsBacked
CHECK_DEADLOCK FALSE
