CONSTANTS
  o1 = o1  o2 = o2  x1 = x1  x2 = x2  p1 = p1  p2 = p2  NoRow = NoRow
  Order = {o1, o2}
  Caller = {x1, x2}
  Product = {p1, p2}
  Lines <- OpposedLines
  MaxFaults = 2
  Stock <- OnePieceEach
  Faults = {"request_lost", "reply_lost", "late_request", "commit_rolled_back", "commit_reply_lost", "crash"}
SPECIFICATION FairSpec
INVARIANTS TypeOK CreationCompensated CancellationCompensated StockAccounted
PROPERTIES FinalStatus RequestsEnd
CHECK_DEADLOCK FALSE
