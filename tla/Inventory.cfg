CONSTANTS
  c1 = c1  c2 = c2  a = a  b = b  None = None  NoRow = NoRow
  Warehouse = {1, 2}
  Ref = {a, b}
  Request = {c1, c2}
  Quantity = {1, 2}
  MaxInt = 2
SPECIFICATION Spec
INVARIANTS TypeOK LedgerExplains ConstraintsNeverFire ReservationsAddUp OnlyDeletionsDeadlock
PROPERTY NoReservationTwice
CHECK_DEADLOCK FALSE
