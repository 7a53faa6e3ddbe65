----------------------------- MODULE StockRules -----------------------------
(***************************************************************************)
(* The tests that services/stock.py of the inventory service makes on a    *)
(* locked balance row before it changes it.  own is the quantity that the  *)
(* movements of one order reference still reserve.                         *)
(***************************************************************************)
EXTENDS Integers

CONSTANT NoRow  \* the row does not exist

Available(row) == row.onHand - row.reserved

\* Mutant: reserved stock may leave too.
CanTakeReserved(row, q) == row # NoRow /\ q <= row.onHand

\* issue_stock and transfer_stock: only unreserved stock may leave.
CanTake(row, q) == row # NoRow /\ q <= Available(row)

\* Mutant: a reference may reserve again what it already holds.
CanReserveAgain(row, own, q) == CanTake(row, q)

\* reserve_stock: one reservation at a time for a reference.
CanReserve(row, own, q) == own <= 0 /\ CanTake(row, q)

\* Mutant: any reserved stock may be released, whoever owns it.
CanReleaseAny(row, own, q) == row # NoRow /\ q <= row.reserved

\* release_stock: no more than the reference owns and the balance shows.
CanRelease(row, own, q) ==
  /\ row # NoRow
  /\ q <= IF own < row.reserved THEN own ELSE row.reserved

\* The pieces that are reserved when own[r] is what reference r reserves.
Pieces(own) == UNION {{r} \X (1..own[r]) : r \in DOMAIN own}
=============================================================================
