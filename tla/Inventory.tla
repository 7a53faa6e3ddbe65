----------------------------- MODULE Inventory ------------------------------
(***************************************************************************)
(* The stock transactions of the inventory service on one product.  Every  *)
(* statement of services/stock.py and of delete_product is keyed by the    *)
(* product, so products do not interact.                                   *)
(*                                                                         *)
(* A request is a PostgreSQL transaction at READ COMMITTED, taken statement*)
(* by statement: the product is looked up, a missing balance is inserted,  *)
(* the balance rows are locked in warehouse order and read, the movements  *)
(* of the reference are summed, the new absolute quantities are flushed    *)
(* with the movements, and the transaction commits.  Deleting the product  *)
(* cascades to its balances and movements and takes locks of its own.      *)
(***************************************************************************)
EXTENDS StockRules, FiniteSets

CONSTANTS
  Warehouse,  \* warehouse ids, as integers: the order of the UUIDs
  Ref,        \* reference_id of orders
  Request,    \* requests served concurrently
  Quantity,   \* quantities of requests
  MaxInt,     \* largest value of an INTEGER column
  None        \* nothing inserted

ASSUME StockAssumption ==
  /\ Warehouse \subseteq Int /\ Warehouse # {}
  /\ Ref # {}
  /\ Quantity \subseteq Nat \ {0}
  /\ MaxInt \in Nat
  /\ None \notin Warehouse
  /\ NoRow \notin [onHand : Int, reserved : Int]

VARIABLES
  product,  \* "new" | "live" | "deleted": the row of products
  balance,  \* [Warehouse -> Row or NoRow]: committed inventory_balances
  ledger,   \* [Warehouse -> Sums]: the committed stock_movements, summed
  tx        \* [Request -> transaction]

vars == <<product, balance, ledger, tx>>

-----------------------------------------------------------------------------
Row == [onHand : Int, reserved : Int]
\* Mutant: an inserted balance has no default for its reserved quantity.
EmptyWithoutDefault == [onHand |-> 0, reserved |-> NoRow]
Empty == [onHand |-> 0, reserved |-> 0]

\* The sums of on_hand_delta and reserved_delta, the latter also by reference.
Sums == [onHand : Int, reserved : Int, own : [Ref -> Int]]
NoMovements == [onHand |-> 0, reserved |-> 0, own |-> [r \in Ref |-> 0]]

\* The CHECK constraints of inventory_balances.
Valid(row) == 0 <= row.reserved /\ row.reserved <= row.onHand

Op == {"receipt", "issue", "reservation", "release", "transfer", "delete"}

\* Where a transaction is: before its INSERT, while its rows are being locked,
\* before the test on the rows, before its flush, before its commit; a deletion
\* before its DELETE and while that cascades.
Pc == {"idle", "inserting", "locking", "deciding", "flushing", "committing",
       "deleting", "cascading"}

Transaction ==
  [pc : Pc, op : Op, from : Warehouse, to : Warehouse, q : Nat, ref : Ref,
   new  : Warehouse \cup {None},              \* balance inserted, uncommitted
   seen : SUBSET Warehouse,                   \* rows the SELECT has gone past
   held : SUBSET Warehouse,                   \* rows locked FOR UPDATE
   read : [Warehouse -> Row \cup {NoRow}]]    \* the rows as read under lock

Idle ==
  [pc |-> "idle", op |-> "issue", from |-> CHOOSE w \in Warehouse : TRUE,
   to |-> CHOOSE w \in Warehouse : TRUE, q |-> 0, ref |-> CHOOSE r \in Ref : TRUE,
   new |-> None, seen |-> {}, held |-> {}, read |-> [w \in Warehouse |-> NoRow]]

Init ==
  /\ product = "new"
  /\ balance = [w \in Warehouse |-> NoRow]
  /\ ledger = [w \in Warehouse |-> NoMovements]
  /\ tx = [c \in Request |-> Idle]

\* The rows a transaction locks, and the one it may have to insert.
Rows(t) == IF t.op = "transfer" THEN {t.from, t.to} ELSE {t.from}
Target(t) == IF t.op = "transfer" THEN t.to ELSE t.from

\* The row the SELECT ... ORDER BY warehouse_id FOR UPDATE comes to next.
Unseen(t) == Rows(t) \ t.seen

\* Mutant: the rows are locked source first.
SourceFirst(t, w) == w \in Unseen(t) /\ (t.from \in Unseen(t) => w = t.from)

NextRow(t, w) == w \in Unseen(t) /\ \A v \in Unseen(t) : w <= v

\* The row as a transaction sees it: committed, or inserted by itself.
Visible(t, w) ==
  IF balance[w] # NoRow THEN balance[w] ELSE IF t.new = w THEN Empty ELSE NoRow

\* Mutant: the row is read without FOR UPDATE.
NeverLocked(c, w) == FALSE

\* Somebody else has row w locked.
LockedByOther(c, w) == \E d \in Request \ {c} : w \in tx[d].held

\* A transaction that inserted a row holds FOR KEY SHARE on the product; a
\* deletion that cascades holds it FOR UPDATE.
KeepsProduct(t) == t.new # None \/ t.pc = "committing"
ProductLocked(c) == \E d \in Request \ {c} : tx[d].pc = "cascading"

\* What the transaction adds to row w.
OnHandDelta(t, w) ==
  IF t.op = "receipt" \/ (t.op = "transfer" /\ w = t.to) THEN t.q
  ELSE IF t.op \in {"issue", "transfer"} THEN -t.q
  ELSE 0
ReservedDelta(t) ==
  IF t.op = "reservation" THEN t.q ELSE IF t.op = "release" THEN -t.q ELSE 0

Written(t, w) ==
  [onHand   |-> t.read[w].onHand + OnHandDelta(t, w),
   reserved |-> t.read[w].reserved + ReservedDelta(t)]

\* No error is raised between the lock and the flush.  A balance that was there
\* for the INSERT may be gone for the SELECT: its product was deleted.
Accepted(t, own) ==
  LET row == t.read[t.from] IN
  \/ t.op = "receipt" /\ row # NoRow
  \/ t.op = "issue" /\ CanTake(row, t.q)
  \/ t.op = "transfer" /\ CanTake(row, t.q) /\ t.read[t.to] # NoRow
  \/ t.op = "reservation" /\ CanReserve(row, own, t.q)
  \/ t.op = "release" /\ CanRelease(row, own, t.q)

-----------------------------------------------------------------------------
(* Requests                                                                *)

\* POST /products
CreateProduct ==
  /\ product = "new"
  /\ product' = "live"
  /\ UNCHANGED <<balance, ledger, tx>>

\* A request begins with _ensure_product_exists.
Begin(c, op, from, to, q, r, pc) ==
  /\ tx[c].pc = "idle" /\ product = "live"
  /\ tx' = [tx EXCEPT ![c] =
              [pc |-> pc, op |-> op, from |-> from, to |-> to, q |-> q, ref |-> r,
               new |-> None, seen |-> {}, held |-> {},
               read |-> [w \in Warehouse |-> NoRow]]]
  /\ UNCHANGED <<product, balance, ledger>>

Receive(c, w, q) == Begin(c, "receipt", w, w, q, Idle.ref, "inserting")
Issue(c, w, q) == Begin(c, "issue", w, w, q, Idle.ref, "locking")
Reserve(c, w, q, r) == Begin(c, "reservation", w, w, q, r, "locking")
Release(c, w, q, r) == Begin(c, "release", w, w, q, r, "locking")
Transfer(c, from, to, q) ==
  from # to /\ Begin(c, "transfer", from, to, q, Idle.ref, "inserting")
DeleteProduct(c) ==
  Begin(c, "delete", Idle.from, Idle.to, 0, Idle.ref, "deleting")

-----------------------------------------------------------------------------
(* Statements                                                              *)

\* Transaction c moves on.
Go(c, pc, new, seen, held, read) ==
  /\ tx' = [tx EXCEPT ![c] =
              [pc |-> pc, op |-> tx[c].op, from |-> tx[c].from, to |-> tx[c].to,
               q |-> tx[c].q, ref |-> tx[c].ref,
               new |-> new, seen |-> seen, held |-> held, read |-> read]]
  /\ UNCHANGED <<product, balance, ledger>>

\* Transaction c moves on with the rows it has.
Proceed(c, pc) ==
  Go(c, pc, tx[c].new, tx[c].seen, tx[c].held, tx[c].read)

\* Every exception ends in database.rollback().
Rollback(c) ==
  /\ tx' = [tx EXCEPT ![c] = Idle]
  /\ UNCHANGED <<product, balance, ledger>>

\* INSERT ... ON CONFLICT DO NOTHING: waits for a transaction that inserted or
\* is deleting the same row, and for one that is deleting the product.
InsertWaits(c, d) ==
  LET w == Target(tx[c]) IN
  \/ tx[d].new = w
  \/ tx[d].pc = "cascading" /\ (balance[w] = NoRow \/ w \in tx[d].held)

InsertBalance(c) ==
  LET w == Target(tx[c]) IN
  /\ tx[c].pc = "inserting"
  /\ \A d \in Request \ {c} : ~InsertWaits(c, d)
  /\ IF balance[w] = NoRow /\ product # "live"
     THEN Rollback(c)  \* foreign key violation
     ELSE Go(c, "locking", IF balance[w] = NoRow THEN w ELSE None, {}, {},
             tx[c].read)

\* SELECT ... FOR UPDATE reaches one row, waits for its lock and reads it.
LockRow(c) ==
  LET t == tx[c] IN
  /\ t.pc = "locking"
  /\ \E w \in Warehouse :
       LET row == Visible(t, w) IN
       /\ NextRow(t, w)
       /\ row # NoRow => ~LockedByOther(c, w)
       /\ Go(c, IF Unseen(t) = {w} THEN "deciding" ELSE "locking", t.new,
             t.seen \cup {w}, IF row # NoRow THEN t.held \cup {w} ELSE t.held,
             [t.read EXCEPT ![w] = row])

\* The sum over the movements of the reference and the tests on the rows.
Decide(c) ==
  LET t == tx[c] IN
  /\ t.pc = "deciding"
  /\ IF Accepted(t, ledger[t.from].own[t.ref])
     THEN Proceed(c, "flushing")
     ELSE Rollback(c)

\* The flush: UPDATE with absolute values, checked by the constraints and the
\* width of the columns, and INSERT of the movements, which needs the product.
Flush(c) ==
  LET t == tx[c] IN
  /\ t.pc = "flushing" /\ ~ProductLocked(c)
  /\ IF /\ product = "live"
        /\ \A w \in Rows(t) : Valid(Written(t, w)) /\ Written(t, w).onHand <= MaxInt
     THEN Proceed(c, "committing")
     ELSE Rollback(c)

Commit(c) ==
  LET t == tx[c] IN
  /\ t.pc = "committing"
  /\ balance' = [w \in Warehouse |->
                   IF w \in Rows(t) THEN Written(t, w) ELSE balance[w]]
  /\ ledger' = [w \in Warehouse |->
       IF w \notin Rows(t) THEN ledger[w]
       ELSE [onHand   |-> ledger[w].onHand + OnHandDelta(t, w),
             reserved |-> ledger[w].reserved + ReservedDelta(t),
             own      |-> [ledger[w].own EXCEPT ![t.ref] = @ + ReservedDelta(t)]]]
  /\ tx' = [tx EXCEPT ![c] = Idle]
  /\ UNCHANGED product

\* DELETE FROM products: waits for every lock on the product; a product that
\* is gone by then is no error.
DeleteRow(c) ==
  /\ tx[c].pc = "deleting" /\ ~ProductLocked(c)
  /\ \A d \in Request \ {c} : ~KeepsProduct(tx[d])
  /\ IF product = "live"
     THEN Proceed(c, "cascading")
     ELSE Rollback(c)

Cascading(c) == {w \in Warehouse : balance[w] # NoRow} \ tx[c].held

\* ON DELETE CASCADE locks the balance rows, in no particular order ...
CascadeRow(c) ==
  /\ tx[c].pc = "cascading"
  /\ \E w \in Cascading(c) :
       /\ ~LockedByOther(c, w)
       /\ Go(c, "cascading", None, {}, tx[c].held \cup {w}, tx[c].read)

\* ... and the commit removes them with all movements.
CommitDelete(c) ==
  /\ tx[c].pc = "cascading" /\ Cascading(c) = {}
  /\ product' = "deleted"
  /\ balance' = [w \in Warehouse |-> NoRow]
  /\ ledger' = [w \in Warehouse |-> NoMovements]
  /\ tx' = [tx EXCEPT ![c] = Idle]

\* The connection or the process fails: PostgreSQL rolls back.
Fail(c) == tx[c].pc # "idle" /\ Rollback(c)

-----------------------------------------------------------------------------
(* Deadlocks                                                               *)

\* c waits for a lock that d holds.
Waits(c, d) ==
  /\ c # d
  /\ \/ tx[c].pc = "inserting" /\ InsertWaits(c, d)
     \/ /\ tx[c].pc = "locking"
        /\ \E w \in tx[d].held : NextRow(tx[c], w) /\ Visible(tx[c], w) # NoRow
     \/ tx[c].pc = "flushing" /\ tx[d].pc = "cascading"
     \/ /\ tx[c].pc = "deleting"
        /\ KeepsProduct(tx[d]) \/ tx[d].pc = "cascading"
     \/ tx[c].pc = "cascading" /\ Cascading(c) \cap tx[d].held # {}

\* Each member of D waits for another one.
Deadlocked(D) == \A c \in D : \E d \in D : Waits(c, d)

\* PostgreSQL ends a deadlock by aborting one of the transactions in it.
DeadlockVictim(c) ==
  /\ \E D \in SUBSET Request : c \in D /\ Deadlocked(D)
  /\ Rollback(c)

-----------------------------------------------------------------------------
Step(c) ==
  \/ InsertBalance(c) \/ LockRow(c) \/ Decide(c) \/ Flush(c) \/ Commit(c)
  \/ DeleteRow(c) \/ CascadeRow(c) \/ CommitDelete(c) \/ DeadlockVictim(c)

Call(c) ==
  \/ \E w \in Warehouse, q \in Quantity : Receive(c, w, q) \/ Issue(c, w, q)
  \/ \E w \in Warehouse, q \in Quantity, r \in Ref :
       Reserve(c, w, q, r) \/ Release(c, w, q, r)
  \/ \E from, to \in Warehouse, q \in Quantity : Transfer(c, from, to, q)
  \/ DeleteProduct(c)

Next ==
  \/ CreateProduct
  \/ \E c \in Request : Call(c) \/ Step(c) \/ Fail(c)

Spec == Init /\ [][Next]_vars

-----------------------------------------------------------------------------
(* Properties                                                              *)

\* The tables and the transactions keep their types.
TypeOK ==
  /\ product \in {"new", "live", "deleted"}
  /\ balance \in [Warehouse -> Row \cup {NoRow}]
  /\ ledger \in [Warehouse -> Sums]
  /\ tx \in [Request -> Transaction]

\* "Atomic inventory balance updates": the quantities of a balance are the sums
\* of its movements although every transaction writes absolute values it read
\* earlier; no update is lost and no movement is left without its effect.
LedgerExplains ==
  \A w \in Warehouse :
    IF balance[w] = NoRow THEN ledger[w] = NoMovements
    ELSE /\ balance[w].onHand = ledger[w].onHand
         /\ balance[w].reserved = ledger[w].reserved

\* The tests of stock.py make the CHECK constraints redundant: what a
\* transaction is about to flush never violates one.
ConstraintsNeverFire ==
  \A c \in Request : tx[c].pc = "flushing" =>
    \A w \in Rows(tx[c]) : Valid(Written(tx[c], w))

\* "Repeated requests must not reserve the same order twice": however two
\* requests of one reference overlap, its reservation is only ever made once
\* until it is released in full.
NoReservationTwice ==
  [][\A w \in Warehouse, r \in Ref :
       ledger'[w].own[r] > ledger[w].own[r] => ledger[w].own[r] = 0]_vars

\* release_stock bounds a release by "this defensive minimum ... even if its
\* audit history becomes inconsistent": it never does, a balance's reserved
\* quantity is exactly what the references still own.
ReservationsAddUp ==
  \A w \in Warehouse :
    /\ \A r \in Ref : ledger[w].own[r] >= 0
    /\ balance[w] # NoRow =>
         balance[w].reserved = Cardinality(Pieces(ledger[w].own))

\* "concurrent opposite-direction transfers request locks in the same order":
\* receipts, issues, reservations, releases and transfers never deadlock among
\* themselves; a deadlock needs a deletion of the product.
OnlyDeletionsDeadlock ==
  \A D \in SUBSET Request :
    D # {} /\ Deadlocked(D) => \E c \in D : tx[c].op = "delete"
=============================================================================
