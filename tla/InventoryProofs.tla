-------------------------- MODULE InventoryProofs ---------------------------
(***************************************************************************)
(* Theorems about Inventory, for any number of concurrent requests,        *)
(* warehouses, references and quantities.  What carries them is that a     *)
(* transaction that holds a row's lock holds it alone and that what it     *)
(* read of the row is still so when it writes.                             *)
(***************************************************************************)
EXTENDS Inventory, StockRulesProofs, WellFoundedInduction

\* Past its INSERT; past its test.
Locking(t) == t.pc \in {"locking", "deciding", "flushing", "committing"}
Decided(t) == t.pc \in {"flushing", "committing"}

\* Only a transaction past its INSERT has inserted a row, and nobody else has
\* committed that row; only such a one or a cascading deletion holds locks.
LocksOK(t) ==
  /\ t.new # None => Locking(t) /\ t.new \in Warehouse /\ balance[t.new] = NoRow
  /\ t.held # {} => Locking(t) \/ t.pc = "cascading"
  /\ \A w \in t.held : Visible(t, w) # NoRow

\* What was read under lock is still the row.
ReadOK(t) ==
  Locking(t) =>
    /\ t.held \subseteq t.seen /\ t.seen \subseteq Rows(t)
    /\ \A w \in t.held : t.read[w] = Visible(t, w)
    /\ \A w \in t.seen \ t.held : t.read[w] = NoRow
    /\ t.pc # "locking" => t.seen = Rows(t)
    /\ t.op # "delete" /\ (t.op = "transfer" => t.from # t.to)
    /\ t.q > 0

\* What the test established still holds until the commit.
DecidedOK(t) ==
  Decided(t) =>
    /\ Rows(t) \subseteq t.held
    /\ \A w \in Rows(t) : Valid(Written(t, w))
    /\ t.op = "reservation" => ledger[t.from].own[t.ref] <= 0
    /\ t.op = "release" => t.q <= ledger[t.from].own[t.ref]

\* A transfer has two warehouses, and every stock request a quantity.
RequestOK(t) ==
  t.pc = "inserting" => /\ t.op # "delete" /\ (t.op = "transfer" => t.from # t.to)
                        /\ t.q > 0

TxOK(t) == LocksOK(t) /\ ReadOK(t) /\ DecidedOK(t) /\ RequestOK(t)

\* Locks, inserts and deletions exclude each other.
Exclusive(t, u) ==
  /\ t.held \cap u.held = {}
  /\ t.new # None => t.new # u.new
  /\ t.pc = "cascading" => u.pc # "cascading" /\ ~KeepsProduct(u)

RowOK(w) ==
  /\ balance[w] # NoRow => Valid(balance[w])
  /\ \A r \in Ref : ledger[w].own[r] >= 0

\* The inductive invariant.
IInv ==
  /\ TypeOK
  /\ \A c \in Request : TxOK(tx[c])
  /\ \A c, d \in Request : c # d => Exclusive(tx[c], tx[d])
  /\ \A w \in Warehouse : RowOK(w)
  /\ LedgerExplains

-----------------------------------------------------------------------------
\* What a transaction knows does not depend on the others: with the tables
\* unchanged it is still so after the step.
LEMMA TxOKStable ==
  ASSUME UNCHANGED <<balance, ledger>>, NEW c \in Request, TxOK(tx[c]),
         tx'[c] = tx[c]
  PROVE  TxOK(tx[c])'
<1>1. \A w \in Warehouse : Visible(tx[c], w)' = Visible(tx[c], w)
  BY DEF Visible
<1>2. LocksOK(tx[c])'
  BY DEF TxOK, LocksOK, Locking, Visible
<1>3. ReadOK(tx[c])'
  BY DEF TxOK, ReadOK, Locking, Rows, Visible
<1>4. DecidedOK(tx[c])'
  BY DEF TxOK, DecidedOK, Decided, Rows, Written, OnHandDelta, ReservedDelta, Valid
<1>5. RequestOK(tx[c])'
  BY DEF TxOK, RequestOK
<1>. QED
  BY <1>2, <1>3, <1>4, <1>5 DEF TxOK

\* A step that only moves one transaction.
LEMMA OneTx ==
  ASSUME IInv, NEW c \in Request, NEW t \in Transaction,
         tx' = [tx EXCEPT ![c] = t],
         UNCHANGED <<product, balance, ledger>>,
         TxOK(t),
         \A d \in Request \ {c} : Exclusive(t, tx[d]) /\ Exclusive(tx[d], t)
  PROVE  IInv'
<1>0. tx \in [Request -> Transaction]
  BY DEF IInv, TypeOK
<1>1. tx'[c] = t /\ \A d \in Request \ {c} : tx'[d] = tx[d]
  BY <1>0
<1>2. TypeOK'
  BY <1>0 DEF IInv, TypeOK
<1>3. TxOK(tx[c])'
  <2>1. LocksOK(tx[c])'
    BY <1>1 DEF TxOK, LocksOK, Locking, Visible
  <2>2. ReadOK(tx[c])'
    BY <1>1 DEF TxOK, ReadOK, Locking, Rows, Visible
  <2>3. DecidedOK(tx[c])'
    BY <1>1 DEF TxOK, DecidedOK, Decided, Rows, Written, OnHandDelta, ReservedDelta, Valid
  <2>4. RequestOK(tx[c])'
    BY <1>1 DEF TxOK, RequestOK
  <2>. QED
    BY <2>1, <2>2, <2>3, <2>4 DEF TxOK
<1>4. ASSUME NEW d \in Request PROVE TxOK(tx[d])'
  BY <1>1, <1>3, TxOKStable DEF IInv
<1>5. ASSUME NEW d \in Request, NEW e \in Request, d # e
      PROVE  Exclusive(tx[d], tx[e])'
  BY <1>1, <1>5 DEF IInv, Exclusive, KeepsProduct
<1>6. (\A w \in Warehouse : RowOK(w)') /\ LedgerExplains'
  BY DEF IInv, RowOK, Valid, LedgerExplains
<1>. QED
  BY <1>2, <1>4, <1>5, <1>6 DEF IInv

\* A transaction without locks disturbs nobody.
LEMMA FreshExclusive ==
  ASSUME IInv, NEW c \in Request, NEW t \in Transaction,
         t.held = {}, t.new = None, t.pc \notin {"committing", "cascading"}
  PROVE  \A d \in Request \ {c} : Exclusive(t, tx[d]) /\ Exclusive(tx[d], t)
  BY DEF Exclusive, KeepsProduct

\* The state of no request is a transaction.
LEMMA IdleType == Idle \in Transaction
  BY StockAssumption DEF Idle, Transaction, Pc, Op

\* A rollback preserves the invariant.
LEMMA RollbackStep ==
  ASSUME IInv, NEW c \in Request, Rollback(c)
  PROVE  IInv'
<1>1. /\ Idle.held = {} /\ Idle.new = None /\ Idle.pc = "idle"
  BY DEF Idle
<1>2. TxOK(Idle)
  BY <1>1 DEF TxOK, LocksOK, ReadOK, DecidedOK, RequestOK, Locking, Decided
<1>. QED
  BY <1>1, <1>2, IdleType, FreshExclusive, OneTx DEF Rollback

\* So does the start of a request.
LEMMA BeginStep ==
  ASSUME IInv, NEW c \in Request, Call(c)
  PROVE  IInv'
<1>0. Idle.ref \in Ref /\ Idle.from \in Warehouse /\ Idle.to \in Warehouse
  BY IdleType DEF Transaction
<1>1. PICK op \in Op, from \in Warehouse, to \in Warehouse, q \in Nat, r \in Ref,
           pc \in {"inserting", "locking", "deleting"} :
        /\ Begin(c, op, from, to, q, r, pc)
        /\ pc # "deleting" => /\ op # "delete" /\ q > 0
                              /\ op = "transfer" => from # to
  <2>1. CASE \E w \in Warehouse, q \in Quantity : Receive(c, w, q) \/ Issue(c, w, q)
    BY <1>0, <2>1, StockAssumption DEF Receive, Issue, Op
  <2>2. CASE \E w \in Warehouse, q \in Quantity, r \in Ref :
               Reserve(c, w, q, r) \/ Release(c, w, q, r)
    BY <2>2, StockAssumption DEF Reserve, Release, Op
  <2>3. CASE \E from, to \in Warehouse, q \in Quantity : Transfer(c, from, to, q)
    BY <1>0, <2>3, StockAssumption DEF Transfer, Op
  <2>4. CASE DeleteProduct(c)
    BY <1>0, <2>4 DEF DeleteProduct, Op
  <2>. QED
    BY <2>1, <2>2, <2>3, <2>4 DEF Call
<1> DEFINE t == [pc |-> pc, op |-> op, from |-> from, to |-> to, q |-> q, ref |-> r,
                 new |-> None, seen |-> {}, held |-> {},
                 read |-> [w \in Warehouse |-> NoRow]]
<1>2. t \in Transaction
  BY DEF Transaction, Pc
<1>3. TxOK(t)
  BY <1>1 DEF TxOK, LocksOK, ReadOK, DecidedOK, RequestOK, Locking, Decided
<1>4. tx' = [tx EXCEPT ![c] = t] /\ UNCHANGED <<product, balance, ledger>>
  BY <1>1 DEF Begin
<1>. QED
  BY <1>2, <1>3, <1>4, FreshExclusive, OneTx, ZenonT(60)

-----------------------------------------------------------------------------
\* INSERT ... ON CONFLICT DO NOTHING preserves the invariant.
LEMMA InsertStep ==
  ASSUME IInv, NEW c \in Request, InsertBalance(c)
  PROVE  IInv'
<1> DEFINE w == Target(tx[c])
<1>0. /\ tx[c] \in Transaction /\ w \in Warehouse /\ TxOK(tx[c])
      /\ tx[c].read \in [Warehouse -> Row \cup {NoRow}]
  BY DEF IInv, TypeOK, Transaction, Target
<1>1. CASE Rollback(c)
  BY <1>1, RollbackStep
<1>2. CASE Go(c, "locking", IF balance[w] = NoRow THEN w ELSE None, {}, {}, tx[c].read)
  <2> DEFINE n == IF balance[w] = NoRow THEN w ELSE None
  <2>1. PICK t \in Transaction :
           /\ tx' = [tx EXCEPT ![c] = t] /\ UNCHANGED <<product, balance, ledger>>
           /\ t.pc = "locking" /\ t.new = n /\ t.seen = {} /\ t.held = {}
           /\ t.op = tx[c].op /\ t.from = tx[c].from /\ t.to = tx[c].to
           /\ t.q = tx[c].q
    <3> DEFINE v == [pc |-> "locking", op |-> tx[c].op, from |-> tx[c].from,
                     to |-> tx[c].to, q |-> tx[c].q, ref |-> tx[c].ref, new |-> n,
                     seen |-> {}, held |-> {}, read |-> tx[c].read]
    <3>1. v \in Transaction
      BY <1>0 DEF Transaction, Pc
    <3>2. tx' = [tx EXCEPT ![c] = v] /\ UNCHANGED <<product, balance, ledger>>
      BY <1>2 DEF Go
    <3>. QED
      BY <3>1, <3>2
  <2>2. TxOK(t)
    BY <1>0, <2>1, StockAssumption
       DEF TxOK, LocksOK, ReadOK, DecidedOK, RequestOK, Locking, Decided, InsertBalance
  <2>3. ASSUME NEW d \in Request \ {c} PROVE Exclusive(t, tx[d]) /\ Exclusive(tx[d], t)
    BY <2>1, <2>3 DEF Exclusive, KeepsProduct, InsertBalance, InsertWaits
  <2>. QED
    BY <2>1, <2>2, <2>3, OneTx
<1>. QED
  BY <1>1, <1>2 DEF InsertBalance

\* Locking and reading the next row preserves it.
LEMMA LockStep ==
  ASSUME IInv, NEW c \in Request, LockRow(c)
  PROVE  IInv'
<1> DEFINE u == tx[c]
<1>0. /\ u \in Transaction /\ TxOK(u) /\ u.pc = "locking"
      /\ u.read \in [Warehouse -> Row \cup {NoRow}]
      /\ u.seen \in SUBSET Warehouse /\ u.held \in SUBSET Warehouse
      /\ u.new \in Warehouse \cup {None}
      /\ balance \in [Warehouse -> Row \cup {NoRow}]
  BY DEF IInv, TypeOK, Transaction, LockRow
<1>1. PICK w \in Warehouse :
        /\ NextRow(u, w)
        /\ Visible(u, w) # NoRow => ~LockedByOther(c, w)
        /\ Go(c, IF Unseen(u) = {w} THEN "deciding" ELSE "locking", u.new,
              u.seen \cup {w},
              IF Visible(u, w) # NoRow THEN u.held \cup {w} ELSE u.held,
              [u.read EXCEPT ![w] = Visible(u, w)])
  BY DEF LockRow
<1>2. Visible(u, w) \in Row \cup {NoRow}
  BY <1>0 DEF Visible, Empty, Row
<1>3. PICK t \in Transaction :
        /\ tx' = [tx EXCEPT ![c] = t] /\ UNCHANGED <<product, balance, ledger>>
        /\ t.pc = (IF Unseen(u) = {w} THEN "deciding" ELSE "locking")
        /\ t.new = u.new /\ t.seen = u.seen \cup {w}
        /\ t.held = (IF Visible(u, w) # NoRow THEN u.held \cup {w} ELSE u.held)
        /\ t.read = [u.read EXCEPT ![w] = Visible(u, w)]
        /\ t.op = u.op /\ t.from = u.from /\ t.to = u.to /\ t.q = u.q
  <2> DEFINE v == [pc |-> IF Unseen(u) = {w} THEN "deciding" ELSE "locking",
                   op |-> u.op, from |-> u.from, to |-> u.to, q |-> u.q,
                   ref |-> u.ref, new |-> u.new, seen |-> u.seen \cup {w},
                   held |-> IF Visible(u, w) # NoRow THEN u.held \cup {w} ELSE u.held,
                   read |-> [u.read EXCEPT ![w] = Visible(u, w)]]
  <2>1. v \in Transaction
    BY <1>0, <1>2 DEF Transaction, Pc
  <2>2. tx' = [tx EXCEPT ![c] = v] /\ UNCHANGED <<product, balance, ledger>>
    BY <1>1 DEF Go
  <2>. QED
    BY <2>1, <2>2
<1>4. Rows(t) = Rows(u) /\ \A v \in Warehouse : Visible(t, v) = Visible(u, v)
  BY <1>3 DEF Rows, Visible
<1>5. w \in Rows(u) \ u.seen /\ w \notin u.held
  BY <1>0, <1>1 DEF NextRow, Unseen, TxOK, ReadOK, Locking
<1>6. LocksOK(t)
  <2>1. Locking(t)
    BY <1>3 DEF Locking
  <2>2. ASSUME NEW v \in t.held PROVE Visible(t, v) # NoRow
    <3>1. CASE v = w
      BY <1>1, <1>3, <1>4, <1>5, <2>2, <3>1
    <3>2. CASE v # w
      BY <1>0, <1>3, <1>4, <2>2, <3>2 DEF TxOK, LocksOK
    <3>. QED
      BY <3>1, <3>2
  <2>3. t.new # None => t.new \in Warehouse /\ balance[t.new] = NoRow
    BY <1>0, <1>3 DEF TxOK, LocksOK
  <2>. QED
    BY <2>1, <2>2, <2>3 DEF LocksOK
<1>7. ReadOK(t)
  <2>1. t.held \subseteq t.seen /\ t.seen \subseteq Rows(t)
    BY <1>0, <1>3, <1>4, <1>5 DEF TxOK, ReadOK, Locking
  <2>2. ASSUME NEW v \in t.held PROVE t.read[v] = Visible(t, v)
    BY <1>0, <1>3, <1>4, <1>5, <2>2 DEF TxOK, ReadOK, Locking
  <2>3. ASSUME NEW v \in t.seen \ t.held PROVE t.read[v] = NoRow
    BY <1>0, <1>3, <1>4, <1>5, <2>3 DEF TxOK, ReadOK, Locking
  <2>4. t.pc # "locking" => t.seen = Rows(t)
    BY <1>3, <1>4, <2>1 DEF Unseen
  <2>5. /\ t.op # "delete" /\ (t.op = "transfer" => t.from # t.to) /\ t.q > 0
    BY <1>0, <1>3 DEF TxOK, ReadOK, Locking
  <2>. QED
    BY <2>1, <2>2, <2>3, <2>4, <2>5 DEF ReadOK
<1>8. DecidedOK(t) /\ RequestOK(t)
  BY <1>3 DEF DecidedOK, Decided, RequestOK
<1>9. ASSUME NEW d \in Request \ {c} PROVE Exclusive(t, tx[d]) /\ Exclusive(tx[d], t)
  <2>1. Exclusive(u, tx[d]) /\ Exclusive(tx[d], u)
    BY <1>9 DEF IInv
  <2>2. t.held \cap tx[d].held = {}
    BY <1>1, <1>3, <1>9, <2>1 DEF Exclusive, LockedByOther
  <2>. QED
    BY <1>0, <1>3, <2>1, <2>2 DEF Exclusive, KeepsProduct
<1>. QED
  BY <1>3, <1>6, <1>7, <1>8, <1>9, OneTx DEF TxOK

-----------------------------------------------------------------------------
\* The rows that pass the tests of stock.py, and what they become.
LEMMA AcceptedFacts ==
  ASSUME IInv, NEW c \in Request, tx[c].pc = "deciding",
         Accepted(tx[c], ledger[tx[c].from].own[tx[c].ref])
  PROVE  LET t == tx[c] IN
         /\ Rows(t) \subseteq t.held
         /\ \A w \in Rows(t) : Valid(Written(t, w))
         /\ t.op = "reservation" => ledger[t.from].own[t.ref] <= 0
         /\ t.op = "release" => t.q <= ledger[t.from].own[t.ref]
<1> DEFINE t == tx[c]  row == t.read[t.from]  own == ledger[t.from].own[t.ref]
<1>0. /\ t \in Transaction /\ TxOK(t) /\ t.q \in Nat /\ t.q > 0 /\ t.op \in Op
      /\ t.from \in Warehouse /\ t.to \in Warehouse /\ t.op # "delete"
      /\ own \in Int /\ balance \in [Warehouse -> Row \cup {NoRow}]
      /\ t.op = "transfer" => t.from # t.to
  BY DEF IInv, TypeOK, Transaction, Sums, TxOK, ReadOK, Locking
<1>1. /\ t.seen = Rows(t) /\ t.held \subseteq Rows(t)
      /\ \A w \in t.held : t.read[w] = Visible(t, w)
      /\ \A w \in Rows(t) \ t.held : t.read[w] = NoRow
  BY <1>0 DEF TxOK, ReadOK, Locking
<1>2. row # NoRow /\ (t.op = "transfer" => t.read[t.to] # NoRow)
  BY DEF Accepted, CanTake, CanReserve, CanRelease
<1>3. Rows(t) \subseteq t.held
  BY <1>1, <1>2 DEF Rows
<1>4. ASSUME NEW w \in Rows(t)
      PROVE  /\ t.read[w] \in Row /\ Valid(t.read[w])
  <2>1. w \in Warehouse /\ t.read[w] = Visible(t, w) /\ Visible(t, w) # NoRow
    BY <1>0, <1>1, <1>3, <1>4 DEF Rows, TxOK, LocksOK
  <2>2. CASE balance[w] # NoRow
    BY <1>0, <2>1, <2>2 DEF IInv, RowOK, Visible
  <2>3. CASE balance[w] = NoRow
    BY <2>1, <2>3 DEF Visible, Empty, Row, Valid
  <2>. QED
    BY <2>2, <2>3
<1>5. ASSUME NEW w \in Rows(t) PROVE Valid(Written(t, w))
  <2>0. /\ t.read[w].onHand \in Int /\ t.read[w].reserved \in Int
        /\ 0 <= t.read[w].reserved /\ t.read[w].reserved <= t.read[w].onHand
        /\ w = t.from \/ (t.op = "transfer" /\ w = t.to)
    BY <1>4, <1>5 DEF Row, Valid, Rows
  <2>1. CASE t.op = "receipt"
    BY <1>0, <2>0, <2>1 DEF Valid, Written, OnHandDelta, ReservedDelta
  <2>2. CASE t.op = "issue"
    BY <1>0, <2>0, <2>2 DEF Valid, Written, OnHandDelta, ReservedDelta,
                            Accepted, CanTake, Available
  <2>3. CASE t.op = "transfer"
    BY <1>0, <2>0, <2>3 DEF Valid, Written, OnHandDelta, ReservedDelta,
                            Accepted, CanTake, Available
  <2>4. CASE t.op = "reservation"
    BY <1>0, <2>0, <2>4 DEF Valid, Written, OnHandDelta, ReservedDelta,
                            Accepted, CanReserve, CanTake, Available
  <2>5. CASE t.op = "release"
    <3>1. t.q <= row.reserved
      BY <1>0, <2>0, <2>5 DEF Accepted, CanRelease
    <3>. QED
      BY <1>0, <2>0, <2>5, <3>1 DEF Valid, Written, OnHandDelta, ReservedDelta
  <2>. QED
    BY <1>0, <2>1, <2>2, <2>3, <2>4, <2>5 DEF Op
<1>6. t.op = "reservation" => own <= 0
  BY DEF Accepted, CanReserve
<1>7. t.op = "release" => t.q <= own
  <2>1. row \in Row
    BY <1>0, <1>4 DEF Rows
  <2>. QED
    BY <1>0, <2>1 DEF Accepted, CanRelease, Row
<1>. QED
  BY <1>3, <1>5, <1>6, <1>7

\* Moving on without new rows keeps what a transaction knows.
LEMMA ProceedStep ==
  ASSUME IInv, NEW c \in Request, NEW pc \in Pc, Proceed(c, pc),
         \/ /\ tx[c].pc = "deciding" /\ pc = "flushing"
            /\ Accepted(tx[c], ledger[tx[c].from].own[tx[c].ref])
         \/ tx[c].pc = "flushing" /\ pc = "committing" /\ ~ProductLocked(c)
         \/ /\ tx[c].pc = "deleting" /\ pc = "cascading" /\ ~ProductLocked(c)
            /\ \A d \in Request \ {c} : ~KeepsProduct(tx[d])
  PROVE  IInv'
<1> DEFINE u == tx[c]
<1>0. /\ u \in Transaction /\ TxOK(u)
      /\ u.read \in [Warehouse -> Row \cup {NoRow}]
      /\ u.seen \in SUBSET Warehouse /\ u.held \in SUBSET Warehouse
      /\ u.new \in Warehouse \cup {None}
  BY DEF IInv, TypeOK, Transaction
<1>1. PICK t \in Transaction :
        /\ tx' = [tx EXCEPT ![c] = t] /\ UNCHANGED <<product, balance, ledger>>
        /\ t.pc = pc /\ t.new = u.new /\ t.seen = u.seen /\ t.held = u.held
        /\ t.read = u.read
        /\ t.op = u.op /\ t.from = u.from /\ t.to = u.to
        /\ t.q = u.q /\ t.ref = u.ref
  <2> DEFINE v == [pc |-> pc, op |-> u.op, from |-> u.from, to |-> u.to, q |-> u.q,
                   ref |-> u.ref, new |-> u.new, seen |-> u.seen, held |-> u.held,
                   read |-> u.read]
  <2>1. v \in Transaction
    BY <1>0 DEF Transaction
  <2>2. tx' = [tx EXCEPT ![c] = v] /\ UNCHANGED <<product, balance, ledger>>
    BY DEF Proceed, Go
  <2>. QED
    BY <2>1, <2>2
<1>2. /\ Rows(t) = Rows(u)
      /\ \A w \in Warehouse : Visible(t, w) = Visible(u, w)
      /\ \A w \in Warehouse : Written(t, w) = Written(u, w)
  BY <1>1 DEF Rows, Visible, Written, OnHandDelta, ReservedDelta
<1>3. LocksOK(t)
  BY <1>0, <1>1, <1>2 DEF TxOK, LocksOK, Locking
<1>4. ReadOK(t)
  BY <1>0, <1>1, <1>2 DEF TxOK, ReadOK, Locking
<1>5. DecidedOK(t)
  <2>1. CASE u.pc = "deciding" /\ Accepted(u, ledger[u.from].own[u.ref])
    BY <1>0, <1>1, <1>2, <2>1, AcceptedFacts DEF DecidedOK
  <2>2. CASE u.pc = "flushing"
    BY <1>0, <1>1, <1>2, <2>2 DEF TxOK, DecidedOK, Decided
  <2>3. CASE pc = "cascading"
    BY <1>1, <2>3 DEF DecidedOK, Decided
  <2>. QED
    BY <2>1, <2>2, <2>3
<1>6. RequestOK(t)
  BY <1>1 DEF RequestOK
<1>7. ASSUME NEW d \in Request \ {c} PROVE Exclusive(t, tx[d]) /\ Exclusive(tx[d], t)
  <2>1. Exclusive(u, tx[d]) /\ Exclusive(tx[d], u)
    BY <1>7 DEF IInv
  <2>. QED
    BY <1>1, <1>7, <2>1 DEF Exclusive, KeepsProduct, ProductLocked
<1>. QED
  BY <1>1, <1>3, <1>4, <1>5, <1>6, <1>7, OneTx DEF TxOK

\* A cascading deletion locks another row.
LEMMA CascadeStep ==
  ASSUME IInv, NEW c \in Request, CascadeRow(c)
  PROVE  IInv'
<1> DEFINE u == tx[c]
<1>0. /\ u \in Transaction /\ TxOK(u) /\ u.pc = "cascading"
      /\ u.read \in [Warehouse -> Row \cup {NoRow}]
      /\ u.held \in SUBSET Warehouse /\ u.new = None
  BY DEF IInv, TypeOK, Transaction, CascadeRow, TxOK, LocksOK, Locking
<1>1. PICK w \in Cascading(c) :
        /\ ~LockedByOther(c, w)
        /\ Go(c, "cascading", None, {}, u.held \cup {w}, u.read)
  BY DEF CascadeRow
<1>2. w \in Warehouse /\ balance[w] # NoRow
  BY <1>1 DEF Cascading
<1>3. PICK t \in Transaction :
        /\ tx' = [tx EXCEPT ![c] = t] /\ UNCHANGED <<product, balance, ledger>>
        /\ t.pc = "cascading" /\ t.new = None /\ t.held = u.held \cup {w}
  <2> DEFINE v == [pc |-> "cascading", op |-> u.op, from |-> u.from, to |-> u.to,
                   q |-> u.q, ref |-> u.ref, new |-> None, seen |-> {},
                   held |-> u.held \cup {w}, read |-> u.read]
  <2>1. v \in Transaction
    BY <1>0, <1>2 DEF Transaction, Pc
  <2>2. tx' = [tx EXCEPT ![c] = v] /\ UNCHANGED <<product, balance, ledger>>
    BY <1>1 DEF Go
  <2>. QED
    BY <2>1, <2>2
<1>4. TxOK(t)
  <2>1. LocksOK(t)
    BY <1>0, <1>2, <1>3 DEF TxOK, LocksOK, Visible
  <2>. QED
    BY <1>3, <2>1 DEF TxOK, ReadOK, DecidedOK, RequestOK, Locking, Decided
<1>5. ASSUME NEW d \in Request \ {c} PROVE Exclusive(t, tx[d]) /\ Exclusive(tx[d], t)
  <2>1. Exclusive(u, tx[d]) /\ Exclusive(tx[d], u)
    BY <1>5 DEF IInv
  <2>2. t.held \cap tx[d].held = {}
    BY <1>1, <1>3, <1>5, <2>1 DEF Exclusive, LockedByOther
  <2>. QED
    BY <1>0, <1>3, <2>1, <2>2 DEF Exclusive, KeepsProduct
<1>. QED
  BY <1>3, <1>4, <1>5, OneTx

-----------------------------------------------------------------------------
\* The commit of a stock transaction preserves the invariant; a reservation is
\* only added where its reference reserved nothing.
LEMMA CommitStep ==
  ASSUME IInv, NEW c \in Request, Commit(c)
  PROVE  /\ IInv'
         /\ \A w \in Warehouse, r \in Ref :
              ledger'[w].own[r] > ledger[w].own[r] => ledger[w].own[r] = 0
<1> DEFINE t == tx[c]
<1>0. /\ t \in Transaction /\ TxOK(t) /\ t.pc = "committing"
      /\ t.q \in Nat /\ t.q > 0 /\ t.op \in Op /\ t.ref \in Ref
      /\ t.from \in Warehouse /\ t.to \in Warehouse
      /\ tx \in [Request -> Transaction]
      /\ balance \in [Warehouse -> Row \cup {NoRow}]
      /\ ledger \in [Warehouse -> Sums]
  BY DEF IInv, TypeOK, Transaction, Commit, TxOK, ReadOK, Locking
<1>1. /\ Rows(t) \subseteq t.held /\ Rows(t) \subseteq Warehouse
      /\ \A w \in Rows(t) : /\ Valid(Written(t, w)) /\ Visible(t, w) # NoRow
                            /\ t.read[w] = Visible(t, w)
      /\ t.op = "reservation" => ledger[t.from].own[t.ref] <= 0
      /\ t.op = "release" => t.q <= ledger[t.from].own[t.ref]
  BY <1>0 DEF TxOK, DecidedOK, Decided, ReadOK, Locking, LocksOK, Rows
<1>2. /\ \A w \in Rows(t) : balance'[w] = Written(t, w)
      /\ \A w \in Warehouse \ Rows(t) : balance'[w] = balance[w] /\ ledger'[w] = ledger[w]
      /\ tx'[c] = Idle /\ \A d \in Request \ {c} : tx'[d] = tx[d]
      /\ product' = product
  BY <1>0, <1>1 DEF Commit
<1>3. ASSUME NEW w \in Warehouse
      PROVE  OnHandDelta(t, w) \in Int /\ ReservedDelta(t) \in Int
  BY <1>0 DEF OnHandDelta, ReservedDelta
<1>4. ASSUME NEW w \in Rows(t)
      PROVE  /\ ledger'[w].onHand = ledger[w].onHand + OnHandDelta(t, w)
             /\ ledger'[w].reserved = ledger[w].reserved + ReservedDelta(t)
             /\ ledger'[w].own = [ledger[w].own EXCEPT
                                    ![t.ref] = ledger[w].own[t.ref] + ReservedDelta(t)]
             /\ ledger'[w] = [onHand |-> ledger'[w].onHand,
                              reserved |-> ledger'[w].reserved, own |-> ledger'[w].own]
  BY <1>0, <1>1, <1>4 DEF Commit
<1>5. ASSUME NEW w \in Rows(t)
      PROVE  /\ t.read[w] \in Row
             /\ t.read[w].onHand = ledger[w].onHand
             /\ t.read[w].reserved = ledger[w].reserved
             /\ ledger[w] \in Sums
  <2>1. CASE balance[w] # NoRow
    BY <1>0, <1>1, <1>5, <2>1 DEF IInv, LedgerExplains, Visible
  <2>2. CASE balance[w] = NoRow
    BY <1>0, <1>1, <1>5, <2>2 DEF IInv, LedgerExplains, Visible, Empty, NoMovements, Row
  <2>. QED
    BY <2>1, <2>2
<1>6. ASSUME NEW w \in Rows(t)
      PROVE  /\ Written(t, w) \in Row
             /\ Written(t, w).onHand = ledger'[w].onHand
             /\ Written(t, w).reserved = ledger'[w].reserved
             /\ ledger'[w] \in Sums
  <2>0. /\ w \in Warehouse /\ OnHandDelta(t, w) \in Int /\ ReservedDelta(t) \in Int
        /\ ledger[w].onHand \in Int /\ ledger[w].reserved \in Int
        /\ ledger[w].own \in [Ref -> Int]
    <3>1. w \in Warehouse
      BY <1>1, <1>6
    <3>2. ledger[w] \in Sums
      BY <1>0, <3>1
    <3>. QED
      BY <1>3, <3>1, <3>2 DEF Sums
  <2>1. ledger'[w].own \in [Ref -> Int]
    <3> DEFINE f == ledger[w].own  k == f[t.ref] + ReservedDelta(t)
    <3>1. f \in [Ref -> Int] /\ k \in Int
      BY <1>0, <2>0
    <3>2. [f EXCEPT ![t.ref] = k] \in [Ref -> Int]
      <4> HIDE DEF f, k
      <4>. QED
        BY <3>1
    <3>. QED
      BY <1>4, <1>6, <3>2
  <2>2. ledger'[w].onHand \in Int /\ ledger'[w].reserved \in Int
    <3>1. /\ ledger'[w].onHand = ledger[w].onHand + OnHandDelta(t, w)
          /\ ledger'[w].reserved = ledger[w].reserved + ReservedDelta(t)
      BY <1>4, <1>6
    <3>. QED
      BY <2>0, <3>1
  <2>3. ledger'[w] \in Sums
    <3> DEFINE x == ledger'[w].onHand  y == ledger'[w].reserved  z == ledger'[w].own
    <3>1. x \in Int /\ y \in Int /\ z \in [Ref -> Int]
      BY <2>1, <2>2
    <3>2. ledger'[w] = [onHand |-> x, reserved |-> y, own |-> z]
      BY <1>4, <1>6
    <3>3. [onHand |-> x, reserved |-> y, own |-> z] \in Sums
      <4> HIDE DEF x, y, z
      <4>. QED
        BY <3>1 DEF Sums
    <3>. QED
      BY <3>2, <3>3
  <2>4. /\ Written(t, w).onHand = ledger'[w].onHand
        /\ Written(t, w).reserved = ledger'[w].reserved
    BY <1>4, <1>5, <1>6 DEF Written
  <2>. QED
    BY <2>2, <2>3, <2>4 DEF Written, Row
<1>7. /\ balance' \in [Warehouse -> Row \cup {NoRow}]
      /\ ledger' \in [Warehouse -> Sums]
  <2>1. \A w \in Warehouse : balance'[w] \in Row \cup {NoRow} /\ ledger'[w] \in Sums
    BY <1>0, <1>2, <1>6
  <2>2. /\ balance' = [w \in Warehouse |-> balance'[w]]
        /\ ledger' = [w \in Warehouse |-> ledger'[w]]
    BY DEF Commit
  <2>. QED
    BY <2>1, <2>2
<1>8. TypeOK'
  BY <1>0, <1>2, <1>7, IdleType DEF IInv, TypeOK, Commit
<1>9. LedgerExplains'
  <2> SUFFICES ASSUME NEW w \in Warehouse
               PROVE  IF balance'[w] = NoRow THEN ledger'[w] = NoMovements
                      ELSE /\ balance'[w].onHand = ledger'[w].onHand
                           /\ balance'[w].reserved = ledger'[w].reserved
    BY DEF LedgerExplains, NoMovements
  <2>1. CASE w \in Rows(t)
    BY <1>2, <1>6, <2>1, StockAssumption DEF Row
  <2>2. CASE w \notin Rows(t)
    BY <1>2, <2>2 DEF IInv, LedgerExplains
  <2>. QED
    BY <2>1, <2>2
<1>10. ASSUME NEW w \in Warehouse, NEW r \in Ref
       PROVE  /\ ledger'[w].own[r] >= 0
              /\ ledger'[w].own[r] > ledger[w].own[r] => ledger[w].own[r] = 0
  <2>0. ledger[w].own[r] \in Int /\ ledger[w].own[r] >= 0 /\ ledger[w].own \in [Ref -> Int]
    BY <1>0, <1>10 DEF Sums, IInv, RowOK
  <2>1. CASE w \notin Rows(t) \/ r # t.ref
    <3>1. CASE w \notin Rows(t)
      BY <1>2, <1>10, <2>0, <3>1
    <3>2. CASE w \in Rows(t) /\ r # t.ref
      <4>1. ledger'[w].own = [ledger[w].own EXCEPT
                                ![t.ref] = ledger[w].own[t.ref] + ReservedDelta(t)]
        BY <1>4, <3>2
      <4>2. ledger'[w].own[r] = ledger[w].own[r]
        BY <1>10, <2>0, <3>2, <4>1
      <4>. QED
        BY <2>0, <4>2
    <3>. QED
      BY <2>1, <3>1, <3>2
  <2>2. CASE w \in Rows(t) /\ r = t.ref
    <3>1. ledger'[w].own[r] = ledger[w].own[r] + ReservedDelta(t)
      BY <1>4, <2>0, <2>2
    <3>2. t.op \in {"reservation", "release"} => w = t.from
      BY <2>2 DEF Rows
    <3>. QED
      BY <1>0, <1>1, <2>0, <2>2, <3>1, <3>2 DEF ReservedDelta
  <2>. QED
    BY <2>1, <2>2
<1>11. ASSUME NEW w \in Warehouse PROVE RowOK(w)'
  BY <1>1, <1>2, <1>10, <1>11 DEF RowOK, IInv, Valid
<1>12. ASSUME NEW d \in Request \ {c} PROVE TxOK(tx[d])'
  <2> DEFINE u == tx[d]
  <2>0. /\ TxOK(u) /\ Exclusive(t, u) /\ Exclusive(u, t) /\ tx'[d] = u
        /\ u.held \in SUBSET Warehouse /\ u \in Transaction
    BY <1>0, <1>2, <1>12 DEF IInv, Transaction
  <2>1. u.held \cap Rows(t) = {}
    BY <1>1, <2>0 DEF Exclusive
  <2>2. \A w \in u.held : /\ balance'[w] = balance[w] /\ ledger'[w] = ledger[w]
                          /\ Visible(u, w)' = Visible(u, w)
    BY <1>2, <2>0, <2>1 DEF Visible
  <2>3. u.new # None => u.new \notin Rows(t)
    <3>1. ASSUME u.new # None, u.new \in Rows(t) PROVE FALSE
      <4>1. balance[u.new] = NoRow
        BY <2>0, <3>1 DEF TxOK, LocksOK
      <4>2. t.new = u.new
        BY <1>1, <3>1, <4>1 DEF Visible
      <4>. QED
        BY <2>0, <3>1, <4>2 DEF Exclusive
    <3>. QED
      BY <3>1
  <2>4. LocksOK(u)'
    BY <1>2, <2>0, <2>2, <2>3 DEF TxOK, LocksOK, Locking
  <2>5. ReadOK(u)'
    BY <2>0, <2>2 DEF TxOK, ReadOK, Locking, Rows
  <2>6. DecidedOK(u)'
    <3>1. Decided(u) => u.from \in u.held
      BY <2>0 DEF TxOK, DecidedOK, Rows
    <3>. QED
      BY <2>0, <2>2, <3>1 DEF TxOK, DecidedOK, Decided, Rows, Written, OnHandDelta,
                              ReservedDelta, Valid
  <2>7. RequestOK(u)'
    BY <2>0 DEF TxOK, RequestOK
  <2>. QED
    BY <2>0, <2>4, <2>5, <2>6, <2>7 DEF TxOK
<1>13. TxOK(tx[c])'
  BY <1>2 DEF TxOK, LocksOK, ReadOK, DecidedOK, RequestOK, Locking, Decided, Idle
<1>14. ASSUME NEW d \in Request, NEW e \in Request, d # e
       PROVE  Exclusive(tx[d], tx[e])'
  BY <1>2, <1>14 DEF IInv, Exclusive, KeepsProduct, Idle
<1>. QED
  BY <1>8, <1>9, <1>10, <1>11, <1>12, <1>13, <1>14 DEF IInv

-----------------------------------------------------------------------------
\* The commit of a deletion preserves the invariant: it holds the lock of every
\* row, so that no other transaction has read one.
LEMMA CommitDeleteStep ==
  ASSUME IInv, NEW c \in Request, CommitDelete(c)
  PROVE  IInv'
<1> DEFINE t == tx[c]
<1>0. /\ tx \in [Request -> Transaction] /\ t.pc = "cascading" /\ t.new = None
      /\ balance' = [w \in Warehouse |-> NoRow]
      /\ ledger' = [w \in Warehouse |-> NoMovements]
      /\ tx'[c] = Idle /\ \A d \in Request \ {c} : tx'[d] = tx[d]
  BY DEF IInv, TypeOK, CommitDelete, TxOK, LocksOK, Locking
<1>1. NoMovements \in Sums /\ \A r \in Ref : NoMovements.own[r] = 0
  BY DEF NoMovements, Sums
<1>2. TypeOK'
  BY <1>0, <1>1, IdleType DEF IInv, TypeOK, CommitDelete
<1>3. LedgerExplains' /\ \A w \in Warehouse : RowOK(w)'
  BY <1>0, <1>1 DEF LedgerExplains, RowOK, NoMovements
<1>4. ASSUME NEW d \in Request \ {c} PROVE TxOK(tx[d])'
  <2> DEFINE u == tx[d]
  <2>0. /\ TxOK(u) /\ Exclusive(t, u) /\ tx'[d] = u
        /\ u \in Transaction /\ u.held \in SUBSET Warehouse
    BY <1>0, <1>4 DEF IInv, Transaction
  <2>1. u.new = None /\ u.pc # "committing" /\ u.pc # "cascading"
    BY <1>0, <2>0 DEF Exclusive, KeepsProduct
  <2>2. ASSUME NEW w \in u.held PROVE FALSE
    <3>1. w \in Warehouse /\ balance[w] # NoRow
      BY <2>0, <2>1, <2>2, StockAssumption DEF TxOK, LocksOK, Visible
    <3>2. w \in t.held
      BY <3>1 DEF CommitDelete, Cascading
    <3>. QED
      BY <2>0, <2>2, <3>2 DEF Exclusive
  <2>3. u.held = {}
    BY <2>2
  <2>4. ~Decided(u)
    <3>1. u.from \in Rows(u)
      BY DEF Rows
    <3>. QED
      BY <2>0, <2>3, <3>1 DEF TxOK, DecidedOK
  <2>5. LocksOK(u)'
    BY <2>0, <2>1, <2>3 DEF LocksOK
  <2>6. ReadOK(u)'
    BY <2>0, <2>3 DEF TxOK, ReadOK, Locking, Rows
  <2>7. DecidedOK(u)'
    BY <2>0, <2>4 DEF DecidedOK, Decided
  <2>8. RequestOK(u)'
    BY <2>0 DEF TxOK, RequestOK
  <2>. QED
    BY <2>0, <2>5, <2>6, <2>7, <2>8 DEF TxOK
<1>5. TxOK(tx[c])'
  BY <1>0 DEF TxOK, LocksOK, ReadOK, DecidedOK, RequestOK, Locking, Decided, Idle
<1>6. ASSUME NEW d \in Request, NEW e \in Request, d # e
      PROVE  Exclusive(tx[d], tx[e])'
  BY <1>0, <1>6 DEF IInv, Exclusive, KeepsProduct, Idle
<1>. QED
  BY <1>2, <1>3, <1>4, <1>5, <1>6 DEF IInv

-----------------------------------------------------------------------------
\* The invariant holds initially ...
LEMMA Initially == Init => IInv
<1> SUFFICES ASSUME Init PROVE IInv
  OBVIOUS
<1>1. NoMovements \in Sums /\ \A r \in Ref : NoMovements.own[r] = 0
  BY DEF NoMovements, Sums
<1>2. TypeOK
  BY <1>1, IdleType DEF Init, TypeOK
<1>3. ASSUME NEW c \in Request PROVE TxOK(tx[c])
  BY DEF Init, TxOK, LocksOK, ReadOK, DecidedOK, RequestOK, Locking, Decided, Idle
<1>4. ASSUME NEW c \in Request, NEW d \in Request PROVE Exclusive(tx[c], tx[d])
  BY DEF Init, Exclusive, KeepsProduct, Idle
<1>5. LedgerExplains /\ \A w \in Warehouse : RowOK(w)
  BY <1>1 DEF Init, LedgerExplains, RowOK
<1>. QED
  BY <1>2, <1>3, <1>4, <1>5 DEF IInv

\* ... and is preserved by every step; no step reserves twice.
LEMMA Inductive ==
  ASSUME IInv, [Next]_vars
  PROVE  /\ IInv'
         /\ \A w \in Warehouse, r \in Ref :
              ledger'[w].own[r] > ledger[w].own[r] => ledger[w].own[r] = 0
<1> DEFINE Once == \A w \in Warehouse, r \in Ref :
                     ledger'[w].own[r] > ledger[w].own[r] => ledger[w].own[r] = 0
<1>0. \A w \in Warehouse, r \in Ref : ledger[w].own[r] \in Int /\ ledger[w].own[r] >= 0
  BY DEF IInv, TypeOK, Sums, RowOK
<1>1. UNCHANGED ledger => Once
  BY <1>0
<1>2. CASE UNCHANGED vars
  <2>1. UNCHANGED <<product, balance, ledger, tx>>
    BY <1>2 DEF vars
  <2>2. \A c \in Request : TxOK(tx[c])'
    BY <2>1, TxOKStable DEF IInv
  <2>3. \A c, d \in Request : c # d => Exclusive(tx[c], tx[d])'
    BY <2>1 DEF IInv, Exclusive, KeepsProduct
  <2>4. TypeOK' /\ LedgerExplains' /\ \A w \in Warehouse : RowOK(w)'
    BY <2>1 DEF IInv, TypeOK, LedgerExplains, RowOK, Valid
  <2>. QED
    BY <1>1, <2>1, <2>2, <2>3, <2>4 DEF IInv
<1>3. CASE CreateProduct
  <2>1. UNCHANGED <<balance, ledger, tx>> /\ product' = "live"
    BY <1>3 DEF CreateProduct
  <2>2. \A c \in Request : TxOK(tx[c])'
    BY <2>1, TxOKStable DEF IInv
  <2>3. \A c, d \in Request : c # d => Exclusive(tx[c], tx[d])'
    BY <2>1 DEF IInv, Exclusive, KeepsProduct
  <2>4. TypeOK' /\ LedgerExplains' /\ \A w \in Warehouse : RowOK(w)'
    BY <2>1 DEF IInv, TypeOK, LedgerExplains, RowOK, Valid
  <2>. QED
    BY <1>1, <2>1, <2>2, <2>3, <2>4 DEF IInv
<1>4. ASSUME NEW c \in Request, Call(c) PROVE IInv' /\ Once
  <2>1. UNCHANGED ledger
    BY <1>4 DEF Call, Receive, Issue, Reserve, Release, Transfer, DeleteProduct, Begin
  <2>. QED
    BY <1>1, <1>4, <2>1, BeginStep
<1>5. ASSUME NEW c \in Request, Rollback(c) PROVE IInv' /\ Once
  BY <1>1, <1>5, RollbackStep DEF Rollback
<1>6. ASSUME NEW c \in Request, InsertBalance(c) PROVE IInv' /\ Once
  BY <1>1, <1>6, InsertStep DEF InsertBalance, Rollback, Go
<1>7. ASSUME NEW c \in Request, LockRow(c) PROVE IInv' /\ Once
  BY <1>1, <1>7, LockStep DEF LockRow, Go
<1>8. ASSUME NEW c \in Request, NEW pc \in Pc, Proceed(c, pc) PROVE Once
  BY <1>1, <1>8 DEF Proceed, Go
<1>9. ASSUME NEW c \in Request, Decide(c) PROVE IInv' /\ Once
  BY <1>5, <1>8, <1>9, ProceedStep DEF Decide, Pc
<1>10. ASSUME NEW c \in Request, Flush(c) PROVE IInv' /\ Once
  BY <1>5, <1>8, <1>10, ProceedStep DEF Flush, Pc
<1>11. ASSUME NEW c \in Request, DeleteRow(c) PROVE IInv' /\ Once
  BY <1>5, <1>8, <1>11, ProceedStep DEF DeleteRow, Pc
<1>12. ASSUME NEW c \in Request, CascadeRow(c) PROVE IInv' /\ Once
  BY <1>1, <1>12, CascadeStep DEF CascadeRow, Go
<1>13. ASSUME NEW c \in Request, CommitDelete(c) PROVE IInv' /\ Once
  <2>1. \A w \in Warehouse, r \in Ref : ledger'[w].own[r] = 0
    BY <1>13 DEF CommitDelete, NoMovements
  <2>. QED
    BY <1>0, <1>13, <2>1, CommitDeleteStep
<1>14. ASSUME NEW c \in Request, Step(c) \/ Fail(c) PROVE IInv' /\ Once
  BY <1>5, <1>6, <1>7, <1>9, <1>10, <1>11, <1>12, <1>13, <1>14, CommitStep
     DEF Step, Fail, DeadlockVictim
<1>. QED
  BY <1>2, <1>3, <1>4, <1>14 DEF Next

\* The invariant holds in every reachable state.
LEMMA Invariance == Spec => []IInv
<1>1. IInv /\ [Next]_vars => IInv'
  BY Inductive
<1>. QED
  BY <1>1, Initially, PTL DEF Spec

-----------------------------------------------------------------------------
\* The tables and the transactions of services/stock.py keep their types.
THEOREM TypeCorrect == Spec => []TypeOK
<1>1. IInv => TypeOK
  BY DEF IInv
<1>. QED
  BY <1>1, Invariance, PTL

\* The row locks of services/stock.py lose no update: a balance is always the
\* sum of its movements.
THEOREM BalancesAreExplained == Spec => []LedgerExplains
<1>1. IInv => LedgerExplains
  BY DEF IInv
<1>. QED
  BY <1>1, Invariance, PTL

\* What the tests of services/stock.py let through never violates a CHECK
\* constraint of inventory_balances.
THEOREM ConstraintsAreRedundant == Spec => []ConstraintsNeverFire
<1>1. IInv => ConstraintsNeverFire
  BY DEF IInv, ConstraintsNeverFire, TxOK, DecidedOK, Decided
<1>. QED
  BY <1>1, Invariance, PTL

\* reserve_stock never reserves for a reference that still has a reservation,
\* however its requests overlap.
THEOREM ReservationsAreMadeOnce == Spec => NoReservationTwice
<1> DEFINE Once == \A w \in Warehouse, r \in Ref :
                     ledger'[w].own[r] > ledger[w].own[r] => ledger[w].own[r] = 0
<1>1. IInv /\ [Next]_vars => [Once]_vars
  BY Inductive
<1>. QED
  BY <1>1, Invariance, PTL DEF Spec, NoReservationTwice

-----------------------------------------------------------------------------
(* Reservations add up                                                     *)

\* A warehouse's movements reserve as much as its references own together.
Owned(w) ==
  LET pieces == Pieces(ledger[w].own) IN
  IsFiniteSet(pieces) /\ ledger[w].reserved = Cardinality(pieces)

AllOwned == \A w \in Warehouse : Owned(w)

\* A commit adds to a row's reserved sum what it adds to the reference's own.
LEMMA CommitOwned ==
  ASSUME IInv, IInv', NEW c \in Request, Commit(c), NEW w \in Warehouse, Owned(w)
  PROVE  Owned(w)'
<1> DEFINE t == tx[c]  own == ledger[w].own  n == own[t.ref] + ReservedDelta(t)
<1>1. /\ t.ref \in Ref /\ t.q \in Nat /\ own \in [Ref -> Int]
      /\ ledger \in [Warehouse -> Sums]
  BY DEF IInv, TypeOK, Transaction, Sums
<1>2. ReservedDelta(t) \in Int
  BY <1>1 DEF ReservedDelta
<1>3. own \in [Ref -> Nat]
  BY <1>1 DEF IInv, RowOK
<1>4. CASE w \notin Rows(t)
  <2>1. ledger'[w] = ledger[w]
    BY <1>4 DEF Commit
  <2>. QED
    BY <2>1 DEF Owned
<1>5. CASE w \in Rows(t)
  <2>1. ledger'[w] = [onHand   |-> ledger[w].onHand + OnHandDelta(t, w),
                      reserved |-> ledger[w].reserved + ReservedDelta(t),
                      own      |-> [own EXCEPT ![t.ref] = n]]
    BY <1>5 DEF Commit
  <2>2. /\ ledger'[w].own = [own EXCEPT ![t.ref] = n]
        /\ ledger'[w].reserved = ledger[w].reserved + ReservedDelta(t)
    BY <2>1
  <2>3. ledger'[w].own[t.ref] = n /\ ledger'[w].own[t.ref] >= 0 /\ n \in Int
    BY <1>1, <1>2, <2>2 DEF IInv, RowOK
  <2>4. OnlyOf(t.ref, own, ledger'[w].own)
    BY <1>1, <1>3, <2>2, <2>3 DEF OnlyOf
  <2>5. PICK f, g, r : f = own /\ g = ledger'[w].own /\ r = t.ref
    OBVIOUS
  <2>6. OnlyOf(r, f, g) /\ IsFiniteSet(Pieces(f)) /\ ledger[w].reserved = Cardinality(Pieces(f))
    BY <2>4, <2>5 DEF Owned
  <2>7. /\ IsFiniteSet(Pieces(g))
        /\ Cardinality(Pieces(f)) \in Nat
        /\ Cardinality(Pieces(g)) = Cardinality(Pieces(f)) - f[r] + g[r]
    BY <2>6, PiecesChange
  <2>8. f[r] \in Nat /\ g[r] = f[r] + ReservedDelta(t)
    BY <1>1, <1>3, <2>3, <2>5
  <2>. QED
    BY <1>2, <2>2, <2>5, <2>6, <2>7, <2>8 DEF Owned
<1>. QED
  BY <1>4, <1>5

\* A deletion takes the reservations with it, and nothing else changes them.
LEMMA StepOwned ==
  ASSUME IInv, IInv', AllOwned, [Next]_vars
  PROVE  AllOwned'
<1>1. ASSUME UNCHANGED ledger PROVE AllOwned'
  BY <1>1 DEF AllOwned, Owned
<1>2. ASSUME NEW c \in Request, Commit(c) PROVE AllOwned'
  BY <1>2, CommitOwned DEF AllOwned
<1>3. ASSUME NEW c \in Request, CommitDelete(c) PROVE AllOwned'
  <2> SUFFICES ASSUME NEW w \in Warehouse PROVE Owned(w)'
    BY DEF AllOwned
  <2>1. ledger'[w] = NoMovements
    BY <1>3 DEF CommitDelete
  <2>2. /\ NoMovements.reserved = 0
        /\ \A r \in DOMAIN NoMovements.own : NoMovements.own[r] = 0
    BY DEF NoMovements
  <2>3. /\ IsFiniteSet(Pieces(NoMovements.own))
        /\ Cardinality(Pieces(NoMovements.own)) = 0
    BY <2>2, NoPieces
  <2>. QED
    BY <2>1, <2>2, <2>3 DEF Owned
<1>4. ASSUME NEW c \in Request, Call(c) PROVE UNCHANGED ledger
  BY <1>4 DEF Call, Receive, Issue, Reserve, Release, Transfer, DeleteProduct, Begin
<1>5. ASSUME NEW c \in Request, Step(c), ~Commit(c), ~CommitDelete(c)
      PROVE  UNCHANGED ledger
  BY <1>5 DEF Step, InsertBalance, LockRow, Decide, Flush, DeleteRow, CascadeRow,
              DeadlockVictim, Rollback, Proceed, Go
<1>6. ASSUME NEW c \in Request, Fail(c) PROVE UNCHANGED ledger
  BY <1>6 DEF Fail, Rollback
<1>7. CreateProduct \/ UNCHANGED vars => UNCHANGED ledger
  BY DEF CreateProduct, vars
<1>. QED
  BY <1>1, <1>2, <1>3, <1>4, <1>5, <1>6, <1>7 DEF Next

\* No order of reservations and releases leaves a balance with a reserved
\* quantity that no reference owns: the "defensive minimum" of release_stock is
\* always the reference's own reservation.
THEOREM ReservationsAreOwned == Spec => []ReservationsAddUp
<1>1. Init => AllOwned
  <2> SUFFICES ASSUME Init, NEW w \in Warehouse PROVE Owned(w)
    BY DEF AllOwned
  <2>1. ledger[w] = NoMovements
    BY DEF Init
  <2>2. /\ NoMovements.reserved = 0
        /\ \A r \in DOMAIN NoMovements.own : NoMovements.own[r] = 0
    BY DEF NoMovements
  <2>. QED
    BY <2>1, <2>2, NoPieces DEF Owned
<1>2. IInv /\ IInv' /\ AllOwned /\ [Next]_vars => AllOwned'
  BY StepOwned
<1>3. IInv /\ AllOwned => ReservationsAddUp
  BY DEF IInv, AllOwned, Owned, RowOK, LedgerExplains, ReservationsAddUp
<1>. QED
  BY <1>1, <1>2, <1>3, Invariance, PTL DEF Spec

-----------------------------------------------------------------------------
(* Deadlocks                                                               *)

\* A set of natural numbers has a smallest element.
LEMMA Smallest ==
  ASSUME NEW T, T \subseteq Nat, T # {}
  PROVE  \E m \in T : \A n \in T : m <= n
<1> DEFINE R == OpToRel(<, Nat)
<1>1. IsWellFoundedOn(R, Nat)
  BY NatLessThanWellFounded
<1>2. \A x, y \in Nat : x < y => <<x, y>> \in R
  BY DEF OpToRel
<1>. HIDE DEF R
<1>3. PICK m \in T : \A n \in T : <<n, m>> \notin R
  BY <1>1, WFMin
<1>4. ASSUME NEW n \in T PROVE m <= n
  <2>1. m \in Nat /\ n \in Nat
    OBVIOUS
  <2>2. ~(n < m)
    BY <1>2, <1>3, <2>1
  <2>. QED
    BY <2>1, <2>2
<1>. QED
  BY <1>4

\* Of finitely many numbers one is the greatest.
LEMMA Greatest ==
  ASSUME NEW S, IsFiniteSet(S), S # {}, NEW f, \A x \in S : f[x] \in Int
  PROVE  \E x \in S : \A y \in S : f[y] <= f[x]
<1> DEFINE Above(x) == {y \in S : f[y] > f[x]}
           Counts == {Cardinality(Above(x)) : x \in S}
<1>1. ASSUME NEW x \in S PROVE IsFiniteSet(Above(x)) /\ Cardinality(Above(x)) \in Nat
  BY FS_Subset, FS_CardinalityType
<1>2. Counts \subseteq Nat /\ Counts # {}
  BY <1>1
<1>3. PICK m \in Counts : \A n \in Counts : m <= n
  <2>. HIDE DEF Counts
  <2>. QED
    BY <1>2, Smallest
<1>4. PICK x \in S : m = Cardinality(Above(x))
  BY <1>3
<1>5. ASSUME NEW y \in S, f[y] > f[x] PROVE FALSE
  <2>1. Above(y) \in SUBSET Above(x)
    BY <1>5
  <2>2. y \in Above(x) /\ y \notin Above(y)
    BY <1>5
  <2>3. IsFiniteSet(Above(x)) /\ Cardinality(Above(x)) \in Nat /\ Cardinality(Above(y)) \in Nat
    BY <1>1
  <2>4. Cardinality(Above(x)) <= Cardinality(Above(y))
    BY <1>3, <1>4
  <2>. HIDE DEF Above
  <2>5. /\ Cardinality(Above(y)) <= Cardinality(Above(x))
        /\ Cardinality(Above(x)) = Cardinality(Above(y)) => Above(x) = Above(y)
    BY <2>1, <2>3, FS_Subset
  <2>. QED
    BY <2>2, <2>3, <2>4, <2>5
<1>. QED
  BY <1>5

\* Rows are locked in warehouse order, and only deletions cascade.
Placed(t) ==
  /\ t.pc \in {"deleting", "cascading"} => t.op = "delete"
  /\ t.pc = "locking" => \A v \in t.seen, w \in Unseen(t) : v < w

\* Only finitely many requests have begun.
Active == {c \in Request : tx[c].pc # "idle"}

OrderInv == IsFiniteSet(Active) /\ \A c \in Request : Placed(tx[c])

\* A step of one transaction.
LEMMA OnePlaced ==
  ASSUME IInv, OrderInv, NEW c \in Request, NEW t, tx' = [tx EXCEPT ![c] = t], Placed(t)
  PROVE  OrderInv'
<1>1. tx'[c] = t /\ \A d \in Request \ {c} : tx'[d] = tx[d]
  BY DEF IInv, TypeOK
<1>2. \A d \in Request : Placed(tx[d])'
  <2>1. Placed(tx[c])'
    BY <1>1 DEF Placed, Unseen, Rows
  <2>2. ASSUME NEW d \in Request \ {c} PROVE Placed(tx[d])'
    BY <1>1 DEF OrderInv, Placed, Unseen, Rows
  <2>. QED
    BY <2>1, <2>2
<1>3. Active' \in SUBSET (Active \cup {c})
  BY <1>1 DEF Active
<1>4. IsFiniteSet(Active')
  BY <1>3, FS_AddElement, FS_Subset DEF OrderInv
<1>. QED
  BY <1>2, <1>4 DEF OrderInv

\* The next row is the smallest that was not seen yet.
LEMMA LockPlaced ==
  ASSUME IInv, OrderInv, NEW c \in Request, LockRow(c)
  PROVE  OrderInv'
<1> DEFINE u == tx[c]
<1>0. /\ Placed(u) /\ u.pc = "locking"
      /\ Rows(u) \subseteq Int /\ u.seen \subseteq Rows(u)
  <2>1. u \in Transaction /\ TxOK(u) /\ Placed(u) /\ u.pc = "locking"
    BY DEF OrderInv, LockRow, IInv, TypeOK
  <2>2. u.from \in Int /\ u.to \in Int
    BY <2>1, StockAssumption DEF Transaction
  <2>. QED
    BY <2>1, <2>2 DEF Rows, TxOK, ReadOK, Locking
<1>1. PICK w, t :
        /\ w \in Warehouse /\ NextRow(u, w)
        /\ tx' = [tx EXCEPT ![c] = t]
        /\ t.pc \in {"deciding", "locking"} /\ t.seen = u.seen \cup {w}
        /\ t.op = u.op /\ t.from = u.from /\ t.to = u.to
  <2>1. PICK w \in Warehouse :
          /\ NextRow(u, w)
          /\ Go(c, IF Unseen(u) = {w} THEN "deciding" ELSE "locking", u.new, u.seen \cup {w},
                IF Visible(u, w) # NoRow THEN u.held \cup {w} ELSE u.held,
                [u.read EXCEPT ![w] = Visible(u, w)])
    BY DEF LockRow
  <2> DEFINE t == [pc |-> IF Unseen(u) = {w} THEN "deciding" ELSE "locking",
                   op |-> u.op, from |-> u.from, to |-> u.to, q |-> u.q, ref |-> u.ref,
                   new |-> u.new, seen |-> u.seen \cup {w},
                   held |-> IF Visible(u, w) # NoRow THEN u.held \cup {w} ELSE u.held,
                   read |-> [u.read EXCEPT ![w] = Visible(u, w)]]
  <2>2. tx' = [tx EXCEPT ![c] = t]
    BY <2>1 DEF Go
  <2>3. /\ t.pc \in {"deciding", "locking"} /\ t.seen = u.seen \cup {w}
        /\ t.op = u.op /\ t.from = u.from /\ t.to = u.to
    OBVIOUS
  <2>. HIDE DEF t
  <2>. QED
    BY <2>1, <2>2, <2>3
<1>2. Unseen(t) = Unseen(u) \ {w} /\ w \in Unseen(u) /\ \A v \in Unseen(u) : w <= v
  BY <1>1 DEF Unseen, Rows, NextRow
<1>3. \A v \in t.seen, x \in Unseen(t) : v < x
  <2> SUFFICES ASSUME NEW v \in t.seen, NEW x \in Unseen(t) PROVE v < x
    OBVIOUS
  <2>1. x \in Unseen(u) /\ x # w /\ w <= x /\ x \in Int /\ w \in Int
    BY <1>0, <1>2 DEF Unseen
  <2>2. v \in u.seen \/ v = w
    BY <1>1
  <2>. QED
    BY <1>0, <2>1, <2>2 DEF Placed
<1>4. Placed(t)
  BY <1>1, <1>3 DEF Placed
<1>. QED
  BY <1>1, <1>4, OnePlaced

LEMMA StepPlaced ==
  ASSUME IInv, OrderInv, [Next]_vars
  PROVE  OrderInv'
<1>1. ASSUME UNCHANGED tx PROVE OrderInv'
  BY <1>1 DEF OrderInv, Active, Placed, Unseen, Rows
<1>2. ASSUME NEW c \in Request, tx' = [tx EXCEPT ![c] = Idle] PROVE OrderInv'
  <2>1. Placed(Idle)
    BY DEF Placed, Idle
  <2>. QED
    BY <1>2, <2>1, OnePlaced
<1>3. ASSUME NEW c \in Request, NEW op, NEW from, NEW to, NEW q, NEW r, NEW pc,
             Begin(c, op, from, to, q, r, pc), pc = "deleting" => op = "delete",
             pc # "cascading"
      PROVE  OrderInv'
  <2> DEFINE t == [pc |-> pc, op |-> op, from |-> from, to |-> to, q |-> q, ref |-> r,
                   new |-> None, seen |-> {}, held |-> {},
                   read |-> [w \in Warehouse |-> NoRow]]
  <2>1. Placed(t)
    BY <1>3 DEF Placed
  <2>2. tx' = [tx EXCEPT ![c] = t]
    BY <1>3 DEF Begin
  <2>. HIDE DEF t
  <2>. QED
    BY <2>1, <2>2, OnePlaced
<1>4. ASSUME NEW c \in Request, Call(c) PROVE OrderInv'
  <2>1. CASE \E w \in Warehouse, q \in Quantity : Receive(c, w, q) \/ Issue(c, w, q)
    BY <1>3, <2>1 DEF Receive, Issue
  <2>2. CASE \E w \in Warehouse, q \in Quantity, r \in Ref :
               Reserve(c, w, q, r) \/ Release(c, w, q, r)
    BY <1>3, <2>2 DEF Reserve, Release
  <2>3. CASE \E from, to \in Warehouse, q \in Quantity : Transfer(c, from, to, q)
    BY <1>3, <2>3 DEF Transfer
  <2>4. CASE DeleteProduct(c)
    BY <1>3, <2>4 DEF DeleteProduct
  <2>. QED
    BY <1>4, <2>1, <2>2, <2>3, <2>4 DEF Call
<1>5. ASSUME NEW c \in Request, NEW pc, NEW new, NEW seen, NEW held, NEW read,
             Go(c, pc, new, seen, held, read), pc \in {"locking", "flushing", "committing", "cascading"},
             pc = "locking" => seen = {}, pc = "cascading" => tx[c].op = "delete"
      PROVE  OrderInv'
  <2> DEFINE t == [pc |-> pc, op |-> tx[c].op, from |-> tx[c].from, to |-> tx[c].to,
                   q |-> tx[c].q, ref |-> tx[c].ref,
                   new |-> new, seen |-> seen, held |-> held, read |-> read]
  <2>1. Placed(t)
    BY <1>5 DEF Placed
  <2>2. tx' = [tx EXCEPT ![c] = t]
    BY <1>5 DEF Go
  <2>. HIDE DEF t
  <2>. QED
    BY <2>1, <2>2, OnePlaced
<1>6. ASSUME NEW c \in Request, Step(c) PROVE OrderInv'
  <2>0. tx[c].pc \in {"deleting", "cascading"} => tx[c].op = "delete"
    BY DEF OrderInv, Placed
  <2>1. CASE InsertBalance(c)
    BY <1>2, <1>5, <2>1 DEF InsertBalance, Rollback
  <2>2. CASE LockRow(c)
    BY <2>2, LockPlaced
  <2>3. CASE Decide(c)
    BY <1>2, <1>5, <2>3 DEF Decide, Proceed, Rollback
  <2>4. CASE Flush(c)
    BY <1>2, <1>5, <2>4 DEF Flush, Proceed, Rollback
  <2>5. CASE Commit(c) \/ CommitDelete(c) \/ DeadlockVictim(c)
    BY <1>2, <2>5 DEF Commit, CommitDelete, DeadlockVictim, Rollback
  <2>6. CASE DeleteRow(c)
    BY <1>2, <1>5, <2>0, <2>6 DEF DeleteRow, Proceed, Rollback
  <2>7. CASE CascadeRow(c)
    BY <1>5, <2>0, <2>7 DEF CascadeRow
  <2>. QED
    BY <1>6, <2>1, <2>2, <2>3, <2>4, <2>5, <2>6, <2>7 DEF Step
<1>7. ASSUME NEW c \in Request, Fail(c) PROVE OrderInv'
  BY <1>2, <1>7 DEF Fail, Rollback
<1>8. CreateProduct \/ UNCHANGED vars => UNCHANGED tx
  BY DEF CreateProduct, vars
<1>. QED
  BY <1>1, <1>4, <1>6, <1>7, <1>8 DEF Next

\* In a deadlock without a deletion every transaction that waits for a row waits
\* for one that waits for a greater row.
LEMMA NoCycle ==
  ASSUME IInv, OrderInv, NEW D \in SUBSET Request, D # {}, Deadlocked(D),
         \A c \in D : tx[c].op # "delete"
  PROVE  FALSE
<1>1. \A c \in D : tx[c].pc \in {"inserting", "locking"}
  <2>1. \A c \in D : tx[c].pc \notin {"deleting", "cascading"}
    BY DEF OrderInv, Placed
  <2>. QED
    BY <2>1 DEF Deadlocked, Waits
<1> DEFINE L == {c \in D : tx[c].pc = "locking"}
           next == [c \in L |-> CHOOSE w \in Warehouse : NextRow(tx[c], w)]
<1>2. L # {}
  <2> SUFFICES ASSUME NEW c \in D, tx[c].pc = "inserting" PROVE \E d \in D : tx[d].pc = "locking"
    BY <1>1
  <2>1. PICK d \in D : InsertWaits(c, d)
    BY DEF Deadlocked, Waits
  <2>2. tx[d].new = Target(tx[c]) /\ Target(tx[c]) \in Warehouse
    BY <1>1, <2>1 DEF InsertWaits, IInv, TypeOK, Transaction, Target
  <2>3. Locking(tx[d])
    BY <2>2, StockAssumption DEF IInv, TxOK, LocksOK
  <2>. QED
    BY <1>1, <2>3 DEF Locking
<1>3. IsFiniteSet(L)
  <2>1. L \in SUBSET Active
    BY DEF Active
  <2>. QED
    BY <2>1, FS_Subset DEF OrderInv
<1>4. ASSUME NEW c \in L
      PROVE  next[c] \in Int /\ \E d \in L : next[c] \in tx[d].held
  <2>1. PICK d \in D : \E w \in tx[d].held : NextRow(tx[c], w)
    BY <1>1, <1>4 DEF Deadlocked, Waits
  <2>2. PICK w \in tx[d].held : NextRow(tx[c], w)
    BY <2>1
  <2>3. Rows(tx[c]) \subseteq Warehouse /\ Rows(tx[c]) \subseteq Int
    <3>1. Rows(tx[c]) \subseteq Warehouse
      BY DEF IInv, TypeOK, Transaction, Rows
    <3>. QED
      BY <3>1, StockAssumption
  <2>4. w \in Warehouse
    BY <2>2, <2>3 DEF NextRow, Unseen
  <2>5. \A v \in Warehouse : NextRow(tx[c], v) => v = w
    BY <2>2, <2>3 DEF NextRow, Unseen
  <2>6. next[c] = w /\ w \in Int
    BY <2>2, <2>4, <2>5, StockAssumption
  <2>7. d \in L
    BY <1>1, <2>2 DEF IInv, TxOK, LocksOK, Locking
  <2>. QED
    BY <2>2, <2>6, <2>7
<1>5. ASSUME NEW c \in L, NEW d \in L, next[c] \in tx[d].held PROVE next[c] < next[d]
  <2>1. PICK w \in Warehouse : NextRow(tx[d], w)
    <3>1. \E e \in D : \E w \in tx[e].held : NextRow(tx[d], w)
      BY <1>1 DEF Deadlocked, Waits
    <3>2. Rows(tx[d]) \subseteq Warehouse
      BY DEF IInv, TypeOK, Transaction, Rows
    <3>. QED
      BY <3>1, <3>2 DEF NextRow, Unseen
  <2>2. NextRow(tx[d], next[d])
    BY <2>1
  <2>3. tx[d].held \subseteq tx[d].seen
    BY DEF IInv, TxOK, ReadOK, Locking
  <2>. QED
    BY <1>5, <2>2, <2>3 DEF OrderInv, Placed, NextRow
<1>6. PICK c \in L : \A d \in L : next[d] <= next[c]
  <2>. HIDE DEF L, next
  <2>. QED
    BY <1>2, <1>3, <1>4, Greatest
<1>7. PICK d \in L : next[c] \in tx[d].held
  BY <1>4
<1>8. next[c] < next[d] /\ next[d] <= next[c] /\ next[c] \in Int /\ next[d] \in Int
  BY <1>4, <1>5, <1>6, <1>7
<1>. QED
  BY <1>8

\* "concurrent opposite-direction transfers request locks in the same order":
\* for any number of requests and warehouses, a deadlock needs a deletion.
THEOREM DeadlocksNeedDeletions == Spec => []OnlyDeletionsDeadlock
<1>1. Init => OrderInv
  <2> SUFFICES ASSUME Init PROVE OrderInv
    OBVIOUS
  <2>1. \A c \in Request : tx[c].pc = "idle"
    BY DEF Init, Idle
  <2>2. Active = {}
    BY <2>1 DEF Active
  <2>. QED
    BY <2>1, <2>2, FS_EmptySet DEF OrderInv, Placed
<1>2. IInv /\ OrderInv /\ [Next]_vars => OrderInv'
  BY StepPlaced
<1>3. IInv /\ OrderInv => OnlyDeletionsDeadlock
  BY NoCycle DEF OnlyDeletionsDeadlock
<1>. QED
  BY <1>1, <1>2, <1>3, Invariance, PTL DEF Spec
=============================================================================
