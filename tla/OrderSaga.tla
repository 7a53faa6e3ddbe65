----------------------------- MODULE OrderSaga ------------------------------
(***************************************************************************)
(* Orders of the order service and the stock they reserve in the inventory *)
(* service.  Creating an order reserves its lines one HTTP call at a time  *)
(* and then commits the order; cancelling one releases them and commits.   *)
(* When a call or the commit raises, the local transaction is rolled back  *)
(* and the calls that returned are undone, one HTTP call at a time.        *)
(*                                                                         *)
(* A call is served by one inventory transaction (module Inventory) under  *)
(* the tests of StockRules.  What can go wrong is a parameter: a request   *)
(* or a reply is lost, a request is served after its sender timed out, a   *)
(* commit raises before or after it took effect, the service crashes.      *)
(***************************************************************************)
EXTENDS StockRules, Sequences, FiniteSets

CONSTANTS
  Order,     \* orders: every POST /orders draws a fresh id and number
  Caller,    \* POST /orders/{id}/cancel requests
  Product,
  Lines,     \* [Order -> Seq([product : Product, q : Nat])]: the order's items
  Stock,     \* [Product -> Nat]: quantity on hand in the warehouse
  Faults,    \* the faults that may happen
  MaxFaults  \* bound: how many of them happen in a behaviour

FaultKind == {"request_lost", "reply_lost", "late_request",
              "commit_rolled_back", "commit_reply_lost", "crash"}

ASSUME OrderAssumption ==
  /\ Order \cap Caller = {}
  /\ Stock \in [Product -> Nat]
  /\ Lines \in [Order -> Seq([product : Product, q : Nat \ {0}])]
  /\ Order # {} /\ \A o \in Order : Lines[o] # <<>>
  \* OrderCreate.reject_duplicate_products
  /\ \A o \in Order : \A i, j \in DOMAIN Lines[o] :
       Lines[o][i].product = Lines[o][j].product => i = j
  /\ Faults \subseteq FaultKind /\ MaxFaults \in Nat

VARIABLES
  status,   \* [Order -> status]: the committed rows of orders
  proc,     \* [Order \cup Caller -> record]: the create and cancel requests
  rows,     \* [Product -> balance row] of the inventory service
  own,      \* [Order -> [Product -> Int]]: what an order's reference reserves
  late,     \* requests whose sender no longer waits for them
  flagged,  \* orders for which OrderCompensationError was raised
  unsure,   \* history: orders for which a call or commit had an outcome that
            \* its request cannot know of, or whose service crashed
  faults    \* number of faults so far

vars == <<status, proc, rows, own, late, flagged, unsure, faults>>

-----------------------------------------------------------------------------
\* A request runs through its lines, commits, and undoes the first done lines
\* when anything raises.  call is the state of the HTTP call it is waiting for.
Running == {"calling", "committing", "undoing"}
Process == [pc : {"idle", "ended"} \cup Running, order : Order, i : Nat,
            done : Nat, call : {"sent", "ok", "error"}, failed : BOOLEAN]

At(pc, o, i, done, failed) ==
  [pc |-> pc, order |-> o, i |-> i, done |-> done, call |-> "sent",
   failed |-> failed]
Resting(pc, o) == At(pc, o, 0, 0, FALSE)

Init ==
  /\ status = [o \in Order |-> "absent"]
  /\ proc = [x \in Order \cup Caller |->
               Resting("idle", IF x \in Order THEN x ELSE CHOOSE o \in Order : TRUE)]
  /\ rows = [p \in Product |-> [onHand |-> Stock[p], reserved |-> 0]]
  /\ own = [o \in Order |-> [p \in Product |-> 0]]
  /\ late = {}
  /\ flagged = {}
  /\ unsure = {}
  /\ faults = 0

Go(x, state) == proc' = [proc EXCEPT ![x] = state]

\* Creating reserves and undoes by releasing; cancelling is the reverse.
Creates(x) == x \in Order
Reserves(x) == Creates(x) <=> proc[x].pc = "calling"
Line(x) == Lines[proc[x].order][proc[x].i]
Message(x) == [reserve |-> Reserves(x), order |-> proc[x].order, line |-> Line(x)]

\* The row lock of SELECT ... FOR UPDATE, held up to commit or rollback.
Locked(o) ==
  \E x \in Caller : proc[x].order = o /\ proc[x].pc \in {"calling", "committing"}

-----------------------------------------------------------------------------
(* The inventory service                                                   *)

Grants(m) ==
  LET row == rows[m.line.product]
      mine == own[m.order][m.line.product]
  IN  IF m.reserve THEN CanReserve(row, mine, m.line.q)
                   ELSE CanRelease(row, mine, m.line.q)

\* reserve_stock or release_stock, in one transaction.
Serves(m) ==
  LET delta == IF m.reserve THEN m.line.q ELSE -m.line.q IN
  IF Grants(m)
  THEN /\ rows' = [rows EXCEPT ![m.line.product].reserved = @ + delta]
       /\ own' = [own EXCEPT ![m.order][m.line.product] = @ + delta]
  ELSE UNCHANGED <<rows, own>>

\* The call of x is served; its reply is a success or a 4xx.
Serve(x) ==
  /\ proc[x].pc \in {"calling", "undoing"} /\ proc[x].call = "sent"
  /\ Serves(Message(x))
  /\ proc' = [proc EXCEPT ![x].call = IF Grants(Message(x)) THEN "ok" ELSE "error"]
  /\ UNCHANGED <<status, late, flagged, unsure, faults>>

\* A request is served although nobody waits for its reply any more.
ServeLate(m) ==
  /\ m \in late
  /\ Serves(m)
  /\ late' = late \ {m}
  /\ UNCHANGED <<status, proc, flagged, unsure, faults>>

-----------------------------------------------------------------------------
(* Network and process faults                                              *)

Inject(kind) ==
  kind \in Faults /\ faults < MaxFaults /\ faults' = faults + 1

RequestLost(x) ==
  /\ Inject("request_lost")
  /\ proc[x].pc \in {"calling", "undoing"} /\ proc[x].call = "sent"
  /\ proc' = [proc EXCEPT ![x].call = "error"]
  /\ UNCHANGED <<status, rows, own, late, flagged, unsure>>

Unsure(x) == unsure' = unsure \cup {proc[x].order}

ReplyLost(x) ==
  /\ Inject("reply_lost")
  /\ proc[x].pc \in {"calling", "undoing"} /\ proc[x].call = "ok"
  /\ proc' = [proc EXCEPT ![x].call = "error"]
  /\ Unsure(x)
  /\ UNCHANGED <<status, rows, own, late, flagged>>

Timeout(x) ==
  /\ Inject("late_request")
  /\ proc[x].pc \in {"calling", "undoing"} /\ proc[x].call = "sent"
  /\ proc' = [proc EXCEPT ![x].call = "error"]
  /\ late' = late \cup {Message(x)}
  /\ Unsure(x)
  /\ UNCHANGED <<status, rows, own, flagged>>

\* The service dies: its transaction is rolled back, nothing is undone.
Crash(x) ==
  /\ Inject("crash") /\ proc[x].pc \in Running
  /\ Go(x, Resting("ended", proc[x].order))
  /\ Unsure(x)
  /\ UNCHANGED <<status, rows, own, late, flagged>>

-----------------------------------------------------------------------------
(* create_order, confirm_order, cancel_order                               *)

\* _create_order after _build_order found the warehouse and the products.
CreateOrder(o) ==
  /\ proc[o].pc = "idle"
  /\ Go(o, At("calling", o, 1, 0, FALSE))
  /\ UNCHANGED <<status, rows, own, late, flagged, unsure, faults>>

\* A confirmed order stays confirmed; any other status is a conflict.
ConfirmOrder(o) ==
  /\ status[o] = "RESERVED" /\ ~Locked(o)
  /\ status' = [status EXCEPT ![o] = "CONFIRMED"]
  /\ UNCHANGED <<proc, rows, own, late, flagged, unsure, faults>>

\* Mutant: a confirmed order can be cancelled.
AnyCancellable(o) == status[o] \in {"RESERVED", "CONFIRMED"}

MayCancel(o) == status[o] = "RESERVED"

\* _cancel_order finds the order RESERVED under the row lock.
CancelOrder(x, o) ==
  /\ proc[x].pc = "idle" /\ MayCancel(o) /\ ~Locked(o)
  /\ Go(x, At("calling", o, 1, 0, FALSE))
  /\ UNCHANGED <<status, rows, own, late, flagged, unsure, faults>>

\* Mutant: a line counts as done only when the next call returned too.
ReturnedLate(x) ==
  IF proc[x].pc = "committing" THEN proc[x].done - 1
  ELSE IF proc[x].i > 1 THEN proc[x].i - 2 ELSE 0

\* The lines whose calls returned: reserved_lines, released_lines.
Returned(x) == IF proc[x].pc = "committing" THEN proc[x].done ELSE proc[x].i - 1

\* Mutants: only one line is undone; the same line is undone over and over.
OnlyOneUndone(x) == proc[x].i
SameUndone(x) == proc[x].i

\* A create undoes its lines in reverse, a cancellation in order.
FirstUndone(x, n) == IF Creates(x) THEN n ELSE 1
LastUndone(x) == IF Creates(x) THEN 1 ELSE proc[x].done
NextUndone(x) == IF Creates(x) THEN proc[x].i - 1 ELSE proc[x].i + 1

\* database.rollback(), then the compensation of what was done.
Compensate(x) ==
  LET n == Returned(x) o == proc[x].order IN
  Go(x, IF n = 0 THEN Resting("ended", o)
        ELSE At("undoing", o, FirstUndone(x, n), n, FALSE))

\* A line's call returned: the next line, or the commit after the last one.
CallReturns(x) ==
  LET o == proc[x].order i == proc[x].i IN
  /\ proc[x].pc = "calling" /\ proc[x].call = "ok"
  /\ Go(x, IF i < Len(Lines[o]) THEN At("calling", o, i + 1, i, FALSE)
           ELSE At("committing", o, i, i, FALSE))
  /\ UNCHANGED <<status, rows, own, late, flagged, unsure, faults>>

\* A line's call raised.
CallRaises(x) ==
  /\ proc[x].pc = "calling" /\ proc[x].call = "error"
  /\ Compensate(x)
  /\ UNCHANGED <<status, rows, own, late, flagged, unsure, faults>>

Committed(x) ==
  status' = [status EXCEPT ![proc[x].order] =
               IF Creates(x) THEN "RESERVED" ELSE "CANCELLED"]

Commit(x) ==
  /\ proc[x].pc = "committing"
  /\ Committed(x)
  /\ Go(x, Resting("ended", proc[x].order))
  /\ UNCHANGED <<rows, own, late, flagged, unsure, faults>>

\* The commit raises, rolled back or - its reply was lost - in effect.
CommitRaises(x) ==
  /\ proc[x].pc = "committing"
  /\ \/ Inject("commit_rolled_back") /\ UNCHANGED <<status, unsure>>
     \/ Inject("commit_reply_lost") /\ Committed(x) /\ Unsure(x)
  /\ Compensate(x)
  /\ UNCHANGED <<rows, own, late, flagged>>

\* _release_lines and _reserve_lines go on after a failure and report it.
Undone(x) ==
  LET failed == proc[x].failed \/ proc[x].call = "error"
      o == proc[x].order
  IN
  /\ proc[x].pc = "undoing" /\ proc[x].call \in {"ok", "error"}
  /\ IF proc[x].i # LastUndone(x)
     THEN /\ Go(x, At("undoing", o, NextUndone(x), proc[x].done, failed))
          /\ UNCHANGED flagged
     ELSE /\ Go(x, Resting("ended", o))
          /\ flagged' = IF failed THEN flagged \cup {o} ELSE flagged
  /\ UNCHANGED <<status, rows, own, late, unsure, faults>>

-----------------------------------------------------------------------------
Progress(x) ==
  Serve(x) \/ CallReturns(x) \/ CallRaises(x) \/ Commit(x) \/ Undone(x)

Fault(x) ==
  RequestLost(x) \/ ReplyLost(x) \/ Timeout(x) \/ Crash(x) \/ CommitRaises(x)

Next ==
  \/ \E o \in Order : CreateOrder(o) \/ ConfirmOrder(o)
  \/ \E x \in Caller, o \in Order : CancelOrder(x, o)
  \/ \E x \in Order \cup Caller : Progress(x) \/ Fault(x)
  \/ \E m \in late : ServeLate(m)

Spec == Init /\ [][Next]_vars

\* httpx calls end, at the latest by their timeout, and a request is run to its
\* end; nobody has to order, to confirm or to cancel.
FairSpec == Spec /\ \A x \in Order \cup Caller : WF_vars(Progress(x))

-----------------------------------------------------------------------------
(* Properties                                                              *)

\* Rows, references and requests keep their types.
TypeOK ==
  /\ status \in [Order -> {"absent", "RESERVED", "CONFIRMED", "CANCELLED"}]
  /\ proc \in [Order \cup Caller -> Process]
  /\ rows \in [Product -> [onHand : Nat, reserved : Nat]]
  /\ own \in [Order -> [Product -> Nat]]
  /\ late \subseteq [reserve : BOOLEAN, order : Order,
                     line : [product : Product, q : Nat]]
  /\ flagged \subseteq Order /\ unsure \subseteq Order
  /\ faults \in 0..MaxFaults

\* Every line of the order is reserved for it, or none is.
Backed(o) ==
  \A i \in 1..Len(Lines[o]) : own[o][Lines[o][i].product] = Lines[o][i].q
Freed(o) == \A p \in Product : own[o][p] = 0

\* Nothing is under way for the order, and no error was reported that asks for
\* a manual reconciliation.
Settled(o) ==
  /\ o \notin flagged
  /\ \A x \in Order \cup Caller : proc[x].order = o => proc[x].pc \notin Running
  /\ \A m \in late : m.order # o

\* "Release all successful reservations when local creation fails": an order
\* that was not created leaves no stock reserved, provided its calls and commits
\* had the outcome their request saw, whatever happened to the others.
CreationCompensated ==
  \A o \in Order \ unsure : Settled(o) /\ status[o] = "absent" => Freed(o)

\* "recreate the released reservations so the external state matches the
\* order": such an order owns nothing once cancelled, and all its lines while
\* reserved or confirmed, whichever cancellations, confirmations and other orders
\* interleaved with the compensation that follows a rollback.
CancellationCompensated ==
  \A o \in Order \ unsure : Settled(o) =>
    /\ status[o] = "CANCELLED" => Freed(o)
    /\ status[o] \in {"RESERVED", "CONFIRMED"} => Backed(o)

\* Lost, late and repeated calls never reserve a line twice, release what
\* another order holds or reserve more than there is.
LineByLine ==
  \A p \in Product, o \in Order : own[o][p] > 0 =>
    \E i \in 1..Len(Lines[o]) : Lines[o][i].product = p /\ Lines[o][i].q = own[o][p]
NotOverbooked ==
  \A p \in Product : rows[p].reserved <= rows[p].onHand /\ rows[p].onHand = Stock[p]
Reserving(p) == Pieces([o \in Order |-> own[o][p]])
StockAccounted ==
  /\ LineByLine /\ NotOverbooked
  /\ \A p \in Product : rows[p].reserved = Cardinality(Reserving(p))

\* "Confirm an order whose inventory is already reserved."
ConfirmsBacked ==
  [][\A o \in Order :
       status[o] # "CONFIRMED" /\ status'[o] = "CONFIRMED" => Backed(o)]_vars

\* A confirmed or cancelled order keeps that status: confirmations and
\* cancellations exclude each other.
FinalStatus ==
  [][\A o \in Order :
       status[o] \in {"CONFIRMED", "CANCELLED"} => status'[o] = status[o]]_vars

\* A request ends, its compensation included: no order stays locked by a
\* cancellation that waits for the inventory service.
RequestsEnd ==
  \A x \in Order \cup Caller : proc[x].pc \in Running ~> proc[x].pc = "ended"
=============================================================================
