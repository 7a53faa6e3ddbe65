--------------------------- MODULE OrderSagaProofs ---------------------------
(***************************************************************************)
(* Theorems about OrderSaga, for any number of orders, lines, cancelling   *)
(* requests and faults.  What carries them is a division of labour: of an  *)
(* order whose calls had the outcome their request saw, each line is held  *)
(* by the order or missing because of exactly one request, which either    *)
(* commits without it or is still going to put it back.                    *)
(***************************************************************************)
EXTENDS OrderSaga, StockRulesProofs

\* Where a request is among its lines, and what its order's status is then.
ProcOK(x) ==
  LET s == proc[x] n == Len(Lines[s.order]) IN
  /\ s.pc = "calling" => s.i \in 1..n /\ s.done = s.i - 1 /\ ~s.failed
  /\ s.pc = "committing" => s.done = n
  /\ s.pc = "undoing" => s.done \in 1..n /\ s.i \in 1..s.done
  /\ x \in Order =>
       /\ s.order = x
       /\ s.pc \in {"idle", "calling", "committing"} => status[x] = "absent"
       /\ status[x] # "absent" /\ x \notin unsure => s.pc = "ended"
  /\ x \in Caller =>
       /\ s.pc \in {"calling", "committing"} => status[s.order] = "RESERVED"
       /\ s.pc = "undoing" => status[s.order] # "absent"

\* The row lock has one owner.
LockOK ==
  \A x, y \in Caller :
    (/\ proc[x].pc \in {"calling", "committing"} /\ proc[y].pc \in {"calling", "committing"}
     /\ proc[x].order = proc[y].order)
    => x = y

\* What x does to line j of its order, to reserve or to release it, is in force:
\* done and not yet undone.
InForce(x, j) ==
  LET s == proc[x] IN
  \/ s.pc = "calling" /\ (j < s.i \/ (j = s.i /\ s.call = "ok"))
  \/ s.pc = "committing"
  \/ /\ s.pc = "undoing"
     /\ \/ j = s.i /\ s.call = "sent"
        \/ IF x \in Order THEN j < s.i ELSE s.i < j /\ j <= s.done

Released(o, j) == \E x \in Caller : proc[x].order = o /\ InForce(x, j)

\* Every call and commit of the order had the outcome its request saw, and no
\* compensation failed so far.
Clean(o) ==
  /\ o \notin flagged \cup unsure
  /\ \A x \in Order \cup Caller :
       proc[x].order = o /\ proc[x].pc = "undoing" => ~proc[x].failed /\ proc[x].call # "error"

\* The order holds the line.
Held(o, j) ==
  CASE status[o] = "absent" -> InForce(o, j)
    [] status[o] = "CANCELLED" -> FALSE
    [] OTHER -> ~Released(o, j)

\* A line is held in full or not at all, and released by one request at most.
LineOK(o, j) ==
  /\ own[o][Lines[o][j].product] = IF Held(o, j) THEN Lines[o][j].q ELSE 0
  /\ \A x, y \in Caller :
       proc[x].order = o /\ InForce(x, j) /\ proc[y].order = o /\ InForce(y, j) => x = y
  /\ status[o] = "CANCELLED" => ~Released(o, j)

LinesOK(o) == \A j \in 1..Len(Lines[o]) : LineOK(o, j)

\* A late request asks for a line of an order whose outcomes are unsure.
LateOK ==
  \A m \in late : /\ m.order \in unsure
                  /\ \E i \in 1..Len(Lines[m.order]) : Lines[m.order][i] = m.line

\* The inductive invariant.
IInv ==
  /\ TypeOK /\ LineByLine /\ NotOverbooked
  /\ \A x \in Order \cup Caller : ProcOK(x)
  /\ LockOK
  /\ LateOK
  /\ \A o \in Order : Clean(o) => LinesOK(o)

-----------------------------------------------------------------------------
(* What the operators of the model do                                      *)

Actor == Order \cup Caller

\* A line of an order, with the facts that the assumptions give about it.
LEMMA LineFacts ==
  ASSUME NEW o \in Order
  PROVE  /\ Len(Lines[o]) \in Nat \ {0}
         /\ \A j \in 1..Len(Lines[o]) :
              /\ Lines[o][j] \in [product : Product, q : Nat \ {0}]
              /\ Lines[o][j].product \in Product /\ Lines[o][j].q \in Nat \ {0}
         /\ \A i, j \in 1..Len(Lines[o]) :
              Lines[o][i].product = Lines[o][j].product => i = j
<1>1. Lines[o] \in Seq([product : Product, q : Nat \ {0}]) /\ Lines[o] # <<>>
  BY OrderAssumption
<1>2. Len(Lines[o]) \in Nat /\ DOMAIN Lines[o] = 1..Len(Lines[o])
  BY <1>1
<1>3. Len(Lines[o]) # 0
  BY <1>1
<1>4. ASSUME NEW j \in 1..Len(Lines[o])
      PROVE  Lines[o][j] \in [product : Product, q : Nat \ {0}]
  <2> DEFINE L == [product : Product, q : Nat \ {0}]
  <2>1. Lines[o] \in Seq(L)
    BY <1>1
  <2>. HIDE DEF L
  <2>2. Lines[o][j] \in L
    BY <2>1
  <2>. QED
    BY <2>2 DEF L
<1>5. \A i, j \in 1..Len(Lines[o]) :
        Lines[o][i].product = Lines[o][j].product => i = j
  BY <1>2, OrderAssumption
<1>. QED
  BY <1>2, <1>3, <1>4, <1>5

\* A request about a line: from a sender that waits for it, or a late one.
Asks(m) ==
  /\ m \in [reserve : BOOLEAN, order : Order, line : [product : Product, q : Nat]]
  /\ \E i \in 1..Len(Lines[m.order]) : Lines[m.order][i] = m.line

\* A request that is granted takes a line that was not held or puts back one
\* that was, in full; a request that is not granted changes nothing.
LEMMA ServesFacts ==
  ASSUME IInv, NEW m, Asks(m), Serves(m)
  PROVE  LET mine == own[m.order][m.line.product]
             then == own'[m.order][m.line.product]
         IN
         /\ rows' \in [Product -> [onHand : Nat, reserved : Nat]]
         /\ own' \in [Order -> [Product -> Nat]]
         /\ LineByLine' /\ NotOverbooked'
         /\ \A o \in Order, p \in Product :
              o # m.order \/ p # m.line.product => own'[o][p] = own[o][p]
         /\ Grants(m) => IF m.reserve THEN mine = 0 /\ then = m.line.q
                                      ELSE mine = m.line.q /\ then = 0
         /\ ~Grants(m) => then = mine
<1> DEFINE p == m.line.product  q == m.line.q  o == m.order
           delta == IF m.reserve THEN q ELSE -q
<1>1. o \in Order /\ p \in Product /\ q \in Nat \ {0} /\ m.reserve \in BOOLEAN
  BY LineFacts DEF Asks
<1>2. PICK j \in 1..Len(Lines[o]) : Lines[o][j] = m.line
  BY DEF Asks
<1>3. /\ rows \in [Product -> [onHand : Nat, reserved : Nat]]
      /\ own \in [Order -> [Product -> Nat]] /\ LineByLine /\ NotOverbooked
  BY DEF IInv, TypeOK
<1>4. CASE ~Grants(m)
  BY <1>1, <1>3, <1>4 DEF Serves, LineByLine, NotOverbooked
<1>5. CASE Grants(m)
  <2>1. /\ rows' = [rows EXCEPT ![p].reserved = @ + delta]
        /\ own' = [own EXCEPT ![o][p] = @ + delta]
    BY <1>5 DEF Serves
  <2>2. own[o][p] \in Nat /\ rows[p].reserved \in Nat /\ rows[p].onHand \in Nat
    BY <1>1, <1>3
  <2>3. CASE m.reserve
    <3>1. own[o][p] = 0 /\ rows[p].reserved + q <= rows[p].onHand
      BY <1>1, <1>5, <2>2, <2>3 DEF Grants, CanReserve, CanTake, Available
    <3>2. delta = q
      BY <2>3
    <3>. HIDE DEF delta, o, p, q
    <3>3. /\ rows' \in [Product -> [onHand : Nat, reserved : Nat]]
          /\ own' \in [Order -> [Product -> Nat]]
      BY <1>1, <1>3, <2>1, <2>2, <3>1, <3>2
    <3>4. own'[o][p] = q /\ \A oo \in Order, pp \in Product :
                               oo # o \/ pp # p => own'[oo][pp] = own[oo][pp]
      BY <1>1, <1>3, <2>1, <2>2, <3>1, <3>2
    <3>5. NotOverbooked'
      BY <1>1, <1>3, <2>1, <2>2, <3>1, <3>2 DEF NotOverbooked
    <3>6. LineByLine'
      <4>1. Lines[o][j].product = p /\ Lines[o][j].q = q
        BY <1>2 DEF p, q
      <4>. QED
        BY <1>1, <1>2, <1>3, <3>4, <4>1 DEF LineByLine
    <3>. QED
      BY <1>5, <2>3, <3>1, <3>3, <3>4, <3>5, <3>6, SMTT(30) DEF o, p, q
  <2>4. CASE ~m.reserve
    <3>1. q <= own[o][p] /\ q <= rows[p].reserved
      BY <1>1, <1>5, <2>2, <2>4 DEF Grants, CanRelease
    <3>2. delta = -q
      BY <2>4
    <3>3. own[o][p] = q
      <4>1. PICK i \in 1..Len(Lines[o]) : Lines[o][i].product = p /\ Lines[o][i].q = own[o][p]
        <5>1. own[o][p] > 0
          BY <1>1, <2>2, <3>1
        <5>. HIDE DEF o, p
        <5>. QED
          BY <1>1, <1>3, <5>1 DEF LineByLine
      <4>2. i = j
        BY <1>1, <1>2, <4>1, LineFacts
      <4>. QED
        BY <1>2, <4>1, <4>2
    <3>. HIDE DEF delta, o, p, q
    <3>4. /\ rows' \in [Product -> [onHand : Nat, reserved : Nat]]
          /\ own' \in [Order -> [Product -> Nat]]
      BY <1>1, <1>3, <2>1, <2>2, <3>1, <3>2, SMTT(30)
    <3>5. own'[o][p] = 0 /\ \A oo \in Order, pp \in Product :
                               oo # o \/ pp # p => own'[oo][pp] = own[oo][pp]
      BY <1>1, <1>3, <2>1, <2>2, <3>2, <3>3
    <3>6. NotOverbooked'
      BY <1>1, <1>3, <2>1, <2>2, <3>1, <3>2 DEF NotOverbooked
    <3>7. LineByLine'
      BY <1>1, <1>3, <3>5 DEF LineByLine
    <3>. QED
      BY <1>5, <2>4, <3>3, <3>4, <3>5, <3>6, <3>7, SMTT(30) DEF o, p, q
  <2>. QED
    BY <1>1, <2>3, <2>4
<1>. QED
  BY <1>4, <1>5

\* A request that runs is at a line of its order and asks for it.
LEMMA MessageFacts ==
  ASSUME IInv, NEW x \in Actor, proc[x].pc \in {"calling", "undoing"}
  PROVE  /\ proc[x].order \in Order /\ proc[x].i \in 1..Len(Lines[proc[x].order])
         /\ Asks(Message(x))
<1>1. proc[x] \in Process /\ ProcOK(x)
  BY DEF IInv, TypeOK, Actor
<1>2. proc[x].order \in Order /\ proc[x].i \in 1..Len(Lines[proc[x].order])
  BY <1>1, LineFacts DEF Process, ProcOK
<1>3. Line(x) \in [product : Product, q : Nat]
  BY <1>2, LineFacts DEF Line
<1>. QED
  BY <1>2, <1>3 DEF Message, Asks, Line, Reserves

-----------------------------------------------------------------------------
(* What a step of one request leaves alone                                 *)

Locking(x) == proc[x].pc \in {"calling", "committing"}
Marked(x) == proc[x].pc = "undoing" /\ (proc[x].failed \/ proc[x].call = "error")

\* A line stays in order as long as neither the status of its order, nor what
\* is held of it, nor what is in force for it changes.
LEMMA LineUndisturbed ==
  ASSUME NEW o \in Order, NEW j \in 1..Len(Lines[o]), LineOK(o, j), status'[o] = status[o],
         own'[o][Lines[o][j].product] = own[o][Lines[o][j].product],
         InForce(o, j)' <=> InForce(o, j),
         \A y \in Caller : (proc[y].order = o /\ InForce(y, j))' <=>
                           (proc[y].order = o /\ InForce(y, j))
  PROVE  LineOK(o, j)'
<1>1. Released(o, j)' <=> Released(o, j)
  BY DEF Released
<1>2. Held(o, j)' <=> Held(o, j)
  BY <1>1 DEF Held
<1>. QED
  BY <1>1, <1>2 DEF LineOK

LEMMA Undisturbed ==
  ASSUME NEW o \in Order, LinesOK(o), status'[o] = status[o],
         \A j \in 1..Len(Lines[o]) :
           /\ own'[o][Lines[o][j].product] = own[o][Lines[o][j].product]
           /\ InForce(o, j)' <=> InForce(o, j)
           /\ \A y \in Caller : (proc[y].order = o /\ InForce(y, j))' <=>
                                (proc[y].order = o /\ InForce(y, j))
  PROVE  LinesOK(o)'
  BY LineUndisturbed DEF LinesOK

\* Where the request x goes on for order o, no other order becomes clean, and
\* what is in force for the others does not change.
LEMMA OthersUndisturbed ==
  ASSUME IInv, NEW x \in Actor, NEW s, Go(x, s),
         s.order = proc[x].order \/ (x \in Caller /\ proc[x].pc = "idle"),
         flagged \subseteq flagged', unsure \subseteq unsure',
         NEW o \in Order, o # s.order, status'[o] = status[o],
         \A p \in Product : own'[o][p] = own[o][p],
         Clean(o)'
  PROVE  LinesOK(o)'
<1>1. proc \in [Actor -> Process] /\ (\A y \in Actor : ProcOK(y))
  BY DEF IInv, TypeOK, Actor
<1>2. proc'[x] = s /\ \A y \in Actor \ {x} : proc'[y] = proc[y]
  BY <1>1 DEF Go
<1>3. Clean(o)
  BY <1>1, <1>2 DEF Clean, Actor
<1>4. LinesOK(o)
  BY <1>3 DEF IInv
<1>5. ASSUME NEW j \in 1..Len(Lines[o])
      PROVE  /\ own'[o][Lines[o][j].product] = own[o][Lines[o][j].product]
             /\ InForce(o, j)' <=> InForce(o, j)
             /\ \A y \in Caller : (proc[y].order = o /\ InForce(y, j))' <=>
                                  (proc[y].order = o /\ InForce(y, j))
  <2>1. Lines[o][j].product \in Product
    BY LineFacts
  <2>2. ASSUME NEW y \in Actor, y # x PROVE InForce(y, j)' <=> InForce(y, j)
    BY <1>2, <2>2 DEF InForce
  <2>3. x # o
    BY <1>1, OrderAssumption DEF ProcOK, Actor
  <2>4. proc[x].pc = "idle" => ~InForce(x, j)
    BY DEF InForce
  <2>5. InForce(o, j)' <=> InForce(o, j)
    BY <2>2, <2>3 DEF Actor
  <2>6. ASSUME NEW y \in Caller
        PROVE  (proc[y].order = o /\ InForce(y, j))' <=> (proc[y].order = o /\ InForce(y, j))
    <3>1. CASE y = x
      BY <1>2, <2>4, <3>1
    <3>2. CASE y # x
      BY <1>2, <2>2, <3>2 DEF Actor
    <3>. QED
      BY <3>1, <3>2
  <2>. QED
    BY <2>1, <2>5, <2>6
<1>. QED
  BY <1>4, <1>5, Undisturbed

\* A step that only moves x on, and commits its order if anything, preserves the
\* invariant if x and the lines of its order are in order afterwards.
LEMMA StepOf ==
  ASSUME IInv, NEW x \in Actor, NEW s \in Process, Go(x, s),
         s.order = proc[x].order \/ (x \in Caller /\ proc[x].pc = "idle"),
         flagged \subseteq flagged', unsure \subseteq unsure',
         \/ UNCHANGED status
         \/ proc[x].pc = "committing" /\ Committed(x) /\ s.order = proc[x].order,
         s.pc \in {"calling", "committing"} => Locking(x) \/ ~Locked(s.order),
         \A o \in Order \ {s.order}, p \in Product : own'[o][p] = own[o][p],
         TypeOK', LineByLine', NotOverbooked', LateOK', ProcOK(x)',
         Clean(s.order)' => LinesOK(s.order)'
  PROVE  IInv'
<1>1. /\ proc \in [Actor -> Process] /\ (\A y \in Actor : ProcOK(y)) /\ LockOK
      /\ status \in [Order -> {"absent", "RESERVED", "CONFIRMED", "CANCELLED"}]
  BY DEF IInv, TypeOK, Actor
<1>2. proc'[x] = s /\ \A y \in Actor \ {x} : proc'[y] = proc[y]
  BY <1>1 DEF Go
<1>3. s.order \in Order /\ (x \in Order => s.order = x) /\ ~(x \in Order /\ x \in Caller)
  BY <1>1, OrderAssumption DEF Process, ProcOK, Actor
<1>4. \A o \in Order \ {s.order} : status'[o] = status[o]
  BY <1>1 DEF Committed
<1>5. \A o \in Order : Clean(o)' => LinesOK(o)'
  BY <1>2, <1>4, OthersUndisturbed
<1>6. \/ UNCHANGED status
      \/ /\ x \in Order /\ status[s.order] = "absent" /\ status'[s.order] = "RESERVED"
      \/ /\ x \in Caller /\ proc[x].pc = "committing" /\ proc[x].order = s.order
         /\ status[s.order] = "RESERVED" /\ status'[s.order] = "CANCELLED"
  BY <1>1, <1>3 DEF Committed, Creates, ProcOK, Actor
<1>7. ASSUME NEW y \in Actor, y # x PROVE ProcOK(y)'
  <2>1. ProcOK(y) /\ proc'[y] = proc[y]
    BY <1>1, <1>2, <1>7
  <2>2. CASE y \in Order
    <3>1. proc[y].order = y /\ (x \in Order => y # s.order)
      BY <1>3, <1>7, <2>1, <2>2 DEF ProcOK
    <3>. QED
      BY <1>3, <1>4, <1>6, <2>1, <2>2, <3>1, OrderAssumption DEF ProcOK
  <2>3. CASE y \in Caller
    <3>1. proc[y].order \in Order
      BY <1>1 DEF Process
    <3>2. x \in Caller /\ proc[x].pc = "committing" /\ proc[x].order = proc[y].order =>
            proc[y].pc \notin {"calling", "committing"}
      BY <1>1, <1>7, <2>3 DEF LockOK
    <3>. QED
      BY <1>4, <1>6, <2>1, <2>3, <3>1, <3>2, OrderAssumption DEF ProcOK
  <2>. QED
    BY <2>2, <2>3 DEF Actor
<1>8. LockOK'
  BY <1>1, <1>2 DEF LockOK, Locked, Locking, Actor
<1>. QED
  BY <1>5, <1>7, <1>8 DEF IInv, Actor

\* The lines stay in order if the step serves and commits nothing and leaves in
\* force what was, unless the order becomes unsure or the request is marked.
LEMMA QuietStep ==
  ASSUME IInv, NEW x \in Actor, NEW s \in Process, Go(x, s),
         s.order = proc[x].order,
         flagged \subseteq flagged', unsure \subseteq unsure',
         UNCHANGED <<status, rows, own>>,
         s.pc \in {"calling", "committing"} => Locking(x) \/ ~Locked(s.order),
         late' \subseteq [reserve : BOOLEAN, order : Order,
                         line : [product : Product, q : Nat]],
         flagged' \subseteq Order, unsure' \subseteq Order, faults' \in 0..MaxFaults,
         LateOK', ProcOK(x)',
         s.order \notin flagged' \cup unsure' /\ ~Marked(x)' =>
           /\ ~Marked(x)
           /\ \A j \in 1..Len(Lines[s.order]) : InForce(x, j)' <=> InForce(x, j)
  PROVE  IInv'
<1> DEFINE o == s.order
<1>1. /\ proc \in [Actor -> Process] /\ (\A y \in Actor : ProcOK(y))
      /\ o \in Order /\ (x \in Order => o = x) /\ ~(x \in Order /\ x \in Caller)
  BY OrderAssumption DEF IInv, TypeOK, Actor, ProcOK, Process
<1>2. proc'[x] = s /\ \A y \in Actor \ {x} : proc'[y] = proc[y]
  BY <1>1 DEF Go
<1>3. TypeOK' /\ LineByLine' /\ NotOverbooked'
  BY <1>1 DEF IInv, TypeOK, LineByLine, NotOverbooked, Go, Actor
<1>4. ASSUME Clean(o)' PROVE LinesOK(o)'
  <2>1. o \notin flagged' \cup unsure' /\ ~Marked(x)'
    BY <1>2, <1>4 DEF Clean, Marked, Actor
  <2>2. Clean(o)
    BY <1>2, <1>4, <2>1 DEF Clean, Marked, Actor
  <2>3. LinesOK(o)
    BY <1>1, <2>2 DEF IInv
  <2>4. ASSUME NEW j \in 1..Len(Lines[o])
        PROVE  \A y \in Actor : InForce(y, j)' <=> InForce(y, j)
    <3>1. ASSUME NEW y \in Actor, y # x PROVE InForce(y, j)' <=> InForce(y, j)
      BY <1>2, <3>1 DEF InForce
    <3>. QED
      BY <2>1, <3>1
  <2>5. \A y \in Actor : proc'[y].order = proc[y].order
    BY <1>2
  <2>. HIDE DEF o
  <2>. QED
    BY <1>1, <2>3, <2>4, <2>5, Undisturbed DEF Actor
<1>. QED
  BY <1>3, <1>4, StepOf

-----------------------------------------------------------------------------
(* The steps                                                               *)

LEMMA ActorFacts ==
  ASSUME IInv, NEW x \in Actor
  PROVE  /\ proc[x] \in Process /\ proc[x].order \in Order /\ ProcOK(x)
         /\ Len(Lines[proc[x].order]) \in Nat \ {0}
         /\ (Creates(x) <=> x \in Order) /\ (x \in Caller <=> x \notin Order)
         /\ x \in Order => proc[x].order = x
         /\ \A s : Go(x, s) => proc'[x] = s
         /\ late \subseteq [reserve : BOOLEAN, order : Order,
                           line : [product : Product, q : Nat]]
         /\ flagged \subseteq Order /\ unsure \subseteq Order /\ LateOK
         /\ faults \in 0..MaxFaults /\ MaxFaults \in Nat
<1>1. /\ proc \in [Actor -> Process] /\ ProcOK(x)
      /\ late \subseteq [reserve : BOOLEAN, order : Order,
                        line : [product : Product, q : Nat]]
      /\ flagged \subseteq Order /\ unsure \subseteq Order /\ LateOK
      /\ faults \in 0..MaxFaults
  BY DEF IInv, TypeOK, Actor
<1>2. proc[x].order \in Order
  BY <1>1 DEF Process
<1>3. Len(Lines[proc[x].order]) \in Nat \ {0}
  BY <1>2, LineFacts
<1>. QED
  BY <1>1, <1>2, <1>3, OrderAssumption DEF Actor, ProcOK, Creates, Go

\* A call that fails while its request waits for it.
LEMMA CallFails ==
  ASSUME IInv, NEW x \in Actor, proc[x].pc \in {"calling", "undoing"},
         proc' = [proc EXCEPT ![x].call = "error"],
         (proc[x].call = "sent" /\ UNCHANGED unsure) \/ Unsure(x),
         UNCHANGED <<status, rows, own, flagged>>, faults' \in 0..MaxFaults,
         late' \subseteq late \cup {Message(x)},
         UNCHANGED late \/ Unsure(x)
  PROVE  IInv'
<1> DEFINE s == [proc[x] EXCEPT !.call = "error"]
<1>1. Go(x, s)
  BY DEF Go
<1>2. /\ s \in Process /\ s.order = proc[x].order /\ s.pc = proc[x].pc /\ s.i = proc[x].i
      /\ s.done = proc[x].done /\ s.failed = proc[x].failed /\ s.call = "error"
  BY ActorFacts DEF Process
<1>3. proc'[x] = s
  BY <1>1, ActorFacts
<1>. HIDE DEF s
<1>4. ProcOK(x)'
  BY <1>2, <1>3, ActorFacts DEF ProcOK, Unsure
<1>5. Asks(Message(x)) /\ Message(x).order = proc[x].order
  BY MessageFacts DEF Message
<1>6. late' \subseteq [reserve : BOOLEAN, order : Order,
                      line : [product : Product, q : Nat]] /\ LateOK'
  BY <1>5, ActorFacts DEF Asks, LateOK, Unsure
<1>7. unsure \subseteq unsure' /\ unsure' \subseteq Order
  BY ActorFacts DEF Unsure
<1>8. s.order \notin flagged' \cup unsure' /\ ~Marked(x)' =>
        /\ ~Marked(x)
        /\ \A j \in 1..Len(Lines[s.order]) : InForce(x, j)' <=> InForce(x, j)
  BY <1>2, <1>3 DEF Marked, InForce, Unsure
<1>. QED
  BY <1>1, <1>2, <1>4, <1>6, <1>7, <1>8, QuietStep, ActorFacts DEF Locking

LEMMA InjectFacts ==
  ASSUME NEW kind, Inject(kind), faults \in 0..MaxFaults
  PROVE  faults' \in 0..MaxFaults
  BY OrderAssumption DEF Inject

LEMMA RequestLostStep ==
  ASSUME IInv, NEW x \in Actor, RequestLost(x)
  PROVE  IInv'
  BY CallFails, InjectFacts, ActorFacts DEF RequestLost

LEMMA ReplyLostStep ==
  ASSUME IInv, NEW x \in Actor, ReplyLost(x)
  PROVE  IInv'
  BY CallFails, InjectFacts, ActorFacts DEF ReplyLost

LEMMA TimeoutStep ==
  ASSUME IInv, NEW x \in Actor, Timeout(x)
  PROVE  IInv'
  BY CallFails, InjectFacts, ActorFacts DEF Timeout

\* What a request is once it ended.
LEMMA RestingFacts ==
  ASSUME NEW o \in Order
  PROVE  LET s == Resting("ended", o) IN s \in Process /\ s.order = o /\ s.pc = "ended"
  BY DEF Resting, At, Process

LEMMA CrashStep ==
  ASSUME IInv, NEW x \in Actor, Crash(x)
  PROVE  IInv'
<1> DEFINE s == Resting("ended", proc[x].order)
<1>1. /\ Go(x, s) /\ unsure' = unsure \cup {proc[x].order} /\ UNCHANGED <<status, rows, own, late, flagged>>
  BY DEF Crash, Unsure
<1>2. s \in Process /\ s.order = proc[x].order /\ s.pc = "ended"
  BY ActorFacts, RestingFacts
<1>3. proc'[x] = s
  BY <1>1, ActorFacts
<1>. HIDE DEF s
<1>4. ProcOK(x)'
  BY <1>1, <1>2, <1>3, ActorFacts DEF ProcOK
<1>5. LateOK' /\ faults' \in 0..MaxFaults
  BY <1>1, ActorFacts, InjectFacts DEF LateOK, Crash
<1>. QED
  BY <1>1, <1>2, <1>4, <1>5, QuietStep, ActorFacts

LEMMA CreateOrderStep ==
  ASSUME IInv, NEW o \in Order, CreateOrder(o)
  PROVE  IInv'
<1> DEFINE s == At("calling", o, 1, 0, FALSE)
<1>1. /\ proc[o].pc = "idle" /\ Go(o, s)
      /\ UNCHANGED <<status, rows, own, late, flagged, unsure, faults>>
  BY DEF CreateOrder
<1>2. /\ s \in Process /\ s.order = o /\ s.pc = "calling" /\ s.i = 1 /\ s.done = 0 /\ s.failed = FALSE
      /\ s.call = "sent"
  BY DEF At, Process, Running
<1>3. o \in Actor /\ proc[o].order = o /\ proc'[o] = s /\ o \notin Caller
  BY <1>1, ActorFacts DEF Actor
<1>. HIDE DEF s
<1>4. ProcOK(o)'
  BY <1>1, <1>2, <1>3, ActorFacts DEF ProcOK
<1>5. ~Locked(o)
  <2>1. status[o] = "absent"
    BY <1>1, <1>3, ActorFacts DEF ProcOK
  <2>2. \A x \in Caller : ProcOK(x)
    BY DEF IInv
  <2>. QED
    BY <2>1, <2>2, <1>1 DEF Locked, ProcOK
<1>6. LateOK'
  BY <1>1, <1>3, ActorFacts DEF LateOK
<1>7. ~Marked(o) /\ \A j \in 1..Len(Lines[o]) : InForce(o, j)' <=> InForce(o, j)
  BY <1>1, <1>2, <1>3 DEF Marked, InForce
<1>. QED
  BY <1>1, <1>2, <1>3, <1>4, <1>5, <1>6, <1>7, QuietStep, ActorFacts

\* After a rollback the request puts back what it did, line by line.
LEMMA CompensateStep ==
  ASSUME IInv, NEW x \in Actor, Compensate(x),
         proc[x].pc = "committing" \/ (proc[x].pc = "calling" /\ proc[x].call = "error"),
         UNCHANGED <<rows, own, late, flagged>>, faults' \in 0..MaxFaults,
         \/ UNCHANGED <<status, unsure>>
         \/ proc[x].pc = "committing" /\ Committed(x) /\ Unsure(x)
  PROVE  IInv'
<1> DEFINE n == Returned(x)
           o == proc[x].order
           s == IF n = 0 THEN Resting("ended", o)
                ELSE At("undoing", o, FirstUndone(x, n), n, FALSE)
<1>1. Go(x, s)
  BY DEF Compensate
<1>2. /\ n \in 0..Len(Lines[o]) /\ (proc[x].pc = "committing" => n = Len(Lines[o]))
      /\ (proc[x].pc = "calling" => n = proc[x].i - 1) /\ Len(Lines[o]) \in Nat \ {0}
  BY ActorFacts DEF Returned, ProcOK
<1>3. /\ s \in Process /\ s.order = o /\ (n = 0 => s.pc = "ended")
      /\ n # 0 => /\ s.pc = "undoing" /\ s.i = (IF x \in Order THEN n ELSE 1) /\ s.done = n
                 /\ s.call = "sent" /\ s.failed = FALSE
  <2>1. CASE n = 0
    BY <2>1, ActorFacts, RestingFacts
  <2>2. CASE n # 0
    <3>1. s = At("undoing", o, FirstUndone(x, n), n, FALSE)
      BY <2>2
    <3>2. FirstUndone(x, n) = IF x \in Order THEN n ELSE 1
      BY ActorFacts DEF FirstUndone
    <3>. HIDE DEF n, s
    <3>. QED
      BY <1>2, <2>2, <3>1, <3>2, ActorFacts DEF At, Process, Running
  <2>. QED
    BY <2>1, <2>2
<1>4. proc'[x] = s
  BY <1>1, ActorFacts
<1>. HIDE DEF s, n
<1>5. unsure \subseteq unsure' /\ unsure' \subseteq Order /\ LateOK'
  BY ActorFacts DEF Unsure, LateOK
<1>6. ProcOK(x)'
  <2>1. x \in Order => /\ proc[x].order = x /\ status[x] = "absent"
                       /\ UNCHANGED status \/ x \in unsure'
    BY ActorFacts DEF ProcOK, Unsure
  <2>2. x \in Caller => x \notin Order /\ status'[o] # "absent"
    <3>1. status \in [Order -> {"absent", "RESERVED", "CONFIRMED", "CANCELLED"}]
      BY DEF IInv, TypeOK
    <3>. QED
      BY <3>1, ActorFacts DEF ProcOK, Committed
  <2>. QED
    BY <1>2, <1>3, <1>4, <2>1, <2>2, ActorFacts DEF ProcOK
<1>7. CASE UNCHANGED <<status, unsure>>
  <2>1. ~Marked(x)
    BY DEF Marked
  <2>2. ASSUME NEW j \in 1..Len(Lines[o]) PROVE InForce(x, j) <=> j <= n
    BY <1>2, ActorFacts DEF InForce, Process
  <2>3. ASSUME NEW j \in 1..Len(Lines[o]) PROVE InForce(x, j)' <=> j <= n
    <3>1. CASE n = 0
      BY <1>3, <1>4, <3>1 DEF InForce
    <3>2. CASE n # 0
      BY <1>2, <1>3, <1>4, <3>2 DEF InForce
    <3>. QED
      BY <3>1, <3>2
  <2>4. \A j \in 1..Len(Lines[s.order]) : InForce(x, j)' <=> InForce(x, j)
    BY <1>3, <2>2, <2>3
  <2>. QED
    BY <1>1, <1>3, <1>5, <1>6, <1>7, <2>1, <2>4, QuietStep, ActorFacts
<1>8. CASE proc[x].pc = "committing" /\ Committed(x) /\ Unsure(x)
  <2>1. TypeOK' /\ LineByLine' /\ NotOverbooked'
    BY <1>1, <1>3, <1>5, <1>8, ActorFacts
    DEF IInv, TypeOK, LineByLine, NotOverbooked, Go, Actor, Committed
  <2>2. \A oo \in Order : oo = o => ~Clean(oo)'
    BY <1>8 DEF Clean, Unsure
  <2>. QED
    BY <1>1, <1>3, <1>5, <1>6, <1>8, <2>1, <2>2, StepOf, ActorFacts
<1>. QED
  BY <1>7, <1>8

LEMMA CallRaisesStep ==
  ASSUME IInv, NEW x \in Actor, CallRaises(x)
  PROVE  IInv'
  BY CompensateStep, ActorFacts DEF CallRaises

LEMMA CommitRaisesStep ==
  ASSUME IInv, NEW x \in Actor, CommitRaises(x)
  PROVE  IInv'
  BY CompensateStep, ActorFacts, InjectFacts DEF CommitRaises

LEMMA CallReturnsStep ==
  ASSUME IInv, NEW x \in Actor, CallReturns(x)
  PROVE  IInv'
<1> DEFINE o == proc[x].order
           i == proc[x].i
           n == Len(Lines[o])
           s == IF i < n THEN At("calling", o, i + 1, i, FALSE) ELSE At("committing", o, i, i, FALSE)
<1>1. /\ Go(x, s) /\ proc[x].pc = "calling" /\ proc[x].call = "ok"
      /\ UNCHANGED <<status, rows, own, late, flagged, unsure, faults>>
  BY DEF CallReturns
<1>2. i \in 1..n /\ n \in Nat \ {0} /\ o \in Order
  BY <1>1, ActorFacts DEF ProcOK
<1>3. /\ s \in Process /\ s.order = o /\ s.done = i /\ s.call = "sent" /\ s.failed = FALSE
      /\ IF i < n THEN s.pc = "calling" /\ s.i = i + 1 ELSE s.pc = "committing" /\ s.done = n
  <2>. HIDE DEF n, o, i
  <2>. QED
    BY <1>2 DEF At, Process, Running
<1>4. proc'[x] = s
  BY <1>1, ActorFacts
<1>. HIDE DEF s, n
<1>5. ProcOK(x)'
  BY <1>1, <1>2, <1>3, <1>4, ActorFacts DEF ProcOK, n
<1>6. ~Marked(x) /\ \A j \in 1..Len(Lines[s.order]) : InForce(x, j)' <=> InForce(x, j)
  BY <1>1, <1>2, <1>3, <1>4, SMTT(30) DEF Marked, InForce, n
<1>7. Locking(x) /\ LateOK'
  BY <1>1, ActorFacts DEF Locking, LateOK
<1>. QED
  BY <1>1, <1>3, <1>5, <1>6, <1>7, QuietStep, ActorFacts

LEMMA UndoneStep ==
  ASSUME IInv, NEW x \in Actor, Undone(x)
  PROVE  IInv'
<1> DEFINE o == proc[x].order
           failed == proc[x].failed \/ proc[x].call = "error"
           last == proc[x].i = LastUndone(x)
           s == IF last THEN Resting("ended", o)
                ELSE At("undoing", o, NextUndone(x), proc[x].done, failed)
<1>1. /\ Go(x, s) /\ proc[x].pc = "undoing" /\ proc[x].call \in {"ok", "error"}
      /\ flagged' = IF last /\ failed THEN flagged \cup {o} ELSE flagged
      /\ UNCHANGED <<status, rows, own, late, unsure, faults>>
  BY DEF Undone
<1>2. /\ proc[x].done \in 1..Len(Lines[o]) /\ proc[x].i \in 1..proc[x].done
      /\ Len(Lines[o]) \in Nat /\ o \in Order
  BY <1>1, ActorFacts DEF ProcOK
<1>3. /\ last <=> proc[x].i = IF x \in Order THEN 1 ELSE proc[x].done
      /\ NextUndone(x) = IF x \in Order THEN proc[x].i - 1 ELSE proc[x].i + 1
      /\ failed \in BOOLEAN
  BY ActorFacts DEF LastUndone, NextUndone, Process
<1>4. /\ s \in Process /\ s.order = o
      /\ last => s.pc = "ended"
      /\ ~last => /\ s.pc = "undoing" /\ s.i \in 1..proc[x].done /\ s.done = proc[x].done
                  /\ s.i = (IF x \in Order THEN proc[x].i - 1 ELSE proc[x].i + 1)
                  /\ s.call = "sent" /\ s.failed = failed
  <2>1. CASE last
    BY <2>1, <1>2, RestingFacts
  <2>2. CASE ~last
    <3>1. s = At("undoing", o, NextUndone(x), proc[x].done, failed)
      BY <2>2
    <3>2. NextUndone(x) \in 1..proc[x].done
      BY <1>2, <1>3, <2>2
    <3>. HIDE DEF last, failed, s, o
    <3>. QED
      BY <1>2, <1>3, <2>2, <3>1, <3>2 DEF At, Process, Running
  <2>. QED
    BY <2>1, <2>2
<1>5. proc'[x] = s
  BY <1>1, ActorFacts
<1>. HIDE DEF s
<1>6. ProcOK(x)'
  BY <1>1, <1>2, <1>4, <1>5, ActorFacts DEF ProcOK
<1>7. s.order \notin flagged' \cup unsure' /\ ~Marked(x)' => ~failed
  BY <1>1, <1>4, <1>5 DEF Marked
<1>8. ~failed => /\ ~Marked(x)
                 /\ \A j \in 1..Len(Lines[o]) : InForce(x, j)' <=> InForce(x, j)
  <2>. SUFFICES ASSUME ~failed
                PROVE  /\ ~Marked(x)
                       /\ \A j \in 1..Len(Lines[o]) : InForce(x, j)' <=> InForce(x, j)
    OBVIOUS
  <2>1. proc[x].call = "ok"
    BY <1>1
  <2>2. CASE last
    BY <1>1, <1>2, <1>3, <1>4, <1>5, <2>1, <2>2 DEF Marked, InForce
  <2>3. CASE ~last
    BY <1>1, <1>2, <1>3, <1>4, <1>5, <2>1, <2>3 DEF Marked, InForce
  <2>. QED
    BY <2>2, <2>3
<1>9. flagged' \subseteq Order /\ flagged \subseteq flagged' /\ LateOK'
  BY <1>1, <1>2, ActorFacts DEF LateOK
<1>. QED
  BY <1>1, <1>4, <1>6, <1>7, <1>8, <1>9, QuietStep, ActorFacts

LEMMA CommitStep ==
  ASSUME IInv, NEW x \in Actor, Commit(x)
  PROVE  IInv'
<1> DEFINE s == Resting("ended", proc[x].order)
<1>1. /\ Go(x, s) /\ proc[x].pc = "committing" /\ Committed(x)
      /\ UNCHANGED <<rows, own, late, flagged, unsure, faults>>
  BY DEF Commit
<1>2. PICK o \in Order : o = proc[x].order
  BY ActorFacts
<1>3. s \in Process /\ s.order = o /\ s.pc = "ended"
  BY <1>2, RestingFacts
<1>4. proc'[x] = s
  BY <1>1, ActorFacts
<1>. HIDE DEF s
<1>5. /\ proc \in [Actor -> Process] /\ (\A y \in Actor : ProcOK(y))
      /\ status \in [Order -> {"absent", "RESERVED", "CONFIRMED", "CANCELLED"}]
  BY DEF IInv, TypeOK, Actor
<1>6. \A y \in Actor \ {x} : proc'[y] = proc[y]
  BY <1>1, <1>5 DEF Go
<1>7. /\ x \in Order => x = o /\ status[o] = "absent" /\ status'[o] = "RESERVED"
      /\ x \in Caller => status[o] = "RESERVED" /\ status'[o] = "CANCELLED"
      /\ x \in Order <=> x \notin Caller
  BY <1>1, <1>2, <1>5, ActorFacts DEF Committed, ProcOK
<1>8. ProcOK(x)'
  BY <1>3, <1>4, <1>7, ActorFacts DEF ProcOK
<1>9. LateOK'
  BY <1>1, ActorFacts DEF LateOK
<1>10. TypeOK' /\ LineByLine' /\ NotOverbooked'
  <2>1. proc' \in [Actor -> Process]
    BY <1>1, <1>3, <1>5 DEF Go
  <2>2. status' \in [Order -> {"absent", "RESERVED", "CONFIRMED", "CANCELLED"}]
    BY <1>1, <1>5 DEF Committed
  <2>. QED
    BY <1>1, <2>1, <2>2 DEF IInv, TypeOK, LineByLine, NotOverbooked, Actor
<1>11. ASSUME Clean(o)' PROVE LinesOK(o)'
  <2>1. LinesOK(o)
    <3>1. Clean(o)
      BY <1>1, <1>6, <1>11 DEF Clean, Actor
    <3>. QED
      BY <3>1 DEF IInv
  <2>2. ASSUME NEW j \in 1..Len(Lines[o]) PROVE LineOK(o, j)'
    <3>1. InForce(x, j) /\ ~InForce(x, j)'
      BY <1>1, <1>3, <1>4 DEF InForce
    <3>2. ASSUME NEW y \in Actor, y # x
          PROVE  /\ InForce(y, j)' <=> InForce(y, j)
                 /\ proc'[y].order = proc[y].order
      BY <1>6, <3>2 DEF InForce
    <3>3. \A y \in Caller : proc'[y].order = o /\ InForce(y, j)' =>
                            y # x /\ proc[y].order = o /\ InForce(y, j)
      BY <3>1, <3>2 DEF Actor
    <3>4. ~Released(o, j)'
      <4>1. CASE x \in Order
        <5>1. \A y \in Caller : proc[y].order = o => ~InForce(y, j)
          BY <1>5, <1>7, <4>1 DEF ProcOK, InForce, Actor
        <5>. QED
          BY <3>3, <5>1 DEF Released
      <4>2. CASE x \in Caller
        BY <1>2, <2>1, <3>1, <3>3, <4>2 DEF Released, LinesOK, LineOK
      <4>. QED
        BY <4>1, <4>2 DEF Actor
    <3>5. Held(o, j) <=> x \in Order
      <4>1. CASE x \in Order
        BY <1>7, <3>1, <4>1 DEF Held
      <4>2. CASE x \in Caller
        <5>1. Released(o, j)
          BY <1>2, <3>1, <4>2 DEF Released
        <5>. QED
          BY <1>7, <4>2, <5>1 DEF Held
      <4>. QED
        BY <4>1, <4>2 DEF Actor
    <3>6. Held(o, j)' <=> x \in Order
      BY <1>7, <3>4 DEF Held, Actor
    <3>7. (own[o][Lines[o][j].product] = IF Held(o, j) THEN Lines[o][j].q ELSE 0)'
      BY <1>1, <2>1, <3>5, <3>6 DEF LinesOK, LineOK
    <3>. QED
      BY <2>1, <3>3, <3>4, <3>7 DEF LinesOK, LineOK
  <2>. QED
    BY <2>2 DEF LinesOK, LineOK
<1>. QED
  BY <1>1, <1>2, <1>3, <1>8, <1>9, <1>10, <1>11, StepOf

LEMMA CancelOrderStep ==
  ASSUME IInv, NEW x \in Caller, NEW o \in Order, CancelOrder(x, o)
  PROVE  IInv'
<1> DEFINE s == At("calling", o, 1, 0, FALSE)
<1>1. /\ proc[x].pc = "idle" /\ Go(x, s) /\ status[o] = "RESERVED" /\ ~Locked(o)
      /\ UNCHANGED <<status, rows, own, late, flagged, unsure, faults>>
  BY DEF CancelOrder, MayCancel
<1>2. /\ s \in Process /\ s.order = o /\ s.pc = "calling" /\ s.i = 1 /\ s.done = 0 /\ s.failed = FALSE
      /\ s.call = "sent"
  BY DEF At, Process, Running
<1>3. x \in Actor /\ x \notin Order /\ proc'[x] = s
  BY <1>1, ActorFacts DEF Actor
<1>. HIDE DEF s
<1>4. /\ proc \in [Actor -> Process] /\ (\A y \in Actor : ProcOK(y))
      /\ \A y \in Actor \ {x} : proc'[y] = proc[y]
  BY <1>1 DEF IInv, TypeOK, Actor, Go
<1>5. ProcOK(x)'
  <2>1. Len(Lines[o]) \in Nat \ {0}
    BY LineFacts
  <2>. QED
    BY <1>1, <1>2, <1>3, <2>1 DEF ProcOK
<1>6. LateOK' /\ TypeOK' /\ LineByLine' /\ NotOverbooked'
  <2>1. proc' \in [Actor -> Process]
    BY <1>1, <1>2, <1>4 DEF Go
  <2>2. TypeOK'
    BY <1>1, <2>1 DEF IInv, TypeOK, Actor
  <2>3. LineByLine' /\ NotOverbooked'
    BY <1>1 DEF IInv, LineByLine, NotOverbooked
  <2>4. LateOK'
    BY <1>1 DEF IInv, LateOK
  <2>. QED
    BY <2>2, <2>3, <2>4
<1>7. ASSUME Clean(o)' PROVE LinesOK(o)'
  <2>1. Clean(o)
    BY <1>1, <1>4, <1>7 DEF Clean, Actor
  <2>2. LinesOK(o)
    BY <2>1 DEF IInv
  <2>3. ASSUME NEW j \in 1..Len(Lines[o])
        PROVE  /\ ~InForce(x, j) /\ ~InForce(x, j)'
               /\ \A y \in Actor : InForce(y, j)' <=> InForce(y, j)
               /\ \A y \in Actor \ {x} : proc'[y].order = proc[y].order
    <3>1. ~InForce(x, j) /\ ~InForce(x, j)'
      BY <1>1, <1>2, <1>3 DEF InForce
    <3>2. \A y \in Actor \ {x} : InForce(y, j)' <=> InForce(y, j)
      BY <1>4 DEF InForce
    <3>. QED
      BY <1>4, <3>1, <3>2
  <2>4. \A j \in 1..Len(Lines[o]) :
          /\ InForce(o, j)' <=> InForce(o, j)
          /\ \A y \in Caller : (proc[y].order = o /\ InForce(y, j))' <=>
                               (proc[y].order = o /\ InForce(y, j))
    BY <2>3 DEF Actor
  <2>. QED
    BY <1>1, <2>2, <2>4, Undisturbed
<1>. QED
  BY <1>1, <1>2, <1>3, <1>5, <1>6, <1>7, StepOf

LEMMA ConfirmOrderStep ==
  ASSUME IInv, NEW o \in Order, ConfirmOrder(o)
  PROVE  IInv'
<1>1. /\ status[o] = "RESERVED" /\ ~Locked(o) /\ status' = [status EXCEPT ![o] = "CONFIRMED"]
      /\ UNCHANGED <<proc, rows, own, late, flagged, unsure, faults>>
  BY DEF ConfirmOrder
<1>2. /\ status \in [Order -> {"absent", "RESERVED", "CONFIRMED", "CANCELLED"}]
      /\ proc \in [Actor -> Process]
  BY DEF IInv, TypeOK, Actor
<1>3. status'[o] = "CONFIRMED" /\ \A q \in Order \ {o} : status'[q] = status[q]
  BY <1>1, <1>2
<1>4. TypeOK'
  BY <1>1, <1>2 DEF IInv, TypeOK
<1>5. LineByLine' /\ NotOverbooked' /\ LateOK' /\ LockOK'
  BY <1>1 DEF IInv, LineByLine, NotOverbooked, LateOK, LockOK
<1>6. ASSUME NEW y \in Actor PROVE ProcOK(y)'
  <2>1. ProcOK(y) /\ proc[y].order \in Order
    BY <1>6, ActorFacts
  <2>2. y \in Caller /\ proc[y].pc \in {"calling", "committing"} => proc[y].order # o
    BY <1>1 DEF Locked
  <2>3. y \in Order => proc[y].order = y
    BY <2>1 DEF ProcOK
  <2>. QED
    BY <1>1, <1>3, <2>1, <2>2, <2>3 DEF ProcOK
<1>7. ASSUME NEW q \in Order, Clean(q)' PROVE LinesOK(q)'
  <2>1. LinesOK(q)
    BY <1>1, <1>7 DEF IInv, Clean
  <2>2. ASSUME NEW j \in 1..Len(Lines[q])
        PROVE  /\ InForce(q, j)' <=> InForce(q, j)
               /\ \A y \in Caller : InForce(y, j)' <=> InForce(y, j)
    BY <1>1 DEF InForce
  <2>3. CASE q # o
    BY <1>1, <1>3, <2>1, <2>2, <2>3, Undisturbed
  <2>4. CASE q = o
    BY <1>1, <1>3, <2>1, <2>2, <2>4 DEF LinesOK, LineOK, Held, Released
  <2>. QED
    BY <2>3, <2>4
<1>. QED
  BY <1>4, <1>5, <1>6, <1>7 DEF IInv, Actor

\* Only a late request of an order whose outcomes are unsure is served unasked.
LEMMA ServeLateStep ==
  ASSUME IInv, NEW m \in late, ServeLate(m)
  PROVE  IInv'
<1>1. Serves(m) /\ late' = late \ {m} /\ UNCHANGED <<status, proc, flagged, unsure, faults>>
  BY DEF ServeLate
<1>2. Asks(m) /\ m.order \in unsure
  BY DEF IInv, TypeOK, LateOK, Asks
<1>3. /\ rows' \in [Product -> [onHand : Nat, reserved : Nat]]
      /\ own' \in [Order -> [Product -> Nat]]
      /\ LineByLine' /\ NotOverbooked'
      /\ \A o \in Order, p \in Product : o # m.order => own'[o][p] = own[o][p]
  BY <1>1, <1>2, ServesFacts
<1>4. TypeOK'
  BY <1>1, <1>3 DEF IInv, TypeOK
<1>5. LateOK' /\ LockOK' /\ \A y \in Actor : ProcOK(y)'
  BY <1>1 DEF IInv, LateOK, LockOK, ProcOK, Actor
<1>6. ASSUME NEW q \in Order, Clean(q)' PROVE LinesOK(q)'
  <2>1. q # m.order /\ LinesOK(q)
    BY <1>1, <1>2, <1>6 DEF IInv, Clean
  <2>2. ASSUME NEW j \in 1..Len(Lines[q])
        PROVE  /\ own'[q][Lines[q][j].product] = own[q][Lines[q][j].product]
               /\ InForce(q, j)' <=> InForce(q, j)
               /\ \A y \in Caller : InForce(y, j)' <=> InForce(y, j)
    BY <1>1, <1>3, <2>1, LineFacts DEF InForce
  <2>. QED
    BY <1>1, <2>1, <2>2, Undisturbed
<1>. QED
  BY <1>3, <1>4, <1>5, <1>6 DEF IInv, Actor

LEMMA ServeStep ==
  ASSUME IInv, NEW x \in Actor, Serve(x)
  PROVE  IInv'
<1> DEFINE m == Message(x)
           s == [proc[x] EXCEPT !.call = IF Grants(m) THEN "ok" ELSE "error"]
<1>1. /\ Go(x, s) /\ Serves(m) /\ proc[x].pc \in {"calling", "undoing"} /\ proc[x].call = "sent"
      /\ UNCHANGED <<status, late, flagged, unsure, faults>>
  BY DEF Serve, Go
<1>2. PICK o \in Order, i \in 1..Len(Lines[proc[x].order]) :
         o = proc[x].order /\ i = proc[x].i /\ Asks(m)
  BY <1>1, MessageFacts
<1>3. /\ s \in Process /\ s.order = o /\ s.pc = proc[x].pc /\ s.i = i
      /\ s.done = proc[x].done /\ s.failed = proc[x].failed
      /\ s.call = IF Grants(m) THEN "ok" ELSE "error"
  <2>1. (IF Grants(m) THEN "ok" ELSE "error") \in {"sent", "ok", "error"}
    OBVIOUS
  <2>2. proc[x] \in Process
    BY ActorFacts
  <2>. HIDE DEF m
  <2>. QED
    BY <1>2, <2>1, <2>2 DEF Process
<1>4. proc'[x] = s
  BY <1>1, ActorFacts
<1>5. /\ m.order = o /\ m.line = Lines[o][i]
      /\ m.reserve <=> (x \in Order <=> proc[x].pc = "calling")
  BY <1>2, ActorFacts DEF Message, Line, Reserves
<1>6. /\ rows' \in [Product -> [onHand : Nat, reserved : Nat]]
      /\ own' \in [Order -> [Product -> Nat]]
      /\ LineByLine' /\ NotOverbooked'
      /\ \A oo \in Order, p \in Product :
           oo # m.order \/ p # m.line.product => own'[oo][p] = own[oo][p]
      /\ Grants(m) => IF m.reserve
                      THEN own[o][m.line.product] = 0 /\ own'[o][m.line.product] = m.line.q
                      ELSE own[o][m.line.product] = m.line.q /\ own'[o][m.line.product] = 0
      /\ ~Grants(m) => own'[o][m.line.product] = own[o][m.line.product]
  BY <1>1, <1>2, <1>5, ServesFacts
<1>7. \A y \in Actor \ {x} : proc'[y] = proc[y]
  BY <1>1 DEF IInv, TypeOK, Go, Actor
<1>8. Grants(m) \/ ~Grants(m)
  OBVIOUS
<1>. HIDE DEF s, m
<1>9. ProcOK(x)'
  BY <1>1, <1>2, <1>3, <1>4, ActorFacts DEF ProcOK
<1>10. TypeOK' /\ LateOK'
  <2>1. proc' \in [Actor -> Process]
    BY <1>1, <1>3 DEF IInv, TypeOK, Go, Actor
  <2>2. TypeOK'
    BY <1>1, <1>6, <2>1 DEF IInv, TypeOK, Actor
  <2>3. LateOK'
    BY <1>1 DEF IInv, LateOK
  <2>. QED
    BY <2>2, <2>3
<1>11. ASSUME Clean(o)' PROVE LinesOK(o)'
  <2>1. LinesOK(o)
    <3>1. Clean(o)
      BY <1>1, <1>3, <1>4, <1>7, <1>11 DEF Clean, Actor
    <3>. QED
      BY <3>1 DEF IInv
  <2>2. proc[x].pc = "undoing" => Grants(m)
    BY <1>2, <1>3, <1>4, <1>11 DEF Clean, Actor
  <2>3. ASSUME NEW y \in Actor, y # x, NEW j \in 1..Len(Lines[o])
        PROVE  proc'[y].order = proc[y].order /\ (InForce(y, j)' <=> InForce(y, j))
    BY <1>7, <2>3 DEF InForce
  <2>4. proc'[x].order = proc[x].order /\ (x \in Order => x = o)
    BY <1>2, <1>3, <1>4, ActorFacts
  <2>5. ASSUME NEW j \in 1..Len(Lines[o]), j # i \/ ~Grants(m)
        PROVE  LineOK(o, j)'
    <3>1. LineOK(o, j)
      BY <2>1 DEF LinesOK
    <3>2. own'[o][Lines[o][j].product] = own[o][Lines[o][j].product]
      <4>1. j # i => Lines[o][j].product # m.line.product
        BY <1>2, <1>5, LineFacts
      <4>2. Lines[o][j].product \in Product
        BY LineFacts
      <4>. QED
        BY <1>6, <2>5, <4>1, <4>2
    <3>3. InForce(x, j)' <=> InForce(x, j)
      BY <1>1, <1>2, <1>3, <1>4, <2>2, <2>5 DEF InForce
    <3>4. \A y \in Actor : InForce(y, j)' <=> InForce(y, j)
      BY <2>3, <3>3
    <3>5. \A y \in Actor : proc'[y].order = proc[y].order
      BY <2>3, <2>4
    <3>. QED
      BY <1>1, <3>1, <3>2, <3>4, <3>5, LineUndisturbed DEF Actor
  <2>6. ASSUME Grants(m) PROVE LineOK(o, i)'
    <3>1. LineOK(o, i) /\ i \in 1..Len(Lines[o])
      BY <1>2, <2>1 DEF LinesOK
    <3>2. /\ InForce(x, i) <=> proc[x].pc = "undoing"
          /\ InForce(x, i)' <=> proc[x].pc = "calling"
      BY <1>1, <1>2, <1>3, <1>4, <2>6 DEF InForce
    <3>3. /\ m.line = Lines[o][i] /\ m.line.q # 0
          /\ IF m.reserve THEN own[o][m.line.product] = 0 /\ own'[o][m.line.product] = m.line.q
                          ELSE own[o][m.line.product] = m.line.q /\ own'[o][m.line.product] = 0
          /\ m.reserve <=> (x \in Order <=> proc[x].pc = "calling")
      <4>1. Lines[o][i].q \in Nat \ {0}
        BY <3>1, LineFacts
      <4>2. m.line = Lines[o][i] /\ m.line.q # 0
        BY <1>5, <4>1
      <4>. QED
        BY <1>5, <1>6, <2>6, <4>2
    <3>4. \A y \in Caller \ {x} : (proc[y].order = o /\ InForce(y, i))' <=>
                                  (proc[y].order = o /\ InForce(y, i))
      BY <2>3, <3>1 DEF Actor
    <3>5. CASE x \in Order
      <4>1. x = o /\ x \notin Caller /\ status[o] = "absent"
        BY <1>1, <1>11, <2>4, <3>5, ActorFacts DEF ProcOK, Clean
      <4>2. (own[o][Lines[o][i].product] = IF Held(o, i) THEN Lines[o][i].q ELSE 0)'
        BY <1>1, <3>2, <3>3, <3>5, <4>1 DEF Held
      <4>. QED
        BY <1>1, <3>1, <3>4, <4>1, <4>2 DEF LineOK
    <3>6. CASE x \in Caller
      <4>1. proc[x].order = o /\ status[o] # "absent" /\ x \notin Order
            /\ (proc[x].pc = "calling" => status[o] = "RESERVED")
        BY <1>1, <1>2, <3>6, ActorFacts DEF ProcOK
      <4>2. CASE proc[x].pc = "calling"
        <5>1. ~Released(o, i)
          BY <3>1, <3>3, <3>6, <4>1, <4>2 DEF LineOK, Held
        <5>2. \A y \in Caller : proc'[y].order = o /\ InForce(y, i)' <=> y = x
          BY <1>2, <2>4, <3>2, <3>4, <3>6, <4>2, <5>1 DEF Released
        <5>. QED
          BY <1>1, <3>3, <3>6, <4>1, <4>2, <5>2 DEF LineOK, Held, Released
      <4>3. CASE proc[x].pc = "undoing"
        <5>1. Released(o, i) /\ status[o] # "CANCELLED"
          BY <3>1, <3>2, <3>6, <4>1, <4>3 DEF LineOK, Released
        <5>2. \A y \in Caller : ~(proc'[y].order = o /\ InForce(y, i)')
          BY <3>1, <3>2, <3>4, <3>6, <4>1, <4>3 DEF LineOK
        <5>. QED
          BY <1>1, <3>3, <3>6, <4>1, <4>3, <5>1, <5>2 DEF LineOK, Held, Released
      <4>. QED
        BY <1>1, <4>2, <4>3
    <3>. QED
      BY <3>5, <3>6 DEF Actor
  <2>. QED
    BY <1>2, <2>5, <2>6 DEF LinesOK
<1>12. PICK now \in Process : now = s
  BY <1>3
<1>13. /\ Go(x, now) /\ now.order = o /\ now.order = proc[x].order
       /\ flagged \subseteq flagged' /\ unsure \subseteq unsure' /\ UNCHANGED status
       /\ now.pc \in {"calling", "committing"} => Locking(x)
  BY <1>1, <1>2, <1>3, <1>12 DEF Locking
<1>14. \A oo \in Order \ {now.order}, p \in Product : own'[oo][p] = own[oo][p]
  BY <1>5, <1>6, <1>13
<1>15. Clean(now.order)' => LinesOK(now.order)'
  BY <1>11, <1>13
<1>. QED
  BY <1>6, <1>9, <1>10, <1>13, <1>14, <1>15, StepOf

-----------------------------------------------------------------------------
(* The theorems                                                            *)

LEMMA Initial == Init => IInv
<1>. SUFFICES ASSUME Init PROVE IInv
  OBVIOUS
<1> DEFINE first(x) == Resting("idle", IF x \in Order THEN x ELSE CHOOSE o \in Order : TRUE)
<1>1. \A x \in Actor :
        /\ first(x) \in Process /\ first(x).pc = "idle" /\ first(x).order \in Order
        /\ x \in Order => first(x).order = x
  <2>1. ASSUME NEW o \in Order
        PROVE  LET s == Resting("idle", o) IN s \in Process /\ s.pc = "idle" /\ s.order = o
    BY DEF Resting, At, Process
  <2>2. (CHOOSE o \in Order : TRUE) \in Order
    BY OrderAssumption
  <2>. QED
    BY <2>1, <2>2
<1>2. proc = [x \in Actor |-> first(x)]
  BY DEF Init, Actor
<1>. HIDE DEF first
<1>3. \A x \in Actor : /\ proc[x] \in Process /\ proc[x].pc = "idle" /\ proc[x].order \in Order
                       /\ x \in Order => proc[x].order = x
  BY <1>1, <1>2
<1>4. TypeOK
  BY <1>1, <1>2, OrderAssumption DEF Init, TypeOK, Actor
<1>5. LineByLine /\ NotOverbooked
  BY OrderAssumption DEF Init, LineByLine, NotOverbooked
<1>6. LockOK /\ LateOK
  BY <1>3 DEF Init, LockOK, LateOK, Actor
<1>7. \A x \in Actor : ProcOK(x)
  BY <1>3, OrderAssumption DEF Init, ProcOK, Actor
<1>8. \A o \in Order : LinesOK(o)
  <2>1. ASSUME NEW o \in Order, NEW j \in 1..Len(Lines[o]) PROVE LineOK(o, j)
    <3>1. \A x \in Actor : ~InForce(x, j)
      BY <1>3 DEF InForce
    <3>2. own[o][Lines[o][j].product] = 0 /\ status[o] = "absent"
      BY LineFacts DEF Init
    <3>. QED
      BY <3>1, <3>2 DEF LineOK, Held, Actor
  <2>. QED
    BY <2>1 DEF LinesOK
<1>. QED
  BY <1>4, <1>5, <1>6, <1>7, <1>8 DEF IInv, Actor

LEMMA Inductive == IInv /\ [Next]_vars => IInv'
<1>. SUFFICES ASSUME IInv, [Next]_vars PROVE IInv'
  OBVIOUS
<1>1. ASSUME NEW o \in Order, CreateOrder(o) \/ ConfirmOrder(o) PROVE IInv'
  BY <1>1, CreateOrderStep, ConfirmOrderStep
<1>2. ASSUME NEW x \in Caller, NEW o \in Order, CancelOrder(x, o) PROVE IInv'
  BY <1>2, CancelOrderStep
<1>3. ASSUME NEW x \in Actor, Progress(x) PROVE IInv'
  BY <1>3, ServeStep, CallReturnsStep, CallRaisesStep, CommitStep, UndoneStep DEF Progress
<1>4. ASSUME NEW x \in Actor, Fault(x) PROVE IInv'
  BY <1>4, RequestLostStep, ReplyLostStep, TimeoutStep, CrashStep, CommitRaisesStep DEF Fault
<1>5. ASSUME NEW m \in late, ServeLate(m) PROVE IInv'
  BY <1>5, ServeLateStep
<1>6. CASE UNCHANGED vars
  BY <1>6 DEF vars, IInv, TypeOK, LineByLine, NotOverbooked, ProcOK, LockOK, LateOK, Clean,
              LinesOK, LineOK, Held, Released, InForce
<1>. QED
  BY <1>1, <1>2, <1>3, <1>4, <1>5, <1>6 DEF Next, Actor

LEMMA Invariance == Spec => []IInv
  BY Initial, Inductive, PTL DEF Spec

\* Rows, references and requests keep their types for any orders and faults; in
\* particular no balance and no reservation of an order ever becomes negative.
THEOREM TypeCorrect == Spec => []TypeOK
<1>1. IInv => TypeOK
  BY DEF IInv
<1>. QED
  BY <1>1, Invariance, PTL

\* A balance counts the pieces that the orders hold.
Counted(p) ==
  IsFiniteSet(Reserving(p)) /\ rows[p].reserved = Cardinality(Reserving(p))

AllCounted == \A p \in Product : Counted(p)

\* Serving a request changes the balance by what it changes of the order's own.
LEMMA ServesCounted ==
  ASSUME IInv, NEW m, Asks(m), Serves(m), NEW p \in Product, Counted(p)
  PROVE  Counted(p)'
<1> DEFINE f == [o \in Order |-> own[o][p]]
           g == [o \in Order |-> own'[o][p]]
<1>1. /\ rows \in [Product -> [onHand : Nat, reserved : Nat]]
      /\ own \in [Order -> [Product -> Nat]]
      /\ own' \in [Order -> [Product -> Nat]]
      /\ f \in [Order -> Nat]
  BY ServesFacts DEF IInv, TypeOK
<1>2. m.order \in Order /\ m.line.product \in Product /\ m.line.q \in Nat
  BY DEF Asks
<1>3. CASE ~Grants(m)
  BY <1>3 DEF Serves, Counted, Reserving
<1>4. CASE Grants(m) /\ m.line.product # p
  <2>1. rows'[p] = rows[p]
    BY <1>1, <1>2, <1>4 DEF Serves
  <2>2. \A o \in Order : own'[o][p] = own[o][p]
    BY <1>1, <1>2, <1>4, SMTT(30) DEF Serves
  <2>3. g = f
    BY <2>2
  <2>. QED
    BY <2>1, <2>3 DEF Counted, Reserving
<1>5. CASE Grants(m) /\ m.line.product = p
  <2> DEFINE delta == IF m.reserve THEN m.line.q ELSE -m.line.q
  <2>1. PICK o \in Order, d \in Int : o = m.order /\ d = delta
    BY <1>2
  <2>2. /\ rows' = [rows EXCEPT ![p].reserved = @ + d]
        /\ own' = [own EXCEPT ![o][p] = @ + d]
    BY <1>5, <2>1 DEF Serves
  <2>3. rows'[p].reserved = rows[p].reserved + d
    BY <1>1, <2>2
  <2>4. own'[o][p] = own[o][p] + d /\ \A q \in Order \ {o} : own'[q][p] = own[q][p]
    BY <1>1, <2>2
  <2>5. OnlyOf(o, f, g)
    BY <1>1, <2>4 DEF OnlyOf
  <2>6. IsFiniteSet(Pieces(f)) /\ rows[p].reserved = Cardinality(Pieces(f))
    BY DEF Counted, Reserving
  <2>7. f[o] \in Nat /\ g[o] = f[o] + d
    BY <1>1, <2>4
  <2>. HIDE DEF f, g
  <2>8. /\ IsFiniteSet(Pieces(g))
        /\ Cardinality(Pieces(f)) \in Nat
        /\ Cardinality(Pieces(g)) = Cardinality(Pieces(f)) - f[o] + g[o]
    BY <2>5, <2>6, PiecesChange
  <2>9. Cardinality(Pieces(g)) = rows'[p].reserved
    BY <2>3, <2>6, <2>7, <2>8
  <2>. QED
    BY <2>8, <2>9 DEF Counted, Reserving, g
<1>. QED
  BY <1>3, <1>4, <1>5

\* Only a request that is served, in time or late, changes balances.
LEMMA StepCounted ==
  ASSUME IInv, AllCounted, [Next]_vars
  PROVE  AllCounted'
<1>1. ASSUME UNCHANGED <<rows, own>> PROVE AllCounted'
  BY <1>1 DEF AllCounted, Counted, Reserving
<1>2. ASSUME NEW m, Asks(m), Serves(m) PROVE AllCounted'
  BY <1>2, ServesCounted DEF AllCounted
<1>3. ASSUME NEW x \in Actor, Serve(x) PROVE AllCounted'
  BY <1>2, <1>3, MessageFacts DEF Serve
<1>4. ASSUME NEW m \in late, ServeLate(m) PROVE AllCounted'
  <2>1. Asks(m)
    BY DEF IInv, TypeOK, LateOK, Asks
  <2>. QED
    BY <1>2, <1>4, <2>1 DEF ServeLate
<1>5. ASSUME NEW x \in Actor, Progress(x), ~Serve(x) PROVE UNCHANGED <<rows, own>>
  BY <1>5 DEF Progress, CallReturns, CallRaises, Commit, Undone
<1>6. ASSUME NEW x \in Actor, Fault(x) PROVE UNCHANGED <<rows, own>>
  BY <1>6 DEF Fault, RequestLost, ReplyLost, Timeout, Crash, CommitRaises
<1>7. ASSUME \/ \E o \in Order : CreateOrder(o) \/ ConfirmOrder(o)
             \/ \E x \in Caller, o \in Order : CancelOrder(x, o)
             \/ UNCHANGED vars
      PROVE  UNCHANGED <<rows, own>>
  BY <1>7 DEF CreateOrder, ConfirmOrder, CancelOrder, vars
<1>. QED
  BY <1>1, <1>3, <1>4, <1>5, <1>6, <1>7 DEF Next, Actor

\* Whatever is lost, late or repeated, an order holds each of its products in
\* the quantity of one line or not at all, no product is reserved beyond the
\* quantity on hand, and a balance shows as reserved exactly what the orders
\* hold: services/stock.py refuses the rest.
THEOREM NothingReservedTwice == Spec => []StockAccounted
<1>1. Init => AllCounted
  <2> SUFFICES ASSUME Init, NEW p \in Product PROVE Counted(p)
    BY DEF AllCounted
  <2> DEFINE f == [o \in Order |-> own[o][p]]
  <2>1. rows[p].reserved = 0 /\ \A o \in DOMAIN f : f[o] = 0
    BY DEF Init
  <2>2. IsFiniteSet(Pieces(f)) /\ Cardinality(Pieces(f)) = 0
    <3>. HIDE DEF f
    <3>. QED
      BY <2>1, NoPieces
  <2>. QED
    BY <2>1, <2>2 DEF Counted, Reserving
<1>2. IInv /\ AllCounted /\ [Next]_vars => AllCounted'
  BY StepCounted
<1>3. IInv /\ AllCounted => StockAccounted
  BY DEF IInv, AllCounted, Counted, StockAccounted
<1>. QED
  BY <1>1, <1>2, <1>3, Invariance, PTL DEF Spec

\* Once nothing runs for an order, nothing is in force for it.
LEMMA SettledFacts ==
  ASSUME IInv, NEW o \in Order \ unsure, Settled(o)
  PROVE  /\ LinesOK(o)
         /\ \A j \in 1..Len(Lines[o]) : ~InForce(o, j) /\ ~Released(o, j)
<1>1. \A x \in Actor : proc[x].order = o => proc[x].pc \notin Running
  BY DEF Settled, Actor
<1>2. Clean(o)
  BY <1>1 DEF Clean, Settled, Running, Actor
<1>3. \A x \in Actor, j \in 1..Len(Lines[o]) : proc[x].order = o => ~InForce(x, j)
  BY <1>1 DEF InForce, Running
<1>4. proc[o].order = o
  BY DEF IInv, ProcOK
<1>. QED
  BY <1>2, <1>3, <1>4 DEF IInv, Released, Actor

\* An order whose lines are not held owns nothing.
LEMMA NothingHeld ==
  ASSUME IInv, NEW o \in Order, LinesOK(o), \A j \in 1..Len(Lines[o]) : ~Held(o, j)
  PROVE  Freed(o)
<1>1. \A j \in 1..Len(Lines[o]) : own[o][Lines[o][j].product] = 0
  BY DEF LinesOK, LineOK
<1>2. \A p \in Product : own[o][p] \in Nat
  BY DEF IInv, TypeOK
<1>. QED
  BY <1>1, <1>2 DEF IInv, LineByLine, Freed

\* A create that fails leaves nothing reserved: _create_order releases the lines
\* whose calls returned, in reverse, after any rollback.
THEOREM FailedCreationReleases == Spec => []CreationCompensated
<1>1. IInv => CreationCompensated
  <2>. SUFFICES ASSUME IInv, NEW o \in Order \ unsure, Settled(o), status[o] = "absent"
                PROVE  Freed(o)
    BY DEF CreationCompensated
  <2>1. LinesOK(o) /\ \A j \in 1..Len(Lines[o]) : ~Held(o, j)
    BY SettledFacts DEF Held
  <2>. QED
    BY <2>1, NothingHeld
<1>. QED
  BY <1>1, Invariance, PTL

\* A cancelled order owns nothing and a reserved or confirmed one all its lines,
\* although _cancel_order released them before a rollback that others may pass.
THEOREM CancellationRestores == Spec => []CancellationCompensated
<1>1. IInv => CancellationCompensated
  <2>. SUFFICES ASSUME IInv, NEW o \in Order \ unsure, Settled(o)
                PROVE  /\ status[o] = "CANCELLED" => Freed(o)
                       /\ status[o] \in {"RESERVED", "CONFIRMED"} => Backed(o)
    BY DEF CancellationCompensated
  <2>1. status[o] = "CANCELLED" => Freed(o)
    BY SettledFacts, NothingHeld DEF Held
  <2>2. status[o] \in {"RESERVED", "CONFIRMED"} => Backed(o)
    BY SettledFacts DEF Held, LinesOK, LineOK, Backed
  <2>. QED
    BY <2>1, <2>2
<1>. QED
  BY <1>1, Invariance, PTL

\* The row lock and the status read under it keep confirmations and
\* cancellations from overtaking each other.
THEOREM FinalStatusKept == Spec => FinalStatus
<1>1. IInv /\ [Next]_vars => [\A o \in Order :
        status[o] \in {"CONFIRMED", "CANCELLED"} => status'[o] = status[o]]_vars
  <2>. SUFFICES ASSUME IInv, Next, NEW o \in Order, status[o] \in {"CONFIRMED", "CANCELLED"}
                PROVE  status'[o] = status[o]
    OBVIOUS
  <2>1. CASE UNCHANGED status
    BY <2>1
  <2>2. ASSUME NEW q \in Order, ConfirmOrder(q) PROVE status'[o] = status[o]
    BY <2>2 DEF ConfirmOrder, IInv, TypeOK
  <2>3. ASSUME NEW x \in Actor, proc[x].pc = "committing", Committed(x)
        PROVE  status'[o] = status[o]
    <3>1. proc[x].order # o
      BY <2>3, ActorFacts DEF ProcOK
    <3>. QED
      BY <2>3, <3>1 DEF Committed, IInv, TypeOK
  <2>. QED
    BY <2>1, <2>2, <2>3
    DEF Next, Actor, Progress, Fault, CreateOrder, CancelOrder, Serve, ServeLate, RequestLost,
        ReplyLost, Timeout, Crash, CallReturns, CallRaises, Commit, CommitRaises, Undone
<1>. QED
  BY <1>1, Invariance, PTL DEF Spec, FinalStatus
=============================================================================
