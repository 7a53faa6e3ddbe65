--------------------------- MODULE JobQueueProofs ---------------------------
(***************************************************************************)
(* Theorems about JobQueue, for any set of jobs, workers and slots, any    *)
(* clock skew and any lease, heartbeat and backoff.                        *)
(***************************************************************************)
EXTENDS JobQueue, TLAPS

\* What every row satisfies: attempts are counted and bounded, and only a
\* running row has an owner's lease.
RowOK(j) ==
  /\ jobs[j].attempts <= MaxAttempts[j]
  /\ jobs[j].status \in Waiting => jobs[j].attempts < MaxAttempts[j]
  /\ jobs[j].status = "absent" => jobs[j].attempts = 0
  /\ jobs[j].status = "running" => jobs[j].attempts >= 1
  /\ jobs[j].status = "dead_lettered" =>
       jobs[j].attempts = MaxAttempts[j] \/ jobs[j].error = "permanent"

\* What a slot knows about its row: a locked row still waits to be claimed,
\* and the attempt being processed is not newer than the row's counter.
SlotOK(s) ==
  /\ slots[s].pc = "locked" =>
       slots[s].job \in Job /\ jobs[slots[s].job].status \in Waiting
  /\ slots[s].pc \in Busy =>
       slots[s].job \in Job /\ slots[s].attempt <= jobs[slots[s].job].attempts
  /\ slots[s].pc = "failing" => slots[s].error \in ErrorKind
  /\ beats[s].pc # "off" => slots[s].pc \in Busy

\* The inductive invariant.
IInv ==
  /\ TypeOK
  /\ \A j \in Job : RowOK(j)
  /\ \A s \in Slot : SlotOK(s)
  /\ ClaimsExclusive

-----------------------------------------------------------------------------
(* What the row updates preserve                                           *)

\* The ways a step may change one row; every statement of queue.py is one.
RowMove(j) ==
  \/ jobs'[j] = jobs[j]
  \/ /\ jobs[j].status = "absent"
     /\ \E at \in Int : jobs'[j] = NewRow("queued", at)
  \/ /\ jobs[j].status \in Waiting
     /\ \E w \in Worker, at \in Int : jobs'[j] = ClaimedRow(jobs[j], w, at)
  \/ /\ jobs[j].status = "running"
     /\ \/ \E at \in Int : jobs'[j] = RenewedRow(jobs[j], at)
        \/ \E n \in Nat : jobs'[j] = SucceededRow(jobs[j], n)
        \/ \E at \in Int, e \in ErrorKind :
             jobs'[j] = FailedRow(jobs[j], MaxAttempts[j], at, e)
        \/ \E at \in Int :
             jobs'[j] = RecoveredRow(jobs[j], MaxAttempts[j], at)

\* A claim types as a row, takes one attempt and leaves the row running.
LEMMA ClaimedRowFacts ==
  ASSUME NEW row \in Row, NEW w \in Worker, NEW at \in Int
  PROVE  LET r == ClaimedRow(row, w, at) IN
         /\ r \in Row /\ r.status = "running" /\ r.worker = w
         /\ r.attempts = row.attempts + 1
  BY TimeAssumption DEF ClaimedRow, Row, JobStatus

\* A retry or a dead letter keeps the attempts; the retry has one left.
LEMMA FailedRowFacts ==
  ASSUME NEW row \in Row, NEW j \in Job, NEW at \in Int, NEW e \in ErrorKind,
         row.attempts \in 1..MaxAttempts[j]
  PROVE  LET r == FailedRow(row, MaxAttempts[j], at, e) IN
         /\ r \in Row /\ r.attempts = row.attempts /\ r.error = e
         /\ \/ r.status = "retry_scheduled" /\ r.attempts < MaxAttempts[j]
            \/ /\ r.status = "dead_lettered"
               /\ r.attempts = MaxAttempts[j] \/ e = "permanent"
<1>1. RetryDelay(row.attempts) \in Nat
  BY BackoffAssumption
<1>2. MaxAttempts[j] \in Nat /\ row.attempts \in Nat
  BY JobAssumption
<1>3. CASE e # "permanent" /\ row.attempts < MaxAttempts[j]
  BY <1>1, <1>2, <1>3 DEF FailedRow, RetryRow, DeadRow, ShouldRetry, Row, JobStatus, Waiting
<1>4. CASE ~(e # "permanent" /\ row.attempts < MaxAttempts[j])
  BY <1>2, <1>4 DEF FailedRow, RetryRow, DeadRow, ShouldRetry, Row, JobStatus, Terminal
<1>. QED
  BY <1>3, <1>4

\* The same of a recovery.
LEMMA RecoveredRowFacts ==
  ASSUME NEW row \in Row, NEW j \in Job, NEW at \in Int,
         row.attempts \in 1..MaxAttempts[j]
  PROVE  LET r == RecoveredRow(row, MaxAttempts[j], at) IN
         /\ r \in Row /\ r.attempts = row.attempts /\ r.worker = None
         /\ \/ r.status = "retry_scheduled" /\ r.attempts < MaxAttempts[j]
            \/ r.status = "dead_lettered" /\ r.attempts = MaxAttempts[j]
<1>1. MaxAttempts[j] \in Nat /\ row.attempts \in Nat
  BY JobAssumption
<1>2. CASE row.attempts < MaxAttempts[j]
  BY <1>1, <1>2 DEF RecoveredRow, RetryRow, DeadRow, ShouldRetry, Row, JobStatus, Waiting, ErrorKind
<1>3. CASE ~(row.attempts < MaxAttempts[j])
  BY <1>1, <1>3 DEF RecoveredRow, RetryRow, DeadRow, ShouldRetry, Row, JobStatus, Terminal, ErrorKind
<1>. QED
  BY <1>2, <1>3

\* Whatever happens to a row, it keeps its type and its invariant, its attempt
\* counter does not go back, and a terminal row stays as it is.
LEMMA RowMoveFacts ==
  ASSUME NEW j \in Job, jobs[j] \in Row, RowOK(j), RowMove(j)
  PROVE  /\ jobs'[j] \in Row
         /\ RowOK(j)'
         /\ jobs'[j].attempts >= jobs[j].attempts
         /\ jobs[j].status \in Terminal => jobs'[j] = jobs[j]
<1> DEFINE row == jobs[j]
<1>0. /\ MaxAttempts[j] \in Nat /\ MaxAttempts[j] >= 1
      /\ row.attempts \in Nat
  BY JobAssumption DEF Row
<1>1. CASE jobs'[j] = jobs[j]
  BY <1>0, <1>1 DEF RowOK
<1>2. CASE /\ row.status = "absent"
           /\ \E at \in Int : jobs'[j] = NewRow("queued", at)
  <2>1. /\ jobs'[j] \in Row /\ jobs'[j].status = "queued"
        /\ jobs'[j].attempts = 0
    BY <1>2 DEF NewRow, Row, JobStatus, Waiting
  <2>. QED
    BY <1>0, <1>2, <2>1 DEF RowOK, Terminal
<1>3. CASE /\ row.status \in Waiting
           /\ \E w \in Worker, at \in Int : jobs'[j] = ClaimedRow(row, w, at)
  <2>1. /\ jobs'[j] \in Row /\ jobs'[j].status = "running"
        /\ jobs'[j].attempts = row.attempts + 1
    BY <1>3, ClaimedRowFacts
  <2>. QED
    BY <1>0, <1>3, <2>1 DEF RowOK, Waiting, Terminal
<1>4. CASE /\ row.status = "running"
           /\ \E at \in Int : jobs'[j] = RenewedRow(row, at)
  <2>1. /\ jobs'[j] \in Row /\ jobs'[j].status = row.status
        /\ jobs'[j].attempts = row.attempts
    BY <1>4, TimeAssumption DEF RenewedRow, Row
  <2>. QED
    BY <1>0, <1>4, <2>1 DEF RowOK, Waiting, Terminal
<1>5. CASE /\ row.status = "running"
           /\ \E n \in Nat : jobs'[j] = SucceededRow(row, n)
  <2>1. /\ jobs'[j] \in Row /\ jobs'[j].status = "succeeded"
        /\ jobs'[j].attempts = row.attempts
    BY <1>5 DEF SucceededRow, Row, JobStatus, Terminal
  <2>. QED
    BY <1>0, <1>5, <2>1 DEF RowOK, Waiting, Terminal
<1>6. CASE /\ row.status = "running"
           /\ \E at \in Int, e \in ErrorKind :
                jobs'[j] = FailedRow(row, MaxAttempts[j], at, e)
  <2>1. row.attempts \in 1..MaxAttempts[j]
    BY <1>0, <1>6 DEF RowOK
  <2>2. /\ jobs'[j] \in Row /\ jobs'[j].attempts = row.attempts
        /\ \/ /\ jobs'[j].status = "retry_scheduled"
              /\ jobs'[j].attempts < MaxAttempts[j]
           \/ /\ jobs'[j].status = "dead_lettered"
              /\ \/ jobs'[j].attempts = MaxAttempts[j]
                 \/ jobs'[j].error = "permanent"
    BY <1>6, <2>1, FailedRowFacts
  <2>. QED
    BY <1>0, <1>6, <2>1, <2>2 DEF RowOK, Waiting, Terminal
<1>7. CASE /\ row.status = "running"
           /\ \E at \in Int :
                jobs'[j] = RecoveredRow(row, MaxAttempts[j], at)
  <2>1. row.attempts \in 1..MaxAttempts[j]
    BY <1>0, <1>7 DEF RowOK
  <2>2. /\ jobs'[j] \in Row /\ jobs'[j].attempts = row.attempts
        /\ \/ /\ jobs'[j].status = "retry_scheduled"
              /\ jobs'[j].attempts < MaxAttempts[j]
           \/ /\ jobs'[j].status = "dead_lettered"
              /\ jobs'[j].attempts = MaxAttempts[j]
    BY <1>7, <2>1, RecoveredRowFacts
  <2>. QED
    BY <1>0, <1>7, <2>1, <2>2 DEF RowOK, Waiting, Terminal
<1>. QED
  BY <1>1, <1>2, <1>3, <1>4, <1>5, <1>6, <1>7 DEF RowMove

-----------------------------------------------------------------------------
(* What a step does to the rows                                            *)

\* The clock of a worker and the times the processes remember are integers.
LEMMA Times ==
  ASSUME TypeOK
  PROVE  /\ now \in Nat
         /\ \A w \in Worker : Clock(w) \in Int /\ recovery[w].at \in Int
         /\ \A s \in Slot : /\ WorkerOf[s] \in Worker
                            /\ slots[s].at \in Int /\ beats[s].at \in Int
                            /\ slots[s].attempt \in Nat
  BY SlotAssumption, TimeAssumption
     DEF TypeOK, Clock, SlotState, BeatState, RecoveryState

\* Every row makes a RowMove.
RowsMove ==
  /\ jobs' = [j \in Job |-> jobs'[j]]
  /\ \A j \in Job : RowMove(j)

\* ... and rows that wait to be claimed are left alone.
RowsKept ==
  /\ RowsMove
  /\ \A j \in Job : jobs[j].status \in Waiting => jobs'[j] = jobs[j]

\* The statements of a slot change rows only by a RowMove, and leave a row
\* that waits to be claimed to the claim.
LEMMA Writes ==
  ASSUME IInv, NEW s \in Slot
  PROVE  /\ slots[s].pc = "locked" /\ ClaimWrites(s) =>
              /\ RowsMove
              /\ \A j \in Job \ {slots[s].job} : jobs'[j] = jobs[j]
              /\ jobs'[slots[s].job].attempts = jobs[slots[s].job].attempts + 1
         /\ slots[s].pc = "succeeding" /\ SucceededWrites(s) => RowsKept
         /\ slots[s].pc = "failing" /\ FailedWrites(s) => RowsKept
         /\ beats[s].pc = "renewing" /\ RenewWrites(s) => RowsKept
<1>0. /\ jobs \in [Job -> Row] /\ SlotOK(s)
      /\ WorkerOf[s] \in Worker /\ slots[s].at \in Int /\ beats[s].at \in Int
      /\ slots[s].attempt \in Nat
  BY Times DEF IInv, TypeOK
<1>1. ASSUME slots[s].pc = "locked", ClaimWrites(s)
      PROVE  /\ RowsMove
             /\ \A j \in Job \ {slots[s].job} : jobs'[j] = jobs[j]
             /\ jobs'[slots[s].job].attempts = jobs[slots[s].job].attempts + 1
  <2> DEFINE k == slots[s].job
  <2>1. k \in Job /\ jobs[k].status \in Waiting /\ jobs[k] \in Row
    BY <1>0, <1>1 DEF SlotOK
  <2>2. jobs' = [jobs EXCEPT ![k] = ClaimedRow(jobs[k], WorkerOf[s], slots[s].at)]
    BY <1>1 DEF ClaimWrites
  <2>3. /\ ClaimedRow(jobs[k], WorkerOf[s], slots[s].at) \in Row
        /\ ClaimedRow(jobs[k], WorkerOf[s], slots[s].at).attempts
             = jobs[k].attempts + 1
    BY <1>0, <2>1, ClaimedRowFacts
  <2>4. jobs' = [j \in Job |-> jobs'[j]]
    BY <1>0, <2>2
  <2>5. \A j \in Job \ {k} : jobs'[j] = jobs[j]
    BY <1>0, <2>2
  <2>6. jobs'[k] = ClaimedRow(jobs[k], WorkerOf[s], slots[s].at)
    BY <1>0, <2>1, <2>2
  <2>7. RowMove(k)
    BY <1>0, <2>1, <2>6 DEF RowMove
  <2>. QED
    BY <2>3, <2>4, <2>5, <2>6, <2>7 DEF RowMove, RowsMove
<1>2. ASSUME slots[s].pc = "succeeding", SucceededWrites(s)
      PROVE  RowsKept
  <2>1. slots[s].job \in Job
    BY <1>0, <1>2 DEF SlotOK, Busy
  <2>2. CASE jobs' = jobs
    BY <1>0, <2>2 DEF RowMove, RowsMove, RowsKept
  <2>3. CASE /\ Owned(slots[s].job, WorkerOf[s], slots[s].at)
             /\ jobs' = [jobs EXCEPT ![slots[s].job] =
                           SucceededRow(jobs[slots[s].job], slots[s].attempt)]
    BY <1>0, <2>1, <2>3 DEF RowMove, Owned, RowsMove, RowsKept, Waiting
  <2>. QED
    BY <1>2, <2>2, <2>3 DEF SucceededWrites
<1>3. ASSUME slots[s].pc = "failing", FailedWrites(s)
      PROVE  RowsKept
  <2>1. slots[s].job \in Job /\ slots[s].error \in ErrorKind
    BY <1>0, <1>3 DEF SlotOK, Busy
  <2>2. CASE jobs' = jobs
    BY <1>0, <2>2 DEF RowMove, RowsMove, RowsKept
  <2>3. CASE /\ Owned(slots[s].job, WorkerOf[s], slots[s].at)
             /\ jobs' = [jobs EXCEPT ![slots[s].job] =
                           FailedRow(jobs[slots[s].job], MaxAttempts[slots[s].job],
                                     slots[s].at, slots[s].error)]
    BY <1>0, <2>1, <2>3 DEF RowMove, Owned, RowsMove, RowsKept, Waiting
  <2>. QED
    BY <1>3, <2>2, <2>3 DEF FailedWrites
<1>4. ASSUME beats[s].pc = "renewing", RenewWrites(s)
      PROVE  RowsKept
  <2>1. slots[s].job \in Job
    BY <1>0, <1>4 DEF SlotOK
  <2>2. CASE jobs' = jobs
    BY <1>0, <2>2 DEF RowMove, RowsMove, RowsKept
  <2>3. CASE /\ Owned(slots[s].job, WorkerOf[s], beats[s].at)
             /\ jobs' = [jobs EXCEPT ![slots[s].job] =
                           RenewedRow(jobs[slots[s].job], beats[s].at)]
    BY <1>0, <2>1, <2>3 DEF RowMove, Owned, RowsMove, RowsKept, Waiting
  <2>. QED
    BY <1>4, <2>2, <2>3 DEF RenewWrites
<1>. QED
  BY <1>1, <1>2, <1>3, <1>4

\* A recovery transaction takes running rows only.
LEMMA RecoveryWrites ==
  ASSUME IInv, NEW w \in Worker, RecoverWrites(w)
  PROVE  RowsKept
<1>0. jobs \in [Job -> Row] /\ recovery[w].at \in Int
  BY Times DEF IInv, TypeOK
<1>1. PICK skipped \in SUBSET BusyRows :
        jobs' = [j \in Job |->
                   IF j \in Recoverable(recovery[w].at, skipped)
                   THEN RecoveredRow(jobs[j], MaxAttempts[j], recovery[w].at)
                   ELSE jobs[j]]
  BY DEF RecoverWrites
<1>2. \A j \in Recoverable(recovery[w].at, skipped) : jobs[j].status = "running"
  BY DEF Recoverable, Stale
<1>3. ASSUME NEW j \in Job
      PROVE  /\ jobs'[j] = jobs[j] \/ jobs[j].status = "running"
             /\ RowMove(j)
  <2>1. CASE j \in Recoverable(recovery[w].at, skipped)
    BY <1>0, <1>1, <1>2, <2>1 DEF RowMove
  <2>2. CASE j \notin Recoverable(recovery[w].at, skipped)
    BY <1>1, <2>2 DEF RowMove
  <2>. QED
    BY <2>1, <2>2
<1>. QED
  BY <1>1, <1>3 DEF RowsKept, RowsMove, Waiting

\* Rows that move keep their type and their invariant.
LEMMA RowsMoveFacts ==
  ASSUME IInv, RowsMove
  PROVE  /\ jobs' \in [Job -> Row]
         /\ \A j \in Job : RowOK(j)'
         /\ \A j \in Job : jobs'[j].attempts >= jobs[j].attempts
         /\ \A j \in Job : jobs[j].status \in Terminal => jobs'[j] = jobs[j]
<1>1. \A j \in Job : jobs[j] \in Row /\ RowOK(j) /\ RowMove(j)
  BY DEF IInv, TypeOK, RowsMove
<1>2. \A j \in Job : jobs'[j] \in Row
  BY <1>1, RowMoveFacts
<1>3. jobs' \in [Job -> Row]
  BY <1>2 DEF RowsMove
<1>. QED
  BY <1>1, <1>3, RowMoveFacts

\* A submission creates a row that nobody waits for.
LEMMA SubmitRows ==
  ASSUME IInv, NEW j \in Job, Submit(j)
  PROVE  RowsKept
<1>1. jobs \in [Job -> Row] /\ now \in Int
  BY DEF IInv, TypeOK
<1>2. /\ jobs' = [k \in Job |-> jobs'[k]]
      /\ jobs'[j] = NewRow("queued", now)
      /\ \A k \in Job \ {j} : jobs'[k] = jobs[k]
  BY <1>1 DEF Submit
<1>3. jobs[j].status = "absent"
  BY DEF Submit
<1>4. \A k \in Job : RowMove(k)
  BY <1>1, <1>2, <1>3 DEF RowMove
<1>. QED
  BY <1>2, <1>3, <1>4 DEF RowsKept, RowsMove, Waiting

\* Rows that do not change at all.
LEMMA SameRows ==
  ASSUME IInv, UNCHANGED jobs
  PROVE  RowsKept
  BY DEF IInv, TypeOK, RowsKept, RowsMove, RowMove

-----------------------------------------------------------------------------
(* What a step does to the slots                                           *)

\* A slot that does not move keeps its invariant while rows move, provided the
\* row it holds locked is left alone.
LEMMA KeepSlot ==
  ASSUME IInv, RowsMove, NEW t \in Slot,
         slots'[t] = slots[t], beats'[t] = beats[t],
         slots[t].pc = "locked" => jobs'[slots[t].job] = jobs[slots[t].job]
  PROVE  SlotOK(t)'
<1>1. SlotOK(t) /\ slots[t].attempt \in Nat
  BY Times DEF IInv
<1>2. /\ \A j \in Job : jobs'[j].attempts >= jobs[j].attempts
      /\ \A j \in Job : jobs[j].attempts \in Nat /\ jobs'[j].attempts \in Nat
  BY RowsMoveFacts DEF IInv, TypeOK, Row
<1>3. slots[t].pc \in Busy =>
        /\ slots[t].job \in Job
        /\ slots[t].attempt <= jobs'[slots[t].job].attempts
  BY <1>1, <1>2 DEF SlotOK
<1>. QED
  BY <1>1, <1>3 DEF SlotOK

\* The steps of a slot other than the claim: it is freed, or it goes on with
\* the same attempt of the same job, while no waiting row changes.
LEMMA SlotStep ==
  ASSUME IInv, RowsKept, NEW s \in Slot,
         NEW slot \in SlotState, NEW beat \in BeatState,
         slots' = [slots EXCEPT ![s] = slot],
         beats' = [beats EXCEPT ![s] = beat],
         UNCHANGED <<recovery, workers, now>>,
         \/ slot.pc \notin Busy \cup {"locked"} /\ beat.pc = "off"
         \/ /\ slots[s].pc \in Busy /\ slot.pc \in Busy
            /\ slot.job = slots[s].job /\ slot.attempt = slots[s].attempt
            /\ slot.pc = "failing" => slot.error \in ErrorKind
  PROVE  IInv'
<1>0. /\ TypeOK /\ ClaimsExclusive /\ RowsMove
      /\ \A t \in Slot : SlotOK(t)
      /\ slots \in [Slot -> SlotState] /\ beats \in [Slot -> BeatState]
  BY DEF IInv, TypeOK, RowsKept
<1>1. /\ slots'[s] = slot /\ beats'[s] = beat
      /\ \A t \in Slot \ {s} : slots'[t] = slots[t] /\ beats'[t] = beats[t]
  BY <1>0
<1>2. TypeOK'
  BY <1>0, RowsMoveFacts DEF TypeOK
<1>3. \A j \in Job : RowOK(j)'
  BY <1>0, RowsMoveFacts
<1>4. \A t \in Slot \ {s} : SlotOK(t)'
  BY <1>0, <1>1, KeepSlot DEF RowsKept, SlotOK
<1>5. SlotOK(s)'
  <2>1. CASE slot.pc \notin Busy \cup {"locked"} /\ beat.pc = "off"
    BY <1>1, <2>1 DEF SlotOK, Busy
  <2>2. CASE /\ slots[s].pc \in Busy /\ slot.pc \in Busy
             /\ slot.job = slots[s].job /\ slot.attempt = slots[s].attempt
             /\ slot.pc = "failing" => slot.error \in ErrorKind
    <3>1. /\ slot.job \in Job /\ slot.attempt \in Nat
          /\ slot.attempt <= jobs[slot.job].attempts
      BY <1>0, <2>2, Times DEF SlotOK
    <3>2. /\ jobs'[slot.job].attempts >= jobs[slot.job].attempts
          /\ jobs[slot.job].attempts \in Nat /\ jobs'[slot.job].attempts \in Nat
      BY <1>0, <3>1, RowsMoveFacts DEF TypeOK, Row
    <3>. QED
      BY <1>1, <2>2, <3>1, <3>2 DEF SlotOK, Busy
  <2>. QED
    BY <2>1, <2>2
<1>6. ClaimsExclusive'
  <2>1. ASSUME NEW t \in Slot, slots'[t].pc \in Busy \cup {"locked"}
        PROVE  /\ slots'[t].job = slots[t].job
               /\ slots'[t].attempt = slots[t].attempt
               /\ slots'[t].pc = "locked" <=> slots[t].pc = "locked"
               /\ slots'[t].pc \in Busy <=> slots[t].pc \in Busy
    BY <1>1, <2>1 DEF Busy
  <2>. QED
    BY <1>0, <2>1 DEF ClaimsExclusive
<1>. QED
  BY <1>2, <1>3, <1>4, <1>5, <1>6 DEF IInv

\* SELECT ... FOR UPDATE SKIP LOCKED: the row found is locked by no other slot.
LEMMA ClaimSelectStep ==
  ASSUME IInv, NEW s \in Slot, ClaimSelect(s)
  PROVE  IInv'
<1>0. /\ TypeOK /\ ClaimsExclusive /\ RowsMove /\ UNCHANGED jobs
      /\ \A t \in Slot : SlotOK(t)
      /\ slots \in [Slot -> SlotState] /\ slots[s].pc = "claiming"
      /\ slots[s].at \in Int /\ beats'[s] = beats[s]
  BY SameRows, Times DEF IInv, TypeOK, RowsKept, ClaimSelect
<1>1. PICK j \in Job : /\ jobs[j].status \in Waiting /\ j \notin LockedByClaim
                       /\ Work(s, "locked", j, 0, slots[s].at, None)
  BY DEF ClaimSelect, Claimable
<1> DEFINE slot == [pc |-> "locked", job |-> j, attempt |-> 0,
                    at |-> slots[s].at, error |-> None]
<1>2. slot \in SlotState
  BY <1>0 DEF SlotState, SlotPc
<1>3. /\ slots' \in [Slot -> SlotState] /\ slots'[s] = slot
      /\ \A t \in Slot \ {s} : slots'[t] = slots[t] /\ beats'[t] = beats[t]
  BY <1>0, <1>1, <1>2 DEF Work, ClaimSelect
<1>4. TypeOK'
  BY <1>0, <1>3 DEF TypeOK, ClaimSelect
<1>5. \A k \in Job : RowOK(k)'
  BY <1>0, RowsMoveFacts
<1>6. \A t \in Slot \ {s} : SlotOK(t)'
  BY <1>0, <1>3, KeepSlot
<1>7. SlotOK(s)'
  BY <1>0, <1>1, <1>3 DEF SlotOK, Busy
<1>8. ClaimsExclusive'
  <2>1. \A t \in Slot : slots[t].pc = "locked" => slots[t].job # j
    BY <1>1 DEF LockedByClaim
  <2>. QED
    BY <1>0, <1>3, <2>1 DEF ClaimsExclusive, Busy
<1>. QED
  BY <1>4, <1>5, <1>6, <1>7, <1>8 DEF IInv

\* The claim commits, whether or not its slot learns of it: the attempt is
\* newer than every attempt of the job any slot still processes.
LEMMA ClaimCommitStep ==
  ASSUME IInv, NEW s \in Slot, slots[s].pc = "locked", ClaimWrites(s),
         NEW slot \in SlotState, NEW beat \in BeatState,
         slots' = [slots EXCEPT ![s] = slot],
         beats' = [beats EXCEPT ![s] = beat],
         UNCHANGED <<recovery, workers, now>>,
         \/ slot.pc = "idle" /\ beat.pc = "off"
         \/ /\ slot.pc = "executing" /\ slot.job = slots[s].job
            /\ slot.attempt = jobs[slots[s].job].attempts + 1
  PROVE  IInv'
<1> DEFINE k == slots[s].job
<1>0. /\ TypeOK /\ ClaimsExclusive /\ RowsMove
      /\ \A t \in Slot : SlotOK(t) /\ slots[t].attempt \in Nat
      /\ slots \in [Slot -> SlotState] /\ beats \in [Slot -> BeatState]
      /\ k \in Job /\ k # None
  BY Writes, Times, NoneAssumption DEF IInv, TypeOK, SlotOK
<1>1. /\ slots'[s] = slot /\ beats'[s] = beat
      /\ \A t \in Slot \ {s} : slots'[t] = slots[t] /\ beats'[t] = beats[t]
  BY <1>0
<1>2. TypeOK'
  BY <1>0, RowsMoveFacts DEF TypeOK
<1>3. \A j \in Job : RowOK(j)'
  BY <1>0, RowsMoveFacts
<1>4. ASSUME NEW t \in Slot \ {s} PROVE SlotOK(t)'
  <2>1. slots[t].pc = "locked" => slots[t].job \in Job /\ slots[t].job # k
    BY <1>0 DEF ClaimsExclusive, SlotOK
  <2>2. slots[t].pc = "locked" => jobs'[slots[t].job] = jobs[slots[t].job]
    BY <2>1, Writes
  <2>. QED
    BY <1>0, <1>1, <2>2, KeepSlot
<1>5. SlotOK(s)'
  <2>1. /\ jobs'[k].attempts = jobs[k].attempts + 1
        /\ jobs[k].attempts \in Nat
    BY <1>0, Writes DEF TypeOK, Row
  <2>. QED
    BY <1>0, <1>1, <2>1 DEF SlotOK, Busy
<1>6. ClaimsExclusive'
  <2>1. \A t \in Slot : slots[t].pc \in Busy /\ slots[t].job = k =>
          slots[t].attempt < jobs[k].attempts + 1
    BY <1>0 DEF SlotOK, TypeOK, Row
  <2>2. \A t \in Slot \ {s} : slots[t].pc \in Busy /\ slots[t].job = k =>
          slots[t].attempt # jobs[k].attempts + 1
    BY <1>0, <2>1 DEF TypeOK, Row
  <2>. QED
    BY <1>0, <1>1, <2>2 DEF ClaimsExclusive, Busy
<1>. QED
  BY <1>2, <1>3, <1>4, <1>5, <1>6 DEF IInv

\* Every step of a slot preserves the invariant.
LEMMA SlotNextStep ==
  ASSUME IInv, NEW s \in Slot, SlotNext(s)
  PROVE  IInv'
<1> DEFINE w == WorkerOf[s]
<1>0. /\ slots \in [Slot -> SlotState] /\ beats \in [Slot -> BeatState]
      /\ w \in Worker /\ Clock(w) \in Int /\ slots[s].at \in Int
      /\ slots[s].attempt \in Nat /\ slots[s].job \in Job \cup {None}
      /\ slots[s] \in SlotState /\ beats[s] \in BeatState
      /\ slots = [slots EXCEPT ![s] = slots[s]]
      /\ beats = [beats EXCEPT ![s] = beats[s]]
      /\ beats[s].pc # "off" => slots[s].pc \in Busy
      /\ SlotOK(s)
  BY Times DEF IInv, TypeOK, SlotOK, SlotState
<1>a. ASSUME NEW pc \in SlotPc, NEW at \in Int PROVE FreeSlot(pc, at) \in SlotState
  BY <1>a DEF FreeSlot, SlotState
<1>b. ASSUME NEW pc \in SlotPc, NEW at \in Int, NEW e \in ErrorKind \cup {None}
      PROVE  [pc |-> pc, job |-> slots[s].job, attempt |-> slots[s].attempt,
              at |-> at, error |-> e] \in SlotState
  BY <1>0 DEF SlotState
<1>c. /\ NoBeat \in BeatState
      /\ \A at \in Int : [pc |-> "waiting", at |-> at] \in BeatState
      /\ \A at \in Int : [pc |-> "renewing", at |-> at] \in BeatState
      /\ [pc |-> "lost", at |-> 0] \in BeatState
  BY DEF NoBeat, BeatState
<1>d. /\ {"idle", "claiming", "locked", "stopped", "dead", "executing",
          "succeeding", "failing", "finishing"} = SlotPc
      /\ IdleSlot \in SlotState /\ IdleSlot.pc = "idle"
  BY <1>a DEF SlotPc, Busy, IdleSlot, FreeSlot
<1>1. CASE ClaimStart(s)
  <2>1. RowsKept
    BY <1>1, SameRows DEF ClaimStart
  <2>2. beats[s].pc = "off" /\ slots[s].pc = "idle"
    BY <1>0, <1>1 DEF ClaimStart, Busy
  <2>3. FreeSlot("claiming", Clock(w)) \in SlotState
    BY <1>0, <1>a, <1>d
  <2>. QED
    BY <1>0, <1>1, <2>1, <2>2, <2>3, SlotStep DEF ClaimStart, FreeSlot, Busy
<1>2. CASE ClaimSelect(s)
  BY <1>2, ClaimSelectStep
<1>3. CASE ClaimNothing(s)
  <2>1. RowsKept
    BY <1>3, SameRows DEF ClaimNothing
  <2>2. beats[s].pc = "off"
    BY <1>0, <1>3 DEF ClaimNothing, Busy
  <2>. QED
    BY <1>0, <1>3, <1>d, <2>1, <2>2, SlotStep DEF ClaimNothing, Busy
<1>4. CASE ClaimCommit(s)
  <2>1. /\ slots[s].pc = "locked" /\ ClaimWrites(s) /\ slots[s].job \in Job
    BY <1>0, <1>4 DEF ClaimCommit, SlotOK
  <2> DEFINE n == jobs[slots[s].job].attempts + 1
             slot == [pc |-> "executing", job |-> slots[s].job, attempt |-> n,
                      at |-> 0, error |-> None]
             beat == [pc |-> "waiting", at |-> Clock(w)]
  <2>2. n \in Nat
    BY <2>1 DEF IInv, TypeOK, Row
  <2>3. slot \in SlotState /\ beat \in BeatState
    BY <1>0, <1>c, <1>d, <2>1, <2>2 DEF SlotState
  <2>4. /\ slots' = [slots EXCEPT ![s] = slot]
        /\ beats' = [beats EXCEPT ![s] = beat]
        /\ UNCHANGED <<recovery, workers, now>>
    BY <1>4 DEF ClaimCommit, Work
  <2>. QED
    BY <2>1, <2>3, <2>4, ClaimCommitStep
<1>5. CASE ClaimError(s)
  <2>1. /\ slots' = [slots EXCEPT ![s] = IdleSlot]
        /\ beats' = [beats EXCEPT ![s] = beats[s]]
        /\ UNCHANGED <<recovery, workers, now>> /\ beats[s].pc = "off"
    BY <1>0, <1>5 DEF ClaimError, Busy
  <2>2. CASE UNCHANGED jobs
    BY <1>0, <1>d, <2>1, <2>2, SameRows, SlotStep DEF Busy
  <2>3. CASE slots[s].pc = "locked" /\ ClaimWrites(s)
    BY <1>0, <1>d, <2>1, <2>3, ClaimCommitStep
  <2>. QED
    BY <1>5, <2>2, <2>3 DEF ClaimError
<1>6. CASE SlotStop(s)
  <2>1. RowsKept
    BY <1>6, SameRows DEF SlotStop
  <2>2. beats[s].pc = "off" /\ slots[s].pc = "idle"
    BY <1>0, <1>6 DEF SlotStop, Busy
  <2>3. FreeSlot("stopped", 0) \in SlotState
    BY <1>a, <1>d
  <2>. QED
    BY <1>0, <1>6, <2>1, <2>2, <2>3, SlotStep DEF SlotStop, FreeSlot, Busy
<1>7. CASE HandlerReturns(s)
  <2>1. RowsKept
    BY <1>7, SameRows DEF HandlerReturns
  <2>2. [pc |-> "succeeding", job |-> slots[s].job, attempt |-> slots[s].attempt,
         at |-> Clock(w), error |-> None] \in SlotState
    BY <1>0, <1>b, <1>d
  <2>. QED
    BY <1>0, <1>7, <2>1, <2>2, SlotStep DEF HandlerReturns, Work, Busy
<1>e. ASSUME RowsKept, slots[s].pc \in Busy, NEW e \in ErrorKind,
             ReportFailure(s, e), UNCHANGED <<beats, recovery, workers, now>>
      PROVE  IInv'
  <2> DEFINE slot == [pc |-> "failing", job |-> slots[s].job,
                      attempt |-> slots[s].attempt, at |-> Clock(w), error |-> e]
  <2>1. slot \in SlotState
    BY <1>0, <1>b, <1>d
  <2>2. slots' = [slots EXCEPT ![s] = slot]
    BY <1>e DEF ReportFailure, Work
  <2>. QED
    BY <1>0, <1>e, <2>1, <2>2, SlotStep DEF Busy
<1>8. CASE HandlerRaises(s)
  BY <1>8, <1>e, SameRows DEF HandlerRaises, ErrorKind, Busy
<1>f. ASSUME RowsKept, slots[s].pc \in Busy, Finishing(s),
             UNCHANGED <<beats, recovery, workers, now>>
      PROVE  IInv'
  <2> DEFINE slot == [pc |-> "finishing", job |-> slots[s].job,
                      attempt |-> slots[s].attempt, at |-> 0, error |-> None]
  <2>1. slot \in SlotState
    BY <1>0, <1>b, <1>d
  <2>2. slots' = [slots EXCEPT ![s] = slot]
    BY <1>f DEF Finishing, Work
  <2>. QED
    BY <1>0, <1>f, <2>1, <2>2, SlotStep DEF Busy
<1>9. CASE MarkSucceeded(s)
  BY <1>9, <1>f, Writes DEF MarkSucceeded, Busy
<1>10. CASE MarkSucceededError(s)
  BY <1>10, <1>e, Writes, SameRows DEF MarkSucceededError, ErrorKind, Busy
<1>11. CASE MarkFailed(s)
  BY <1>11, <1>f, Writes DEF MarkFailed, Busy
<1>12. CASE MarkFailedError(s)
  BY <1>12, <1>f, SameRows DEF MarkFailedError, Busy
<1>13. CASE Finish(s)
  <2>1. RowsKept
    BY <1>13, SameRows DEF Finish
  <2>. QED
    BY <1>0, <1>13, <1>c, <1>d, <2>1, SlotStep DEF Finish, Busy, NoBeat
<1>g. ASSUME RowsKept, beats[s].pc # "off", NEW beat \in BeatState,
             beats' = [beats EXCEPT ![s] = beat],
             UNCHANGED <<slots, recovery, workers, now>>
      PROVE  IInv'
  <2>1. /\ slots[s].pc \in Busy
        /\ slots[s].pc = "failing" => slots[s].error \in ErrorKind
    BY <1>0, <1>g DEF SlotOK
  <2>2. slots' = [slots EXCEPT ![s] = slots[s]]
    BY <1>0, <1>g
  <2>. QED
    BY <1>0, <1>g, <2>1, <2>2, SlotStep
<1>14. CASE Beat(s)
  BY <1>0, <1>14, <1>c, <1>g, SameRows DEF Beat
<1>15. CASE RenewLease(s)
  BY <1>0, <1>15, <1>c, <1>g, Writes DEF RenewLease
<1>16. CASE RenewError(s)
  BY <1>0, <1>16, <1>c, <1>g, Writes, SameRows DEF RenewError
<1>. QED
  BY <1>1, <1>2, <1>3, <1>4, <1>5, <1>6, <1>7, <1>8, <1>9, <1>10, <1>11,
     <1>12, <1>13, <1>14, <1>15, <1>16 DEF SlotNext

\* A step that leaves the slots alone and no waiting row changed.
LEMMA RowStep ==
  ASSUME IInv, RowsKept, UNCHANGED <<slots, beats>>,
         recovery' \in [Worker -> RecoveryState],
         workers' \in [Worker -> {"new", "up", "stopping", "crashed"}],
         now' \in Nat
  PROVE  IInv'
<1>1. RowsMove /\ \A s \in Slot : SlotOK(s)
  BY DEF RowsKept, IInv
<1>2. TypeOK'
  BY <1>1, RowsMoveFacts DEF IInv, TypeOK
<1>3. \A j \in Job : RowOK(j)'
  BY <1>1, RowsMoveFacts
<1>4. \A s \in Slot : SlotOK(s)'
  BY <1>1, KeepSlot DEF RowsKept, SlotOK
<1>5. ClaimsExclusive'
  BY DEF IInv, ClaimsExclusive
<1>. QED
  BY <1>2, <1>3, <1>4, <1>5 DEF IInv

\* Every step of a worker process and of its recovery loop preserves it too.
LEMMA WorkerNextStep ==
  ASSUME IInv, NEW w \in Worker, WorkerNext(w)
  PROVE  IInv'
<1>0. /\ TypeOK /\ Clock(w) \in Int /\ now \in Nat
      /\ recovery \in [Worker -> RecoveryState]
      /\ workers \in [Worker -> {"new", "up", "stopping", "crashed"}]
      /\ \A at \in Int : /\ [pc |-> "recovering", at |-> at] \in RecoveryState
                         /\ [pc |-> "dead", at |-> 0] \in RecoveryState
                         /\ [pc |-> "stopped", at |-> 0] \in RecoveryState
                         /\ IdleRecovery \in RecoveryState
  BY Times DEF IInv, TypeOK, RecoveryState, IdleRecovery
<1>1. CASE Start(w)
  BY <1>0, <1>1, SameRows, RowStep DEF Start
<1>2. CASE RequestStop(w)
  BY <1>0, <1>2, SameRows, RowStep DEF RequestStop
<1>3. CASE Crash(w)
  <2>0. /\ RowsKept /\ RowsMove /\ UNCHANGED jobs
    BY <1>3, SameRows DEF Crash, RowsKept
  <2>1. /\ slots \in [Slot -> SlotState] /\ beats \in [Slot -> BeatState]
        /\ FreeSlot("dead", 0) \in SlotState /\ NoBeat \in BeatState
    BY <1>0 DEF TypeOK, FreeSlot, SlotState, SlotPc, NoBeat, BeatState
  <2>2. \A s \in Slot :
          \/ slots'[s] = slots[s] /\ beats'[s] = beats[s]
          \/ slots'[s] = FreeSlot("dead", 0) /\ beats'[s] = NoBeat
    BY <1>3 DEF Crash
  <2>3. TypeOK'
    BY <1>0, <1>3, <2>0, <2>1, RowsMoveFacts DEF TypeOK, Crash
  <2>4. \A j \in Job : RowOK(j)'
    BY <2>0, RowsMoveFacts
  <2>5. ASSUME NEW s \in Slot PROVE SlotOK(s)'
    <3>1. CASE slots'[s] = slots[s] /\ beats'[s] = beats[s]
      BY <2>0, <3>1, KeepSlot
    <3>2. CASE slots'[s] = FreeSlot("dead", 0) /\ beats'[s] = NoBeat
      BY <3>2 DEF SlotOK, FreeSlot, NoBeat, Busy
    <3>. QED
      BY <2>2, <3>1, <3>2
  <2>6. ClaimsExclusive'
    BY <2>2 DEF IInv, ClaimsExclusive, FreeSlot
  <2>. QED
    BY <2>3, <2>4, <2>5, <2>6 DEF IInv
<1>4. CASE RecoverStart(w)
  BY <1>0, <1>4, SameRows, RowStep DEF RecoverStart
<1>5. CASE RecoverStaleJobs(w)
  BY <1>0, <1>5, RecoveryWrites, RowStep DEF RecoverStaleJobs
<1>6. CASE RecoverError(w)
  BY <1>0, <1>6, SameRows, RowStep DEF RecoverError
<1>7. CASE RecoveryStop(w)
  BY <1>0, <1>7, SameRows, RowStep DEF RecoveryStop
<1>. QED
  BY <1>1, <1>2, <1>3, <1>4, <1>5, <1>6, <1>7 DEF WorkerNext

\* The invariant is inductive.
LEMMA Inductive == IInv /\ [Next]_vars => IInv'
<1> SUFFICES ASSUME IInv, [Next]_vars PROVE IInv'
  OBVIOUS
<1>1. CASE \E j \in Job : Submit(j)
  BY <1>1, SubmitRows, RowStep DEF Submit, IInv, TypeOK
<1>2. CASE \E s \in Slot : SlotNext(s)
  BY <1>2, SlotNextStep
<1>3. CASE \E w \in Worker : WorkerNext(w)
  BY <1>3, WorkerNextStep
<1>4. CASE Tick
  <2>1. now' \in Nat
    BY <1>4 DEF Tick, IInv, TypeOK
  <2>. QED
    BY <1>4, <2>1, SameRows, RowStep DEF Tick, IInv, TypeOK
<1>5. CASE UNCHANGED vars
  BY <1>5, SameRows, RowStep DEF vars, IInv, TypeOK
<1>. QED
  BY <1>1, <1>2, <1>3, <1>4, <1>5 DEF Next

\* It holds of an empty table and processes that have not started.
LEMMA Initially == Init => IInv
<1> SUFFICES ASSUME Init PROVE IInv
  OBVIOUS
<1>1. NewRow("absent", 0) \in Row
  BY DEF NewRow, Row, JobStatus
<1>2. IdleSlot \in SlotState /\ NoBeat \in BeatState /\ IdleRecovery \in RecoveryState
  BY DEF IdleSlot, FreeSlot, SlotState, SlotPc, NoBeat, BeatState,
         IdleRecovery, RecoveryState
<1>3. TypeOK
  BY <1>1, <1>2 DEF Init, TypeOK
<1>4. \A j \in Job : RowOK(j)
  BY JobAssumption, SMTT(30) DEF Init, RowOK, NewRow, Waiting
<1>5. \A s \in Slot : SlotOK(s) /\ slots[s].job = None
  BY DEF Init, SlotOK, IdleSlot, FreeSlot, NoBeat, Busy
<1>. QED
  BY <1>3, <1>4, <1>5 DEF IInv, ClaimsExclusive

-----------------------------------------------------------------------------
\* The inductive invariant holds in every reachable state of the job queue.
LEMMA Invariance == Spec => []IInv
  BY Initially, Inductive, PTL DEF Spec

\* Rows, slots, heartbeats and recovery loops keep their types; the backoff
\* that mark_failed adds to a timestamp is always a duration.
THEOREM TypeCorrect == Spec => []TypeOK
<1>1. IInv => TypeOK
  BY DEF IInv
<1>. QED
  BY <1>1, Invariance, PTL

\* No job is claimed more often than max_attempts, whatever the interleaving
\* of claims, failure reports, recoveries, crashes and clock skews.
THEOREM AttemptsAreBounded == Spec => []AttemptsBounded
<1>1. IInv => AttemptsBounded
  BY DEF IInv, AttemptsBounded, RowOK
<1>. QED
  BY <1>1, Invariance, PTL

\* No two slots, of one worker or of several, hold the same row or run the
\* same attempt of a job.
THEOREM ClaimsAreExclusive == Spec => []ClaimsExclusive
<1>1. IInv => ClaimsExclusive
  BY DEF IInv
<1>. QED
  BY <1>1, Invariance, PTL

\* A job is dead-lettered for want of attempts or as invalid work, never
\* because of a lost lease alone.
THEOREM DeadLettersAreJustified == Spec => []DeadLetterJustified
<1>1. IInv => DeadLetterJustified
  BY DEF IInv, DeadLetterJustified, RowOK
<1>. QED
  BY <1>1, Invariance, PTL

-----------------------------------------------------------------------------
\* Every step moves rows only by a RowMove.
LEMMA StepMovesRows ==
  ASSUME IInv, [Next]_vars
  PROVE  RowsMove
<1>1. CASE UNCHANGED jobs
  BY <1>1, SameRows DEF RowsKept
<1>2. CASE \E j \in Job : Submit(j)
  BY <1>2, SubmitRows DEF RowsKept
<1>3. ASSUME NEW s \in Slot, SlotNext(s) PROVE RowsMove
  <2>1. CASE ClaimCommit(s) \/ ClaimError(s)
    BY <1>1, <2>1, Writes DEF ClaimCommit, ClaimError
  <2>2. CASE MarkSucceeded(s) \/ MarkSucceededError(s)
    BY <1>1, <2>2, Writes DEF MarkSucceeded, MarkSucceededError, RowsKept
  <2>3. CASE MarkFailed(s) \/ MarkFailedError(s)
    BY <1>1, <2>3, Writes DEF MarkFailed, MarkFailedError, RowsKept
  <2>4. CASE RenewLease(s) \/ RenewError(s)
    BY <1>1, <2>4, Writes DEF RenewLease, RenewError, RowsKept
  <2>5. CASE \/ ClaimStart(s) \/ ClaimSelect(s) \/ ClaimNothing(s) \/ SlotStop(s)
             \/ HandlerReturns(s) \/ HandlerRaises(s) \/ Finish(s) \/ Beat(s)
    BY <1>1, <2>5 DEF ClaimStart, ClaimSelect, ClaimNothing, SlotStop,
                      HandlerReturns, HandlerRaises, Finish, Beat
  <2>. QED
    BY <1>3, <2>1, <2>2, <2>3, <2>4, <2>5 DEF SlotNext
<1>4. ASSUME NEW w \in Worker, WorkerNext(w) PROVE RowsMove
  <2>1. CASE RecoverStaleJobs(w)
    BY <2>1, RecoveryWrites DEF RecoverStaleJobs, RowsKept
  <2>2. CASE ~RecoverStaleJobs(w)
    BY <1>1, <1>4, <2>2 DEF WorkerNext, Start, RequestStop, Crash, RecoverStart,
                            RecoverError, RecoveryStop
  <2>. QED
    BY <2>1, <2>2
<1>. QED
  BY <1>1, <1>2, <1>3, <1>4 DEF Next, Tick, vars

\* The row of a finished job never changes again.
THEOREM TerminalRowsAreFinal == Spec => TerminalIsFinal
<1>1. IInv /\ [Next]_vars =>
        [\A j \in Job : jobs[j].status \in Terminal => jobs'[j] = jobs[j]]_vars
  BY StepMovesRows, RowsMoveFacts
<1>. QED
  BY <1>1, Invariance, PTL DEF Spec, TerminalIsFinal

-----------------------------------------------------------------------------
(* The queue follows JobLifecycle                                          *)

\* What a client sees of the move of one row.
LEMMA ClientSees ==
  ASSUME NEW j \in Job, jobs[j] \in Row, RowOK(j), RowMove(j)
  PROVE  LET st == jobs[j].status   st2 == jobs'[j].status
             n == jobs[j].attempts  n2 == jobs'[j].attempts
         IN \/ st2 = st /\ n2 = n
            \/ st = "absent" /\ st2 = "queued" /\ n2 = 0
            \/ st \in Waiting /\ n < MaxAttempts[j] /\ st2 = "running" /\ n2 = n + 1
            \/ st = "running" /\ st2 \in Terminal /\ n2 = n
            \/ st = "running" /\ n < MaxAttempts[j] /\ st2 = "retry_scheduled" /\ n2 = n
<1>1. CASE /\ jobs[j].status = "absent"
           /\ \E at \in Int : jobs'[j] = NewRow("queued", at)
  BY <1>1 DEF NewRow
<1>2. CASE /\ jobs[j].status \in Waiting
           /\ \E w \in Worker, at \in Int : jobs'[j] = ClaimedRow(jobs[j], w, at)
  <2>1. jobs'[j].status = "running" /\ jobs'[j].attempts = jobs[j].attempts + 1
    BY <1>2, ClaimedRowFacts
  <2>. QED
    BY <1>2, <2>1 DEF RowOK
<1>3. CASE /\ jobs[j].status = "running"
           /\ \E at \in Int : jobs'[j] = RenewedRow(jobs[j], at)
  BY <1>3 DEF RenewedRow, Row
<1>4. CASE /\ jobs[j].status = "running"
           /\ \E n \in Nat : jobs'[j] = SucceededRow(jobs[j], n)
  BY <1>4 DEF SucceededRow, Terminal
<1>5. CASE /\ jobs[j].status = "running"
           /\ \/ \E at \in Int, e \in ErrorKind :
                   jobs'[j] = FailedRow(jobs[j], MaxAttempts[j], at, e)
              \/ \E at \in Int : jobs'[j] = RecoveredRow(jobs[j], MaxAttempts[j], at)
  <2>1. jobs[j].attempts \in 1..MaxAttempts[j]
    BY <1>5, JobAssumption DEF RowOK, Row
  <2>2. /\ jobs'[j].attempts = jobs[j].attempts
        /\ \/ jobs'[j].status = "retry_scheduled" /\ jobs'[j].attempts < MaxAttempts[j]
           \/ jobs'[j].status = "dead_lettered"
    BY <1>5, <2>1, FailedRowFacts, RecoveredRowFacts
  <2>. QED
    BY <1>5, <2>2 DEF Terminal
<1>. QED
  BY <1>1, <1>2, <1>3, <1>4, <1>5 DEF RowMove

\* A step of the queue is a step of the lifecycle, or one no client sees.
Follows == [Lifecycle!Next]_<<StatusOf, AttemptsOf>>

\* The two columns of the lifecycle, before and after a step.
LEMMA Columns ==
  ASSUME jobs \in [Job -> Row]
  PROVE  /\ StatusOf = [j \in Job |-> jobs[j].status]
         /\ AttemptsOf = [j \in Job |-> jobs[j].attempts]
         /\ StatusOf' = [j \in Job |-> jobs'[j].status]
         /\ AttemptsOf' = [j \in Job |-> jobs'[j].attempts]
         /\ \A j \in Job : jobs[j].status \in JobStatus /\ jobs[j].attempts \in Nat
  BY DEF StatusOf, AttemptsOf, Row

\* A step in which one row moves and the others stay.
LEMMA OneRowFollows ==
  ASSUME IInv, RowsMove, NEW j \in Job, \A k \in Job \ {j} : jobs'[k] = jobs[k]
  PROVE  Follows
<1>1. RowMove(j) /\ jobs \in [Job -> Row] /\ jobs[j] \in Row /\ RowOK(j)
  BY DEF IInv, TypeOK, RowsMove
<1>2. /\ StatusOf' = [StatusOf EXCEPT ![j] = jobs'[j].status]
      /\ AttemptsOf' = [AttemptsOf EXCEPT ![j] = jobs'[j].attempts]
  BY <1>1, Columns
<1>3. StatusOf[j] = jobs[j].status /\ AttemptsOf[j] = jobs[j].attempts
  BY <1>1, Columns
<1>4. CASE jobs'[j].status = jobs[j].status /\ jobs'[j].attempts = jobs[j].attempts
  <2>1. StatusOf' = StatusOf /\ AttemptsOf' = AttemptsOf
    BY <1>1, <1>2, <1>4, Columns
  <2>. QED
    BY <2>1 DEF Follows
<1>5. CASE jobs[j].status = "absent" /\ jobs'[j].status = "queued" /\ jobs'[j].attempts = 0
  <2>1. Lifecycle!Submit(j)
    BY <1>2, <1>3, <1>5 DEF Lifecycle!Submit, Lifecycle!Update
  <2>. QED
    BY <2>1 DEF Follows, Lifecycle!Next
<1>6. CASE /\ jobs[j].status \in Waiting /\ jobs[j].attempts < MaxAttempts[j]
           /\ jobs'[j].status = "running" /\ jobs'[j].attempts = jobs[j].attempts + 1
  <2>1. Lifecycle!Attempt(j)
    BY <1>2, <1>3, <1>6 DEF Lifecycle!Attempt, Lifecycle!Update, Waiting
  <2>. QED
    BY <2>1 DEF Follows, Lifecycle!Next
<1>7. CASE /\ jobs[j].status = "running" /\ jobs'[j].status \in Terminal
           /\ jobs'[j].attempts = jobs[j].attempts
  <2>1. Lifecycle!Succeed(j) \/ Lifecycle!GiveUp(j)
    BY <1>2, <1>3, <1>7 DEF Lifecycle!Succeed, Lifecycle!GiveUp, Lifecycle!Update, Terminal
  <2>. QED
    BY <2>1 DEF Follows, Lifecycle!Next
<1>8. CASE /\ jobs[j].status = "running" /\ jobs[j].attempts < MaxAttempts[j]
           /\ jobs'[j].status = "retry_scheduled" /\ jobs'[j].attempts = jobs[j].attempts
  <2>1. Lifecycle!Retry(j)
    BY <1>2, <1>3, <1>8 DEF Lifecycle!Retry, Lifecycle!Update
  <2>. QED
    BY <2>1 DEF Follows, Lifecycle!Next
<1>. QED
  BY <1>1, <1>4, <1>5, <1>6, <1>7, <1>8, ClientSees

\* A step that leaves the table alone.
LEMMA NoRowFollows ==
  ASSUME UNCHANGED jobs
  PROVE  Follows
  BY DEF Follows, StatusOf, AttemptsOf

\* A statement of a slot updates the row of its job only.
LEMMA SlotWritesFollow ==
  ASSUME IInv, NEW s \in Slot,
         \/ slots[s].pc = "locked" /\ ClaimWrites(s)
         \/ slots[s].pc = "succeeding" /\ SucceededWrites(s)
         \/ slots[s].pc = "failing" /\ FailedWrites(s)
         \/ beats[s].pc = "renewing" /\ RenewWrites(s)
  PROVE  Follows
<1>1. slots[s].job \in Job /\ jobs \in [Job -> Row]
  BY DEF IInv, TypeOK, SlotOK, Busy
<1>2. RowsMove
  BY Writes DEF RowsKept
<1>3. \A k \in Job \ {slots[s].job} : jobs'[k] = jobs[k]
  BY <1>1 DEF ClaimWrites, SucceededWrites, FailedWrites, RenewWrites
<1>. QED
  BY <1>1, <1>2, <1>3, OneRowFollows

\* A recovery transaction ends the attempts of all the rows it takes.
LEMMA RecoveryFollows ==
  ASSUME IInv, NEW w \in Worker, RecoverWrites(w)
  PROVE  Follows
<1>1. /\ jobs \in [Job -> Row] /\ \A j \in Job : RowOK(j)
      /\ recovery[w].at \in Int
  BY Times DEF IInv, TypeOK
<1>2. PICK rows \in SUBSET {j \in Job : jobs[j].status = "running"}, at \in Int :
        jobs' = [j \in Job |-> IF j \in rows
                               THEN RecoveredRow(jobs[j], MaxAttempts[j], at)
                               ELSE jobs[j]]
  <2>1. PICK skipped \in SUBSET BusyRows :
          jobs' = [j \in Job |->
                     IF j \in Recoverable(recovery[w].at, skipped)
                     THEN RecoveredRow(jobs[j], MaxAttempts[j], recovery[w].at)
                     ELSE jobs[j]]
    BY DEF RecoverWrites
  <2>2. Recoverable(recovery[w].at, skipped) \subseteq {j \in Job : jobs[j].status = "running"}
    BY DEF Recoverable, Stale
  <2>. QED
    BY <1>1, <2>1, <2>2
<1>3. ASSUME NEW j \in Job
      PROVE  /\ jobs'[j].attempts = jobs[j].attempts
             /\ jobs'[j].status = IF j \notin rows THEN jobs[j].status
                                  ELSE IF jobs[j].attempts < MaxAttempts[j]
                                  THEN "retry_scheduled" ELSE "dead_lettered"
  <2>1. CASE j \notin rows
    BY <1>2, <2>1
  <2>2. CASE j \in rows
    <3>1. jobs[j].attempts \in 1..MaxAttempts[j] /\ jobs[j] \in Row
      BY <1>1, <2>2, JobAssumption DEF RowOK, Row
    <3>2. jobs'[j] = RecoveredRow(jobs[j], MaxAttempts[j], at)
      BY <1>2, <2>2
    <3>. QED
      BY <2>2, <3>1, <3>2, RecoveredRowFacts, JobAssumption
  <2>. QED
    BY <2>1, <2>2
<1>4. AttemptsOf' = AttemptsOf
  BY <1>1, <1>3, Columns
<1>5. rows \subseteq {j \in Job : StatusOf[j] = "running"}
  BY <1>1, <1>2, Columns
<1>6. StatusOf' = [j \in Job |-> IF j \notin rows THEN StatusOf[j]
                                 ELSE IF AttemptsOf[j] < MaxAttempts[j]
                                 THEN "retry_scheduled" ELSE "dead_lettered"]
  BY <1>1, <1>3, Columns
<1>7. Lifecycle!RecoverAll
  BY <1>4, <1>5, <1>6 DEF Lifecycle!RecoverAll
<1>. QED
  BY <1>7 DEF Follows, Lifecycle!Next

\* Each action maps to an action of the lifecycle or to a stutter.
LEMMA StepFollows ==
  ASSUME IInv, [Next]_vars
  PROVE  Follows
<1>1. CASE \E j \in Job : Submit(j)
  <2>1. PICK j \in Job : Submit(j)
    BY <1>1
  <2>2. \A k \in Job \ {j} : jobs'[k] = jobs[k]
    BY <2>1 DEF Submit, IInv, TypeOK
  <2>. QED
    BY <2>1, <2>2, SubmitRows, OneRowFollows DEF RowsKept
<1>2. ASSUME NEW s \in Slot, SlotNext(s) PROVE Follows
  <2>1. CASE ClaimCommit(s) \/ ClaimError(s)
    BY <2>1, NoRowFollows, SlotWritesFollow DEF ClaimCommit, ClaimError
  <2>2. CASE MarkSucceeded(s) \/ MarkSucceededError(s)
    BY <2>2, NoRowFollows, SlotWritesFollow DEF MarkSucceeded, MarkSucceededError
  <2>3. CASE MarkFailed(s) \/ MarkFailedError(s)
    BY <2>3, NoRowFollows, SlotWritesFollow DEF MarkFailed, MarkFailedError
  <2>4. CASE RenewLease(s) \/ RenewError(s)
    BY <2>4, NoRowFollows, SlotWritesFollow DEF RenewLease, RenewError
  <2>5. CASE \/ ClaimStart(s) \/ ClaimSelect(s) \/ ClaimNothing(s) \/ SlotStop(s)
             \/ HandlerReturns(s) \/ HandlerRaises(s) \/ Finish(s) \/ Beat(s)
    BY <2>5, NoRowFollows DEF ClaimStart, ClaimSelect, ClaimNothing, SlotStop,
                              HandlerReturns, HandlerRaises, Finish, Beat
  <2>. QED
    BY <1>2, <2>1, <2>2, <2>3, <2>4, <2>5 DEF SlotNext
<1>3. ASSUME NEW w \in Worker, WorkerNext(w) PROVE Follows
  <2>1. CASE RecoverStaleJobs(w)
    BY <2>1, RecoveryFollows DEF RecoverStaleJobs
  <2>2. CASE ~RecoverStaleJobs(w)
    BY <1>3, <2>2, NoRowFollows DEF WorkerNext, Start, RequestStop, Crash, RecoverStart,
                                    RecoverError, RecoveryStop
  <2>. QED
    BY <2>1, <2>2
<1>. QED
  BY <1>1, <1>2, <1>3, NoRowFollows DEF Next, Tick, vars

\* The queue implements the safety part of JobLifecycle: whatever claims,
\* reports, heartbeats, recoveries and crashes of any number of workers do to
\* the table, clients see each job follow its life, one attempt after another.
THEOREM QueueFollowsLifecycle == Spec => FollowsLifecycle
<1>1. Init => Lifecycle!Init
  BY DEF Init, Lifecycle!Init, StatusOf, AttemptsOf, NewRow
<1>2. IInv /\ [Next]_vars => [Lifecycle!Next]_<<StatusOf, AttemptsOf>>
  BY StepFollows DEF Follows
<1>. QED
  BY <1>1, <1>2, Invariance, PTL DEF Spec, FollowsLifecycle, Lifecycle!Safety

-----------------------------------------------------------------------------
(* One slot for each worker id                                             *)
(*                                                                         *)
(* What the ownership fence of queue.py (status, worker_id, lease) gives   *)
(* when every worker runs one slot (worker_concurrency = 1): a report can  *)
(* only touch the row of the attempt it is about.  With two slots in one   *)
(* worker TLC refutes it, so the assumption cannot be dropped.             *)

\* worker_concurrency = 1: no two slots share a worker id.
SingleSlot == \A s, t \in Slot : WorkerOf[s] = WorkerOf[t] => s = t

\* The slot of the worker that owns a running row is at the row's attempt.
OwnerCurrent ==
  \A s \in Slot :
    /\ slots[s].pc \in Busy
    /\ jobs[slots[s].job].status = "running"
    /\ jobs[slots[s].job].worker = WorkerOf[s]
    => slots[s].attempt = jobs[slots[s].job].attempts

OInv == IInv /\ OwnerCurrent /\ ResultOfLastAttempt

-----------------------------------------------------------------------------
\* A row that is running after the step was running before, for the same
\* worker and attempt; a new result is the one of the row's last attempt.
Held(j) ==
  /\ jobs'[j].status = "running" =>
       /\ jobs[j].status = "running" /\ jobs'[j].worker = jobs[j].worker
       /\ jobs'[j].attempts = jobs[j].attempts
  /\ jobs'[j].status = "succeeded" =>
       jobs'[j] = jobs[j] \/ jobs'[j].result = jobs'[j].attempts

\* A slot that is busy after the step was busy with the same attempt before.
SlotHeld(s) ==
  slots'[s].pc \in Busy =>
    /\ slots[s].pc \in Busy /\ slots'[s].job = slots[s].job
    /\ slots'[s].attempt = slots[s].attempt

\* Steps that start no attempt keep the ownership invariant.
LEMMA HeldStep ==
  ASSUME OInv, IInv', \A j \in Job : Held(j), \A s \in Slot : SlotHeld(s)
  PROVE  OInv'
<1>1. OwnerCurrent'
  <2> SUFFICES ASSUME NEW s \in Slot, slots'[s].pc \in Busy,
                      jobs'[slots'[s].job].status = "running",
                      jobs'[slots'[s].job].worker = WorkerOf[s]
               PROVE  slots'[s].attempt = jobs'[slots'[s].job].attempts
    BY DEF OwnerCurrent
  <2>1. /\ slots[s].pc \in Busy /\ slots'[s].job = slots[s].job
        /\ slots'[s].attempt = slots[s].attempt /\ slots[s].job \in Job
    BY DEF SlotHeld, OInv, IInv, SlotOK
  <2>. QED
    BY <2>1 DEF Held, OInv, OwnerCurrent
<1>2. ResultOfLastAttempt'
  BY DEF OInv, ResultOfLastAttempt, Held
<1>. QED
  BY <1>1, <1>2 DEF OInv

\* The report of a late attempt, or of one whose worker lost the row, does not
\* pass the WHERE clause of mark_succeeded and mark_failed.
LEMMA LateIsFenced ==
  ASSUME OInv, NEW s \in Slot, ReportsLate(s), NEW at \in Int
  PROVE  ~Owned(slots[s].job, WorkerOf[s], at)
  BY DEF OInv, OwnerCurrent, ReportsLate, Owned, Busy

\* Rows that do not change are held.
LEMMA SameHeld ==
  ASSUME UNCHANGED jobs
  PROVE  \A j \in Job : Held(j)
  BY DEF Held

\* The reports and heartbeats of a slot hold every row.
LEMMA ReportsHold ==
  ASSUME OInv, NEW s \in Slot, NEW j \in Job
  PROVE  /\ slots[s].pc = "succeeding" /\ SucceededWrites(s) => Held(j)
         /\ slots[s].pc = "failing" /\ FailedWrites(s) => Held(j)
         /\ beats[s].pc = "renewing" /\ RenewWrites(s) => Held(j)
<1> DEFINE k == slots[s].job  w == WorkerOf[s]
<1>0. /\ jobs \in [Job -> Row] /\ SlotOK(s) /\ slots[s].at \in Int
      /\ slots[s].attempt \in Nat
  BY Times DEF OInv, IInv, TypeOK
<1>1. ASSUME slots[s].pc = "succeeding", SucceededWrites(s) PROVE Held(j)
  <2>1. k \in Job
    BY <1>0, <1>1 DEF SlotOK, Busy
  <2>2. CASE UNCHANGED jobs
    BY <2>2, SameHeld
  <2>3. CASE /\ Owned(k, w, slots[s].at)
             /\ jobs' = [jobs EXCEPT ![k] = SucceededRow(jobs[k], slots[s].attempt)]
    <3>1. slots[s].attempt = jobs[k].attempts
      BY <1>1, <2>3 DEF OInv, OwnerCurrent, Owned, Busy
    <3>. QED
      BY <1>0, <2>1, <2>3, <3>1 DEF Held, SucceededRow
  <2>. QED
    BY <1>1, <2>2, <2>3 DEF SucceededWrites
<1>2. ASSUME slots[s].pc = "failing", FailedWrites(s) PROVE Held(j)
  <2>1. k \in Job
    BY <1>0, <1>2 DEF SlotOK, Busy
  <2>2. CASE UNCHANGED jobs
    BY <2>2, SameHeld
  <2>3. CASE jobs' = [jobs EXCEPT ![k] = FailedRow(jobs[k], MaxAttempts[k],
                                                   slots[s].at, slots[s].error)]
    <3>1. FailedRow(jobs[k], MaxAttempts[k], slots[s].at, slots[s].error).status
            \in {"retry_scheduled", "dead_lettered"}
      BY DEF FailedRow, RetryRow, DeadRow
    <3>. QED
      BY <1>0, <2>1, <2>3, <3>1 DEF Held
  <2>. QED
    BY <1>2, <2>2, <2>3 DEF FailedWrites
<1>3. ASSUME beats[s].pc = "renewing", RenewWrites(s) PROVE Held(j)
  <2>1. k \in Job
    BY <1>0, <1>3 DEF SlotOK
  <2>2. CASE UNCHANGED jobs
    BY <2>2, SameHeld
  <2>3. CASE /\ Owned(k, w, beats[s].at)
             /\ jobs' = [jobs EXCEPT ![k] = RenewedRow(jobs[k], beats[s].at)]
    <3>1. /\ RenewedRow(jobs[k], beats[s].at).status = "running"
          /\ RenewedRow(jobs[k], beats[s].at).worker = jobs[k].worker
          /\ RenewedRow(jobs[k], beats[s].at).attempts = jobs[k].attempts
      BY <1>0, <2>1, <2>3 DEF RenewedRow, Owned, Row
    <3>. QED
      BY <1>0, <2>1, <2>3, <3>1 DEF Held, Owned
  <2>. QED
    BY <1>3, <2>2, <2>3 DEF RenewWrites
<1>. QED
  BY <1>1, <1>2, <1>3

\* So does a recovery transaction.
LEMMA RecoveryHolds ==
  ASSUME OInv, NEW w \in Worker, RecoverWrites(w)
  PROVE  \A j \in Job : Held(j)
<1>1. PICK skipped \in SUBSET BusyRows :
        jobs' = [j \in Job |->
                   IF j \in Recoverable(recovery[w].at, skipped)
                   THEN RecoveredRow(jobs[j], MaxAttempts[j], recovery[w].at)
                   ELSE jobs[j]]
  BY DEF RecoverWrites
<1>2. \A j \in Job :
        RecoveredRow(jobs[j], MaxAttempts[j], recovery[w].at).status
          \in {"retry_scheduled", "dead_lettered"}
  BY DEF RecoveredRow, RetryRow, DeadRow
<1>. QED
  BY <1>1, <1>2 DEF Held

\* A claim starts the newest attempt of its row; the only slot of its worker
\* either runs it or has lost the reply and runs nothing.
LEMMA ClaimOwns ==
  ASSUME OInv, IInv', SingleSlot, NEW s \in Slot,
         slots[s].pc = "locked", ClaimWrites(s),
         \A t \in Slot \ {s} : slots'[t] = slots[t],
         slots'[s].pc \in Busy =>
           /\ slots'[s].job = slots[s].job
           /\ slots'[s].attempt = jobs[slots[s].job].attempts + 1
  PROVE  OInv'
<1> DEFINE k == slots[s].job
           row == ClaimedRow(jobs[k], WorkerOf[s], slots[s].at)
<1>0. /\ k \in Job /\ jobs \in [Job -> Row]
      /\ \A t \in Slot : SlotOK(t)
      /\ WorkerOf[s] \in Worker /\ slots[s].at \in Int
  BY Times DEF OInv, IInv, TypeOK, SlotOK
<1>1. /\ jobs'[k] = row
      /\ \A j \in Job \ {k} : jobs'[j] = jobs[j]
  BY <1>0 DEF ClaimWrites
<1>2. /\ row.status = "running" /\ row.worker = WorkerOf[s]
      /\ row.attempts = jobs[k].attempts + 1
  BY <1>0, ClaimedRowFacts
<1>3. OwnerCurrent'
  <2> SUFFICES ASSUME NEW t \in Slot, slots'[t].pc \in Busy,
                      jobs'[slots'[t].job].status = "running",
                      jobs'[slots'[t].job].worker = WorkerOf[t]
               PROVE  slots'[t].attempt = jobs'[slots'[t].job].attempts
    BY DEF OwnerCurrent
  <2>1. CASE t = s
    BY <1>1, <1>2, <2>1
  <2>2. CASE t # s
    <3>1. slots'[t] = slots[t] /\ slots[t].job \in Job
      BY <1>0, <2>2 DEF SlotOK
    <3>2. slots[t].job # k
      BY <1>1, <1>2, <2>2, <3>1 DEF SingleSlot
    <3>. QED
      BY <1>1, <3>1, <3>2 DEF OInv, OwnerCurrent
  <2>. QED
    BY <2>1, <2>2
<1>4. ResultOfLastAttempt'
  BY <1>1, <1>2 DEF OInv, ResultOfLastAttempt
<1>. QED
  BY <1>3, <1>4 DEF OInv

\* A step of slot s that starts no attempt and only moves s within its job.
LEMMA QuietSlot ==
  ASSUME OInv, IInv', NEW s \in Slot, \A j \in Job : Held(j),
         \/ slots' = slots
         \/ \E slot \in SlotState :
              /\ slots' = [slots EXCEPT ![s] = slot]
              /\ slot.pc \in Busy =>
                   /\ slots[s].pc \in Busy /\ slot.job = slots[s].job
                   /\ slot.attempt = slots[s].attempt
  PROVE  OInv'
<1>1. slots \in [Slot -> SlotState]
  BY DEF OInv, IInv, TypeOK
<1>2. \A t \in Slot : SlotHeld(t)
  BY <1>1 DEF SlotHeld
<1>. QED
  BY <1>2, HeldStep

\* Every step of a slot keeps the ownership invariant.
LEMMA OwnSlotStep ==
  ASSUME OInv, IInv', SingleSlot, NEW s \in Slot, SlotNext(s)
  PROVE  OInv'
<1> DEFINE w == WorkerOf[s]
<1>0. /\ slots \in [Slot -> SlotState] /\ slots' \in [Slot -> SlotState]
      /\ Clock(w) \in Int /\ slots[s] \in SlotState
  BY SlotAssumption, Times DEF OInv, IInv, TypeOK
<1>1. CASE ClaimCommit(s)
  <2>1. /\ slots[s].pc = "locked" /\ ClaimWrites(s)
        /\ \A t \in Slot \ {s} : slots'[t] = slots[t]
        /\ slots'[s].job = slots[s].job
        /\ slots'[s].attempt = jobs[slots[s].job].attempts + 1
    BY <1>0, <1>1 DEF ClaimCommit, Work
  <2>. QED
    BY <2>1, ClaimOwns
<1>2. CASE ClaimError(s)
  <2>1. /\ slots' = [slots EXCEPT ![s] = IdleSlot]
        /\ IdleSlot \in SlotState /\ IdleSlot.pc \notin Busy
    BY <1>0, <1>2 DEF ClaimError, IdleSlot, FreeSlot, SlotState, SlotPc, Busy
  <2>2. CASE UNCHANGED jobs
    BY <2>1, <2>2, SameHeld, QuietSlot
  <2>3. CASE slots[s].pc = "locked" /\ ClaimWrites(s)
    <3>1. /\ \A t \in Slot \ {s} : slots'[t] = slots[t]
          /\ slots'[s].pc \notin Busy
      BY <1>0, <2>1
    <3>. QED
      BY <2>3, <3>1, ClaimOwns
  <2>. QED
    BY <1>2, <2>2, <2>3 DEF ClaimError
<1>3. CASE ClaimStart(s) \/ ClaimNothing(s) \/ SlotStop(s) \/ Finish(s)
  <2>1. PICK pc \in {"idle", "claiming", "stopped"}, at \in Int :
          slots' = [slots EXCEPT ![s] = FreeSlot(pc, at)]
    BY <1>0, <1>3 DEF ClaimStart, ClaimNothing, SlotStop, Finish, IdleSlot
  <2>2. FreeSlot(pc, at) \in SlotState /\ FreeSlot(pc, at).pc \notin Busy
    BY <2>1 DEF FreeSlot, SlotState, SlotPc, Busy
  <2>3. UNCHANGED jobs
    BY <1>3 DEF ClaimStart, ClaimNothing, SlotStop, Finish
  <2>. QED
    BY <2>1, <2>2, <2>3, SameHeld, QuietSlot
<1>4. CASE ClaimSelect(s)
  <2>1. PICK j \in Job : Work(s, "locked", j, 0, slots[s].at, None)
    BY <1>4 DEF ClaimSelect, Claimable
  <2> DEFINE slot == [pc |-> "locked", job |-> j, attempt |-> 0,
                      at |-> slots[s].at, error |-> None]
  <2>2. slot \in SlotState /\ slot.pc \notin Busy
    BY <1>0 DEF SlotState, SlotPc, Busy
  <2>3. slots' = [slots EXCEPT ![s] = slot] /\ UNCHANGED jobs
    BY <1>4, <2>1 DEF Work, ClaimSelect
  <2>. QED
    BY <2>2, <2>3, SameHeld, QuietSlot
<1>5. ASSUME slots[s].pc \in Busy, \A j \in Job : Held(j),
             NEW pc \in Busy, NEW at \in Int, NEW e \in ErrorKind \cup {None},
             Work(s, pc, slots[s].job, slots[s].attempt, at, e)
      PROVE  OInv'
  <2> DEFINE slot == [pc |-> pc, job |-> slots[s].job,
                      attempt |-> slots[s].attempt, at |-> at, error |-> e]
  <2>1. slot \in SlotState
    BY <1>0 DEF SlotState, SlotPc
  <2>2. slots' = [slots EXCEPT ![s] = slot]
    BY <1>5 DEF Work
  <2>. QED
    BY <1>5, <2>1, <2>2, QuietSlot
<1>6. CASE HandlerReturns(s) \/ HandlerRaises(s)
  BY <1>0, <1>5, <1>6, SameHeld
     DEF HandlerReturns, HandlerRaises, ReportFailure, Busy, ErrorKind
<1>7. CASE MarkSucceeded(s) \/ MarkSucceededError(s)
  <2>1. slots[s].pc = "succeeding" /\ \A j \in Job : Held(j)
    BY <1>7, SameHeld, ReportsHold DEF MarkSucceeded, MarkSucceededError
  <2>. QED
    BY <1>0, <1>5, <1>7, <2>1
       DEF MarkSucceeded, MarkSucceededError, Finishing, ReportFailure, Busy, ErrorKind
<1>8. CASE MarkFailed(s) \/ MarkFailedError(s)
  <2>1. slots[s].pc = "failing" /\ \A j \in Job : Held(j)
    BY <1>8, SameHeld, ReportsHold DEF MarkFailed, MarkFailedError
  <2>. QED
    BY <1>0, <1>5, <1>8, <2>1 DEF MarkFailed, MarkFailedError, Finishing, Busy
<1>9. CASE Beat(s) \/ RenewLease(s) \/ RenewError(s)
  <2>1. slots' = slots /\ \A j \in Job : Held(j)
    BY <1>9, SameHeld, ReportsHold DEF Beat, RenewLease, RenewError
  <2>. QED
    BY <2>1, QuietSlot
<1>. QED
  BY <1>1, <1>2, <1>3, <1>4, <1>6, <1>7, <1>8, <1>9 DEF SlotNext

\* The ownership invariant is inductive when workers run one slot.
LEMMA OInductive == SingleSlot /\ OInv /\ [Next]_vars => OInv'
<1> SUFFICES ASSUME SingleSlot, OInv, [Next]_vars PROVE OInv'
  OBVIOUS
<1>0. IInv'
  BY Inductive DEF OInv
<1>1. CASE \E j \in Job : Submit(j)
  <2>1. PICK j \in Job : Submit(j)
    BY <1>1
  <2>2. /\ slots' = slots /\ jobs \in [Job -> Row]
        /\ jobs' = [jobs EXCEPT ![j] = NewRow("queued", now)]
    BY <2>1 DEF Submit, OInv, IInv, TypeOK
  <2>3. \A k \in Job : Held(k)
    BY <2>2 DEF Held, NewRow
  <2>4. \A s \in Slot : SlotHeld(s)
    BY <2>2 DEF SlotHeld
  <2>. QED
    BY <1>0, <2>3, <2>4, HeldStep
<1>2. CASE \E s \in Slot : SlotNext(s)
  BY <1>0, <1>2, OwnSlotStep
<1>3. ASSUME NEW w \in Worker, WorkerNext(w) PROVE OInv'
  <2>1. \A j \in Job : Held(j)
    <3>1. CASE RecoverStaleJobs(w)
      BY <3>1, RecoveryHolds DEF RecoverStaleJobs
    <3>2. CASE ~RecoverStaleJobs(w)
      BY <1>3, <3>2, SameHeld DEF WorkerNext, Start, RequestStop, Crash,
                                  RecoverStart, RecoverError, RecoveryStop
    <3>. QED
      BY <3>1, <3>2
  <2>2. \A s \in Slot : SlotHeld(s)
    <3>1. CASE Crash(w)
      BY <3>1 DEF Crash, SlotHeld, FreeSlot, Busy
    <3>2. CASE ~Crash(w)
      BY <1>3, <3>2 DEF WorkerNext, Start, RequestStop, RecoverStart,
                        RecoverStaleJobs, RecoverError, RecoveryStop, SlotHeld
    <3>. QED
      BY <3>1, <3>2
  <2>. QED
    BY <1>0, <2>1, <2>2, HeldStep
<1>4. CASE Tick \/ UNCHANGED vars
  <2>1. UNCHANGED <<jobs, slots>>
    BY <1>4 DEF Tick, vars
  <2>2. \A s \in Slot : SlotHeld(s)
    BY <2>1 DEF SlotHeld
  <2>. QED
    BY <1>0, <2>1, <2>2, SameHeld, HeldStep
<1>. QED
  BY <1>1, <1>2, <1>3, <1>4 DEF Next

\* It holds before any worker started.
LEMMA OInitially == Init => OInv
<1> SUFFICES ASSUME Init PROVE OInv
  OBVIOUS
<1>1. OwnerCurrent /\ ResultOfLastAttempt
  BY DEF Init, OwnerCurrent, ResultOfLastAttempt, IdleSlot, FreeSlot, NewRow, Busy
<1>. QED
  BY <1>1, Initially DEF OInv

\* And so in every reachable state.
LEMMA Ownership ==
  ASSUME SingleSlot
  PROVE  Spec => []OInv
<1>1. OInv /\ [Next]_vars => OInv'
  BY OInductive
<1>. QED
  BY <1>1, OInitially, PTL DEF Spec

-----------------------------------------------------------------------------
\* With one slot per worker, the stored result of a succeeded job is the one
\* its last attempt computed, for any number of workers, any skew of their
\* clocks and any delay of their statements.
THEOREM ResultsAreOfTheLastAttempt ==
  ASSUME SingleSlot
  PROVE  Spec => []ResultOfLastAttempt
<1>1. OInv => ResultOfLastAttempt
  BY DEF OInv
<1>. QED
  BY <1>1, Ownership, PTL

\* With one slot per worker, the report of an attempt that was recovered or
\* superseded writes nothing (README.md: "Protection against result updates
\* from workers that lost ownership").
THEOREM LateReportsAreIgnored ==
  ASSUME SingleSlot
  PROVE  Spec => LateReportsIgnored
<1>1. ASSUME OInv, [Next]_vars, NEW s \in Slot, ReportsLate(s),
             slots'[s].pc # slots[s].pc
      PROVE  jobs' = jobs
  <2>0. /\ slots \in [Slot -> SlotState]
        /\ slots[s].pc \in {"succeeding", "failing"}
        /\ ~Owned(slots[s].job, WorkerOf[s], slots[s].at)
    BY <1>1, LateIsFenced, Times DEF OInv, IInv, TypeOK, ReportsLate
  <2>1. CASE \E j \in Job : Submit(j)
    BY <1>1, <2>1 DEF Submit
  <2>2. ASSUME NEW t \in Slot, SlotNext(t) PROVE jobs' = jobs
    <3>1. CASE t = s
      BY <1>1, <2>0, <2>2, <3>1
         DEF SlotNext, ClaimStart, ClaimSelect, ClaimNothing, ClaimCommit, ClaimError,
             SlotStop, HandlerReturns, HandlerRaises, MarkSucceeded,
             MarkSucceededError, MarkFailed, MarkFailedError, Finish, Beat,
             RenewLease, RenewError, SucceededWrites, FailedWrites
    <3>2. CASE t # s
      <4>1. slots'[s] = slots[s]
        BY <2>0, <2>2, <3>2
           DEF SlotNext, ClaimStart, ClaimSelect, ClaimNothing, ClaimCommit,
               ClaimError, SlotStop, HandlerReturns, HandlerRaises, MarkSucceeded,
               MarkSucceededError, MarkFailed, MarkFailedError, Finish, Beat,
               RenewLease, RenewError, Finishing, ReportFailure, Work
      <4>. QED
        BY <1>1, <4>1
    <3>. QED
      BY <3>1, <3>2
  <2>3. ASSUME NEW w \in Worker, WorkerNext(w) PROVE jobs' = jobs
    BY <1>1, <2>3 DEF WorkerNext, Start, RequestStop, Crash, RecoverStart,
                      RecoverStaleJobs, RecoverError, RecoveryStop
  <2>4. CASE Tick \/ UNCHANGED vars
    BY <2>4 DEF Tick, vars
  <2>. QED
    BY <1>1, <2>1, <2>2, <2>3, <2>4 DEF Next
<1>2. OInv /\ [Next]_vars =>
        [\A s \in Slot :
           ReportsLate(s) /\ slots'[s].pc # slots[s].pc => jobs' = jobs]_vars
  BY <1>1
<1>. QED
  BY <1>2, Ownership, PTL DEF Spec, LateReportsIgnored

-----------------------------------------------------------------------------
(* Leases                                                                  *)

\* The lease of a running row was set at an instant that its owner's clock has
\* passed.
LeaseOK(j) ==
  jobs[j].status = "running" =>
    /\ jobs[j].worker \in Worker /\ jobs[j].lease \in Int
    /\ jobs[j].lease <= Clock(jobs[j].worker) + Lease

\* A claim or a heartbeat in flight carries an instant of the past; the
\* heartbeat's is not older than the lease it is going to renew.
TimesOK(s) ==
  /\ slots[s].pc \in {"claiming", "locked"} => slots[s].at <= Clock(WorkerOf[s])
  /\ beats[s].pc = "renewing" =>
       /\ beats[s].at <= Clock(WorkerOf[s])
       /\ jobs[slots[s].job].status = "running" /\ jobs[slots[s].job].worker = WorkerOf[s]
          => jobs[slots[s].job].lease <= beats[s].at + Lease

LInv ==
  /\ IInv
  /\ \A j \in Job : LeaseOK(j)
  /\ \A s \in Slot : TimesOK(s)

\* A row that is running after the step keeps owner and lease, or gets them
\* from a worker that has no heartbeat in flight afterwards.
LeaseMove(j) ==
  jobs'[j].status = "running" =>
    \/ /\ jobs[j].status = "running" /\ jobs'[j].worker = jobs[j].worker
       /\ jobs'[j].lease = jobs[j].lease
    \/ /\ jobs'[j].worker \in Worker /\ jobs'[j].lease \in Int
       /\ jobs'[j].lease <= Clock(jobs'[j].worker) + Lease
       /\ \A s \in Slot : WorkerOf[s] = jobs'[j].worker => beats'[s].pc # "renewing"

\* Calls of the database that are in flight after the step were in flight
\* before, or read the clock in it.
TimesMove(s) ==
  /\ slots'[s].pc \in {"claiming", "locked"} =>
       \/ slots[s].pc \in {"claiming", "locked"} /\ slots'[s].at = slots[s].at
       \/ slots'[s].at = Clock(WorkerOf[s])
  /\ beats'[s].pc = "renewing" =>
       /\ slots'[s].job = slots[s].job /\ slots[s].job \in Job
       /\ beats'[s] = beats[s] \/ beats'[s].at = Clock(WorkerOf[s])

\* The instants that slots and heartbeats remember.
LEMMA Instants ==
  IInv => \A s \in Slot : WorkerOf[s] \in Worker /\ slots[s].at \in Int /\ beats[s].at \in Int
  BY Times DEF IInv

\* Such a step preserves the invariant.
LEMMA LeaseStep ==
  ASSUME LInv, IInv', \A j \in Job : LeaseMove(j), \A s \in Slot : TimesMove(s),
         now' \in {now, now + 1}
  PROVE  LInv'
<1>1. /\ now \in Nat /\ now' \in Nat /\ now <= now' /\ Lease \in Int
      /\ \A w \in Worker : Skew[w] \in Int
      /\ \A w \in Worker : Clock(w) \in Int /\ Clock(w)' \in Int /\ Clock(w) <= Clock(w)'
  BY Times, TimeAssumption DEF LInv, IInv, TypeOK, Clock
<1>2. \A s \in Slot : /\ WorkerOf[s] \in Worker
                      /\ slots'[s].at \in Int /\ beats'[s].at \in Int
                      /\ slots[s].at \in Int /\ beats[s].at \in Int
  <2>1. (IInv => \A s \in Slot :
                  WorkerOf[s] \in Worker /\ slots[s].at \in Int /\ beats[s].at \in Int)'
    BY Instants, PTL
  <2>. QED
    BY <2>1, Instants DEF LInv
<1>3. ASSUME NEW j \in Job PROVE LeaseOK(j)'
  BY <1>1 DEF LInv, LeaseOK, LeaseMove
<1>4. ASSUME NEW s \in Slot PROVE TimesOK(s)'
  <2>1. slots'[s].pc \in {"claiming", "locked"} => slots'[s].at <= Clock(WorkerOf[s])'
    BY <1>1, <1>2 DEF LInv, TimesOK, TimesMove
  <2>2. ASSUME beats'[s].pc = "renewing"
        PROVE  beats'[s].at <= Clock(WorkerOf[s])'
    BY <1>1, <1>2, <2>2 DEF LInv, TimesOK, TimesMove
  <2>3. ASSUME beats'[s].pc = "renewing", jobs'[slots'[s].job].status = "running",
               jobs'[slots'[s].job].worker = WorkerOf[s]
        PROVE  jobs'[slots'[s].job].lease <= beats'[s].at + Lease
    <3>1. /\ slots'[s].job = slots[s].job /\ slots[s].job \in Job
          /\ beats'[s] = beats[s] \/ beats'[s].at = Clock(WorkerOf[s])
      BY <2>3 DEF TimesMove
    <3>2. /\ jobs[slots[s].job].status = "running" /\ jobs[slots[s].job].worker = WorkerOf[s]
          /\ jobs'[slots[s].job].lease = jobs[slots[s].job].lease
      BY <2>3, <3>1 DEF LeaseMove
    <3>3. /\ jobs[slots[s].job].lease <= Clock(WorkerOf[s]) + Lease
          /\ beats[s].pc = "renewing" => jobs[slots[s].job].lease <= beats[s].at + Lease
      BY <3>1, <3>2 DEF LInv, LeaseOK, TimesOK
    <3>. QED
      BY <2>3, <3>1, <3>2, <3>3
  <2>. QED
    BY <2>1, <2>2, <2>3 DEF TimesOK
<1>. QED
  BY <1>3, <1>4 DEF LInv

\* A renewal happens to the row of a heartbeat, at the heartbeat's instant.
Renewal(j) ==
  \E s \in Slot :
    /\ beats[s].pc = "renewing" /\ slots[s].job = j
    /\ jobs[j].status = "running" /\ jobs[j].worker = WorkerOf[s]
    /\ jobs'[j].lease = beats[s].at + Lease

\* What one step may do to a lease: no row but that of a heartbeat in flight
\* is renewed.
Lawful(j) ==
  /\ LeaseMove(j)
  /\ jobs[j].status = "running" /\ jobs'[j].status = "running"
     /\ jobs'[j].attempts = jobs[j].attempts
     => jobs'[j].lease = jobs[j].lease \/ Renewal(j)

\* Rows that do not change, or change by anything but a claim and a renewal.
LEMMA KeptLawful ==
  ASSUME NEW j \in Job, jobs'[j] = jobs[j] \/ jobs'[j].status # "running"
  PROVE  Lawful(j)
  BY DEF Lawful, LeaseMove

\* A claim, whose slot has no heartbeat in flight.
LEMMA ClaimLawful ==
  ASSUME SingleSlot, LInv, NEW s \in Slot, slots[s].pc = "locked", ClaimWrites(s),
         beats'[s].pc # "renewing", NEW j \in Job
  PROVE  Lawful(j)
<1> DEFINE k == slots[s].job
<1>1. /\ k \in Job /\ jobs \in [Job -> Row] /\ jobs[k].status \in Waiting
      /\ WorkerOf[s] \in Worker /\ slots[s].at \in Int /\ slots[s].at <= Clock(WorkerOf[s])
      /\ Lease \in Int
  BY Times, TimeAssumption DEF LInv, IInv, TypeOK, SlotOK, TimesOK
<1>2. /\ jobs'[k] = ClaimedRow(jobs[k], WorkerOf[s], slots[s].at)
      /\ \A i \in Job \ {k} : jobs'[i] = jobs[i]
  BY <1>1 DEF ClaimWrites
<1>3. CASE j # k
  BY <1>2, <1>3, KeptLawful
<1>4. CASE j = k
  <2>1. jobs'[j].worker = WorkerOf[s] /\ jobs'[j].lease = slots[s].at + Lease
    BY <1>2, <1>4 DEF ClaimedRow
  <2>2. Clock(WorkerOf[s]) \in Int
    BY <1>1, Times DEF LInv, IInv
  <2>3. LeaseMove(j)
    BY <1>1, <2>1, <2>2 DEF LeaseMove, SingleSlot
  <2>4. jobs[j].status # "running"
    BY <1>1, <1>4 DEF Waiting
  <2>. QED
    BY <2>3, <2>4 DEF Lawful
<1>. QED
  BY <1>3, <1>4

\* A heartbeat, which is not in flight any more.
LEMMA RenewLawful ==
  ASSUME SingleSlot, LInv, NEW s \in Slot, beats[s].pc = "renewing", RenewWrites(s),
         beats'[s].pc # "renewing", NEW j \in Job
  PROVE  Lawful(j)
<1> DEFINE k == slots[s].job
<1>1. /\ k \in Job /\ jobs \in [Job -> Row] /\ Lease \in Int
      /\ WorkerOf[s] \in Worker /\ beats[s].at \in Int /\ beats[s].at <= Clock(WorkerOf[s])
  BY Times, TimeAssumption DEF LInv, IInv, TypeOK, SlotOK, TimesOK
<1>2. CASE UNCHANGED jobs
  BY <1>2, KeptLawful
<1>3. CASE /\ Owned(k, WorkerOf[s], beats[s].at)
           /\ jobs' = [jobs EXCEPT ![k] = RenewedRow(jobs[k], beats[s].at)]
  <2>1. CASE j # k
    BY <1>1, <1>3, <2>1, KeptLawful
  <2>2. CASE j = k
    <3>1. jobs'[j].worker = WorkerOf[s] /\ jobs'[j].lease = beats[s].at + Lease
      BY <1>1, <1>3, <2>2 DEF RenewedRow, Row, Owned
    <3>2. Clock(WorkerOf[s]) \in Int
      BY <1>1, Times DEF LInv, IInv
    <3>3. LeaseMove(j)
      BY <1>1, <3>1, <3>2 DEF LeaseMove, SingleSlot
    <3>4. Renewal(j)
      BY <1>3, <2>2, <3>1 DEF Renewal, Owned
    <3>. QED
      BY <3>3, <3>4 DEF Lawful
  <2>. QED
    BY <2>1, <2>2
<1>. QED
  BY <1>2, <1>3 DEF RenewWrites

\* Every step of a slot changes leases lawfully.
LEMMA SlotLawful ==
  ASSUME SingleSlot, LInv, NEW s \in Slot, SlotNext(s), NEW j \in Job
  PROVE  Lawful(j)
<1>0. /\ beats \in [Slot -> BeatState] /\ jobs \in [Job -> Row] /\ SlotOK(s)
  BY DEF LInv, IInv, TypeOK
<1>1. CASE UNCHANGED jobs
  BY <1>1, KeptLawful
<1>2. CASE slots[s].pc = "locked" /\ ClaimWrites(s) /\ (ClaimCommit(s) \/ ClaimError(s))
  <2>1. beats'[s].pc # "renewing"
    BY <1>0, <1>2 DEF ClaimCommit, ClaimError, SlotOK, Busy
  <2>. QED
    BY <1>2, <2>1, ClaimLawful
<1>3. CASE beats[s].pc = "renewing" /\ RenewWrites(s) /\ (RenewLease(s) \/ RenewError(s))
  <2>1. beats'[s].pc # "renewing"
    BY <1>0, <1>3 DEF RenewLease, RenewError
  <2>. QED
    BY <1>3, <2>1, RenewLawful
<1>4. CASE SucceededWrites(s) /\ slots[s].pc = "succeeding"
  <2>1. slots[s].job \in Job
    BY <1>0, <1>4 DEF SlotOK, Busy
  <2>2. jobs'[j] = jobs[j] \/ jobs'[j].status # "running"
    BY <1>0, <1>4, <2>1 DEF SucceededWrites, SucceededRow
  <2>. QED
    BY <2>2, KeptLawful
<1>5. CASE FailedWrites(s) /\ slots[s].pc = "failing"
  <2>1. slots[s].job \in Job
    BY <1>0, <1>5 DEF SlotOK, Busy
  <2>2. FailedRow(jobs[slots[s].job], MaxAttempts[slots[s].job],
                  slots[s].at, slots[s].error).status # "running"
    BY DEF FailedRow, RetryRow, DeadRow
  <2>3. jobs'[j] = jobs[j] \/ jobs'[j].status # "running"
    BY <1>0, <1>5, <2>1, <2>2 DEF FailedWrites
  <2>. QED
    BY <2>3, KeptLawful
<1>6. CASE ClaimCommit(s) \/ ClaimError(s)
  BY <1>1, <1>2, <1>6 DEF ClaimCommit, ClaimError
<1>7. CASE RenewLease(s) \/ RenewError(s)
  BY <1>1, <1>3, <1>7 DEF RenewLease, RenewError
<1>8. CASE MarkSucceeded(s) \/ MarkSucceededError(s)
  BY <1>1, <1>4, <1>8 DEF MarkSucceeded, MarkSucceededError
<1>9. CASE MarkFailed(s) \/ MarkFailedError(s)
  BY <1>1, <1>5, <1>9 DEF MarkFailed, MarkFailedError
<1>10. CASE \/ ClaimStart(s) \/ ClaimSelect(s) \/ ClaimNothing(s) \/ SlotStop(s)
            \/ HandlerReturns(s) \/ HandlerRaises(s) \/ Finish(s) \/ Beat(s)
  BY <1>1, <1>10 DEF ClaimStart, ClaimSelect, ClaimNothing, SlotStop,
                     HandlerReturns, HandlerRaises, Finish, Beat
<1>. QED
  BY <1>6, <1>7, <1>8, <1>9, <1>10 DEF SlotNext

\* So does every other step.
LEMMA StepLawful ==
  ASSUME SingleSlot, LInv, [Next]_vars, NEW j \in Job
  PROVE  Lawful(j)
<1>1. CASE UNCHANGED jobs
  BY <1>1, KeptLawful
<1>2. CASE \E k \in Job : Submit(k)
  <2>1. jobs'[j] = jobs[j] \/ jobs'[j].status # "running"
    BY <1>2 DEF Submit, NewRow, LInv, IInv, TypeOK
  <2>. QED
    BY <2>1, KeptLawful
<1>3. CASE \E w \in Worker : RecoverWrites(w)
  <2>1. \A at \in Int : RecoveredRow(jobs[j], MaxAttempts[j], at).status # "running"
    BY DEF RecoveredRow, RetryRow, DeadRow
  <2>2. jobs'[j] = jobs[j] \/ jobs'[j].status # "running"
    BY <1>3, <2>1, Times DEF RecoverWrites, LInv, IInv
  <2>. QED
    BY <2>2, KeptLawful
<1>4. ASSUME NEW w \in Worker, WorkerNext(w) PROVE Lawful(j)
  BY <1>1, <1>3, <1>4 DEF WorkerNext, Start, RequestStop, Crash, RecoverStart,
                          RecoverStaleJobs, RecoverError, RecoveryStop
<1>. QED
  BY <1>1, <1>2, <1>4, SlotLawful DEF Next, Tick, vars

\* The instants that the calls of slot s carry.
LEMMA SlotTimes ==
  ASSUME LInv, NEW s \in Slot, SlotNext(s), NEW t \in Slot
  PROVE  TimesMove(t)
<1>0. /\ slots \in [Slot -> SlotState] /\ beats \in [Slot -> BeatState] /\ SlotOK(t)
      /\ beats[t].pc = "renewing" => slots[t].job \in Job
  BY DEF LInv, IInv, TypeOK, SlotOK
<1>1. CASE slots'[t] = slots[t] /\ beats'[t] = beats[t]
  BY <1>0, <1>1 DEF TimesMove
<1>2. CASE t # s
  <2>1. slots'[t] = slots[t] /\ beats'[t] = beats[t]
    BY <1>0, <1>2 DEF SlotNext, ClaimStart, ClaimSelect, ClaimNothing, ClaimCommit, ClaimError,
       SlotStop, HandlerReturns, HandlerRaises, MarkSucceeded, MarkSucceededError,
       MarkFailed, MarkFailedError, Finish, Beat, RenewLease, RenewError, Finishing,
       ReportFailure, Work
  <2>. QED
    BY <1>1, <2>1
<1>3. CASE t = s
  <2>1. CASE ClaimStart(s)
    BY <1>0, <1>3, <2>1 DEF ClaimStart, FreeSlot, TimesMove, SlotOK, Busy
  <2>2. CASE ClaimSelect(s)
    BY <1>0, <1>3, <2>2 DEF ClaimSelect, Work, TimesMove, SlotOK, Busy
  <2>3. CASE ClaimNothing(s) \/ ClaimError(s) \/ SlotStop(s)
    BY <1>0, <1>3, <2>3
       DEF ClaimNothing, ClaimError, SlotStop, IdleSlot, FreeSlot, TimesMove, SlotOK, Busy
  <2>4. CASE ClaimCommit(s)
    BY <1>0, <1>3, <2>4 DEF ClaimCommit, Work, TimesMove
  <2>5. CASE HandlerReturns(s) \/ HandlerRaises(s)
    BY <1>0, <1>3, <2>5 DEF HandlerReturns, HandlerRaises, ReportFailure, Work, TimesMove
  <2>6. CASE MarkSucceeded(s) \/ MarkSucceededError(s)
    BY <1>0, <1>3, <2>6
       DEF MarkSucceeded, MarkSucceededError, Finishing, ReportFailure, Work, TimesMove
  <2>7. CASE MarkFailed(s) \/ MarkFailedError(s)
    BY <1>0, <1>3, <2>7 DEF MarkFailed, MarkFailedError, Finishing, Work, TimesMove
  <2>8. CASE Finish(s)
    BY <1>0, <1>3, <2>8 DEF Finish, IdleSlot, FreeSlot, NoBeat, TimesMove
  <2>9. CASE Beat(s)
    BY <1>0, <1>3, <2>9 DEF Beat, TimesMove, SlotOK, Busy
  <2>10. CASE RenewLease(s) \/ RenewError(s)
    BY <1>0, <1>3, <2>10 DEF RenewLease, RenewError, TimesMove
  <2>. QED
    BY <2>1, <2>2, <2>3, <2>4, <2>5, <2>6, <2>7, <2>8, <2>9, <2>10 DEF SlotNext
<1>. QED
  BY <1>2, <1>3

\* The lease invariant is inductive when workers run one slot.
LEMMA LInductive == SingleSlot /\ LInv /\ [Next]_vars => LInv'
<1> SUFFICES ASSUME SingleSlot, LInv, [Next]_vars PROVE LInv'
  OBVIOUS
<1>1. IInv' /\ \A j \in Job : LeaseMove(j)
  BY Inductive, StepLawful DEF LInv, Lawful
<1>2. ASSUME NEW s \in Slot, SlotNext(s)
      PROVE  (\A t \in Slot : TimesMove(t)) /\ now' = now
  <2>1. now' = now
    BY <1>2 DEF SlotNext, ClaimStart, ClaimSelect, ClaimNothing, ClaimCommit, ClaimError,
       SlotStop, HandlerReturns, HandlerRaises, MarkSucceeded, MarkSucceededError,
       MarkFailed, MarkFailedError, Finish, Beat, RenewLease, RenewError
  <2>. QED
    BY <1>2, <2>1, SlotTimes
<1>3. ASSUME NEW w \in Worker, Crash(w)
      PROVE  (\A t \in Slot : TimesMove(t)) /\ now' = now
  BY <1>3 DEF Crash, FreeSlot, NoBeat, TimesMove, LInv, IInv, SlotOK
<1>4. ASSUME UNCHANGED <<slots, beats>>
      PROVE  \A t \in Slot : TimesMove(t)
  BY <1>4 DEF TimesMove, LInv, IInv, SlotOK
<1>5. ASSUME NEW w \in Worker, WorkerNext(w)
      PROVE  (\A t \in Slot : TimesMove(t)) /\ now' = now
  BY <1>3, <1>4, <1>5 DEF WorkerNext, Start, RequestStop, RecoverStart,
                          RecoverStaleJobs, RecoverError, RecoveryStop
<1>6. (\A t \in Slot : TimesMove(t)) /\ now' \in {now, now + 1}
  BY <1>2, <1>4, <1>5 DEF Next, Submit, Tick, vars
<1>. QED
  BY <1>1, <1>6, LeaseStep

\* No lease and no call exists initially.
LEMMA LInitially == Init => LInv
<1> SUFFICES ASSUME Init PROVE LInv
  OBVIOUS
<1>1. (\A j \in Job : LeaseOK(j)) /\ (\A s \in Slot : TimesOK(s))
  BY DEF Init, LeaseOK, TimesOK, NewRow, IdleSlot, FreeSlot, NoBeat
<1>. QED
  BY <1>1, Initially DEF LInv

\* With one slot per worker, a heartbeat never shortens the lease of a running
\* attempt, however late its statement is executed and whatever the clocks of
\* the other hosts show.
THEOREM LeasesAreOnlyExtended ==
  ASSUME SingleSlot
  PROVE  Spec => LeaseOnlyExtended
<1>1. ASSUME LInv, [Next]_vars, NEW j \in Job,
             jobs[j].status = "running", jobs'[j].status = "running",
             jobs[j].attempts = jobs'[j].attempts
      PROVE  jobs'[j].lease >= jobs[j].lease
  <2>1. jobs[j].lease \in Int
    BY <1>1 DEF LInv, LeaseOK
  <2>2. jobs'[j].lease = jobs[j].lease \/ Renewal(j)
    BY <1>1, StepLawful DEF Lawful
  <2>3. CASE Renewal(j)
    <3>1. PICK s \in Slot : /\ beats[s].pc = "renewing" /\ slots[s].job = j
                            /\ jobs[j].worker = WorkerOf[s]
                            /\ jobs'[j].lease = beats[s].at + Lease
      BY <2>3 DEF Renewal
    <3>2. jobs[j].lease <= beats[s].at + Lease
      BY <1>1, <3>1 DEF LInv, TimesOK
    <3>. QED
      BY <2>1, <3>1, <3>2, Instants, TimeAssumption DEF LInv
  <2>. QED
    BY <2>1, <2>2, <2>3
<1>2. LInv /\ [Next]_vars =>
        [\A j \in Job :
           /\ jobs[j].status = "running" /\ jobs'[j].status = "running"
           /\ jobs[j].attempts = jobs'[j].attempts
           => jobs'[j].lease >= jobs[j].lease]_vars
  BY <1>1
<1>3. LInv /\ [Next]_vars => LInv'
  BY LInductive
<1>. QED
  BY <1>2, <1>3, LInitially, PTL DEF Spec, LeaseOnlyExtended
=============================================================================
