------------------------------ MODULE JobQueue ------------------------------
(***************************************************************************)
(* The job queue of distributed-job-processing-system: the jobs table of   *)
(* PostgreSQL, the worker processes with their concurrent slots, the       *)
(* heartbeat task of every running job and the recovery loop of every      *)
(* worker.                                                                 *)
(*                                                                         *)
(* Every database call of the code reads the local clock first and runs    *)
(* its transaction later (a connection has to be obtained, a row lock to   *)
(* be waited for), so a call is two steps here: one that records the time, *)
(* one that commits.  A call may also fail, before or after its commit.    *)
(* Rows are updated atomically; a claim holds its row lock between its     *)
(* SELECT ... FOR UPDATE SKIP LOCKED and its commit.                       *)
(***************************************************************************)
EXTENDS Integers, FiniteSets

CONSTANTS
  Job,           \* rows of the jobs table
  Worker,        \* worker ids: every process start draws a fresh one
  Slot,          \* concurrency slots of all the workers
  WorkerOf,      \* [Slot -> Worker]: the process a slot belongs to
  QueueOf,       \* [Job -> queue name]
  QueuesOf,      \* [Worker -> set of queue names]
  Priority,      \* [Job -> Int]
  Rank,          \* [Job -> Int]: position of the row by (created_at, id)
  IdRank,        \* [Job -> Int]: position of the row by id, a random UUID
  MaxAttempts,   \* [Job -> 1..100]
  Lease,         \* worker_lease_duration_seconds
  Heartbeat,     \* worker_heartbeat_interval_seconds
  RetryBase,     \* worker_retry_base_delay_seconds
  RetryMax,      \* worker_retry_max_delay_seconds
  RecoverLimit,  \* rows one recovery transaction takes at most
  Skew,          \* [Worker -> Int]: offset of a host's clock
  Reliable,      \* workers that neither crash nor are asked to stop
  MaxTime,       \* bound: the clock stops here
  FaultHorizon,  \* bound: last instant at which a failure is injected
  SlowHorizon,   \* bound: last instant at which a job's handler, heartbeat or
                 \* report may still be unfinished when the clock advances
  None           \* SQL NULL / Python None

ASSUME SlotAssumption == WorkerOf \in [Slot -> Worker]
ASSUME JobAssumption ==
  /\ MaxAttempts \in [Job -> 1..100]
  /\ Priority \in [Job -> Int]
  /\ Rank \in [Job -> Int] /\ IdRank \in [Job -> Int]
ASSUME TimeAssumption ==
  /\ Lease \in Nat /\ Heartbeat \in Nat /\ Heartbeat < Lease
  /\ RetryBase \in Nat /\ RetryMax \in Nat
  /\ MaxTime \in Nat /\ FaultHorizon \in Int /\ SlowHorizon \in Int
  /\ RecoverLimit \in Nat \ {0}
  /\ Skew \in [Worker -> Int]
ASSUME NoneAssumption ==
  /\ None \notin Int
  /\ None \notin Worker
  /\ None \notin Job

VARIABLES
  jobs,      \* [Job -> Row]: the jobs table
  slots,     \* [Slot -> record]: _run_slot / _process_job of every slot
  beats,     \* [Slot -> record]: the _maintain_lease task of a slot's job
  recovery,  \* [Worker -> record]: _run_recovery_loop
  workers,   \* [Worker -> "new" | "up" | "stopping" | "crashed"]
  now        \* the true time

vars == <<jobs, slots, beats, recovery, workers, now>>

-----------------------------------------------------------------------------
(* Rows, statuses and the pure policy functions                            *)

Waiting  == {"queued", "retry_scheduled"}
Terminal == {"succeeded", "dead_lettered"}
JobStatus == {"absent", "running"} \cup Waiting \cup Terminal

\* What last_error tells apart: a handler's permanent error, any other
\* exception, and the text the recovery loop writes.
ErrorKind == {"permanent", "transient", "lease_expired"}

\* A result is identified by the attempt that computed it.
Row == [status    : JobStatus,
        worker    : Worker \cup {None},
        attempts  : Nat,
        lease     : Int \cup {None},
        available : Int,
        result    : Nat \cup {None},
        error     : ErrorKind \cup {None}]

NewRow(status, at) ==
  [status |-> status, worker |-> None, attempts |-> 0, lease |-> None,
   available |-> at, result |-> None, error |-> None]

\* Mutant: the last attempt is retried once more.
ShouldRetryOnceMore(retryable, attempts, max) == retryable /\ attempts <= max

ShouldRetry(retryable, attempts, max) == retryable /\ attempts < max

RetryDelay(n) ==
  LET exponential == RetryBase * 2 ^ (IF n > 1 THEN n - 1 ELSE 0)
  IN  IF exponential < RetryMax THEN exponential ELSE RetryMax

\* Every backoff the configuration can produce is a duration.
ASSUME BackoffAssumption ==
  \A j \in Job : \A n \in 1..MaxAttempts[j] : RetryDelay(n) \in Nat

-----------------------------------------------------------------------------
(* Clocks, row locks and row updates                                       *)

\* datetime.now(UTC) on the host of worker w.
Clock(w) == now + Skew[w]

FaultsAllowed == now <= FaultHorizon

\* The rows that claims hold locked: selected, not yet committed.
LockedByClaim ==
  {slots[s].job : s \in {t \in Slot : slots[t].pc = "locked"}}

\* The rows an owner's statement in flight may hold locked.
BusyRows ==
  {slots[s].job : s \in {t \in Slot : slots[t].pc \in {"succeeding", "failing"}}}
    \cup {slots[s].job : s \in {t \in Slot : beats[t].pc = "renewing"}}

\* Mutants: the clause without the worker, and without anything but the worker.
OwnedByAnyone(j, w, at) ==
  /\ jobs[j].status = "running"
  /\ jobs[j].lease # None
  /\ jobs[j].lease > at
OwnedOnce(j, w, at) == jobs[j].worker = w

\* The WHERE clause shared by renew_lease, mark_succeeded and mark_failed.
Owned(j, w, at) ==
  /\ jobs[j].status = "running"
  /\ jobs[j].worker = w
  /\ jobs[j].lease # None
  /\ jobs[j].lease > at

\* Mutant: only rows that lost their lease column count as stale.
StaleWithoutLease(j, at) == jobs[j].status = "running" /\ jobs[j].lease = None

\* The WHERE clause of recover_stale_jobs.
Stale(j, at) ==
  /\ jobs[j].status = "running"
  /\ jobs[j].lease = None \/ jobs[j].lease <= at

\* Mutant: SELECT ... FOR UPDATE without a lock that outlives the statement.
ClaimableUnlocked(w, at) ==
  {j \in Job : /\ jobs[j].status \in Waiting
               /\ QueueOf[j] \in QueuesOf[w]
               /\ jobs[j].available <= at}

\* The WHERE clause of claim_jobs, less the rows SKIP LOCKED passes over.
Claimable(w, at) ==
  {j \in Job : /\ jobs[j].status \in Waiting
               /\ QueueOf[j] \in QueuesOf[w]
               /\ jobs[j].available <= at
               /\ j \notin LockedByClaim}

\* ORDER BY priority DESC, available_at, created_at, id
ClaimsBefore(j, k) ==
  \/ Priority[j] > Priority[k]
  \/ /\ Priority[j] = Priority[k]
     /\ jobs[j].available < jobs[k].available
  \/ /\ Priority[j] = Priority[k]
     /\ jobs[j].available = jobs[k].available
     /\ Rank[j] < Rank[k]

\* ORDER BY lease_expires_at NULLS FIRST, id
RecoversBefore(j, k) ==
  \/ jobs[j].lease = None /\ jobs[k].lease # None
  \/ /\ jobs[j].lease # None /\ jobs[k].lease # None
     /\ jobs[j].lease < jobs[k].lease
  \/ jobs[j].lease = jobs[k].lease /\ IdRank[j] < IdRank[k]

\* Mutant: the claim does not count the attempt.
ClaimedUncounted(row, w, at) ==
  [status |-> "running", worker |-> w, attempts |-> row.attempts,
   lease |-> at + Lease, available |-> row.available, result |-> None,
   error |-> row.error]

ClaimedRow(row, w, at) ==
  [status |-> "running", worker |-> w, attempts |-> row.attempts + 1,
   lease |-> at + Lease, available |-> row.available, result |-> None,
   error |-> row.error]

\* Mutant: the lease ends at the heartbeat instead of Lease after it.
RenewedToNow(row, at) == [row EXCEPT !.lease = at]

RenewedRow(row, at) == [row EXCEPT !.lease = at + Lease]

SucceededRow(row, attempt) ==
  [status |-> "succeeded", worker |-> row.worker, attempts |-> row.attempts,
   lease |-> None, available |-> row.available, result |-> attempt,
   error |-> None]

\* Mutant: a dead letter under a status that no row may have.
FailedLetter(row, w, error) ==
  [status |-> "failed", worker |-> w, attempts |-> row.attempts,
   lease |-> None, available |-> row.available, result |-> None,
   error |-> error]

\* The row leaves "running" without a result: for a retry that nobody owns, at
\* the time given, or for the dead-letter state.
RetryRow(row, at, error) ==
  [status |-> "retry_scheduled", worker |-> None, attempts |-> row.attempts,
   lease |-> None, available |-> at, result |-> None, error |-> error]
DeadRow(row, w, error) ==
  [status |-> "dead_lettered", worker |-> w, attempts |-> row.attempts,
   lease |-> None, available |-> row.available, result |-> None,
   error |-> error]

FailedRow(row, max, at, error) ==
  IF ShouldRetry(error # "permanent", row.attempts, max)
  THEN RetryRow(row, at + RetryDelay(row.attempts), error)
  ELSE DeadRow(row, row.worker, error)

\* Mutant: a job whose worker died is not retried.
RecoveredAsDead(row, max, at) == DeadRow(row, None, "lease_expired")

RecoveredRow(row, max, at) ==
  IF ShouldRetry(TRUE, row.attempts, max)
  THEN RetryRow(row, at, "lease_expired")
  ELSE DeadRow(row, None, "lease_expired")

-----------------------------------------------------------------------------
(* State                                                                   *)

\* What a slot is doing: polling, inside claim_jobs before and after the
\* rows are locked, inside the handler, inside mark_succeeded or mark_failed,
\* or in the finally block of _process_job.
Busy == {"executing", "succeeding", "failing", "finishing"}
SlotPc == {"idle", "claiming", "locked", "stopped", "dead"} \cup Busy

SlotState == [pc : SlotPc, job : Job \cup {None}, attempt : Nat, at : Int,
              error : ErrorKind \cup {None}]

FreeSlot(pc, at) ==
  [pc |-> pc, job |-> None, attempt |-> 0, at |-> at, error |-> None]
IdleSlot == FreeSlot("idle", 0)

BeatState == [pc : {"off", "waiting", "renewing", "lost"}, at : Int]
NoBeat == [pc |-> "off", at |-> 0]

RecoveryState == [pc : {"waiting", "recovering", "stopped", "dead"}, at : Int]
IdleRecovery == [pc |-> "waiting", at |-> 0]

Init ==
  /\ jobs = [j \in Job |-> NewRow("absent", 0)]
  /\ slots = [s \in Slot |-> IdleSlot]
  /\ beats = [s \in Slot |-> NoBeat]
  /\ recovery = [w \in Worker |-> IdleRecovery]
  /\ workers = [w \in Worker |-> "new"]
  /\ now = 0

\* Slot s moves on to step pc of the job and attempt it is at.
Work(s, pc, job, attempt, at, error) ==
  slots' = [slots EXCEPT ![s] = [pc |-> pc, job |-> job, attempt |-> attempt,
                                 at |-> at, error |-> error]]

-----------------------------------------------------------------------------
(* Submission and the life of a worker process                             *)

\* POST /jobs: the row appears, available at the database's now().
Submit(j) ==
  /\ jobs[j].status = "absent"
  /\ jobs' = [jobs EXCEPT ![j] = NewRow("queued", now)]
  /\ UNCHANGED <<slots, beats, recovery, workers, now>>

\* run_worker: a process starts its slots and its recovery loop.
Start(w) ==
  /\ workers[w] = "new"
  /\ workers' = [workers EXCEPT ![w] = "up"]
  /\ UNCHANGED <<jobs, slots, beats, recovery, now>>

\* Ctrl+C: request_stop sets the stop event that every loop tests.
RequestStop(w) ==
  /\ workers[w] = "up" /\ w \notin Reliable
  /\ workers' = [workers EXCEPT ![w] = "stopping"]
  /\ UNCHANGED <<jobs, slots, beats, recovery, now>>

\* The process dies.  Statements it had in flight are rolled back; one that
\* committed first is the commit step followed by this one.
Crash(w) ==
  /\ workers[w] \in {"up", "stopping"} /\ w \notin Reliable /\ FaultsAllowed
  /\ workers' = [workers EXCEPT ![w] = "crashed"]
  /\ slots' = [s \in Slot |-> IF WorkerOf[s] = w
                              THEN FreeSlot("dead", 0) ELSE slots[s]]
  /\ beats' = [s \in Slot |-> IF WorkerOf[s] = w THEN NoBeat ELSE beats[s]]
  /\ recovery' = [recovery EXCEPT ![w] = [pc |-> "dead", at |-> 0]]
  /\ UNCHANGED <<jobs, now>>

Tick ==
  /\ now < MaxTime
  /\ now <= SlowHorizon \/ \A s \in Slot : slots[s].pc \notin Busy
  /\ now' = now + 1
  /\ UNCHANGED <<jobs, slots, beats, recovery, workers>>

-----------------------------------------------------------------------------
(* _run_slot: polling and claiming                                         *)

\* claim_jobs is called; claimed_at is read before the transaction begins.
ClaimStart(s) ==
  /\ slots[s].pc = "idle" /\ workers[WorkerOf[s]] = "up"
  /\ slots' = [slots EXCEPT ![s] = FreeSlot("claiming", Clock(WorkerOf[s]))]
  /\ UNCHANGED <<jobs, beats, recovery, workers, now>>

\* SELECT ... FOR UPDATE SKIP LOCKED LIMIT 1 finds and locks a row.
ClaimSelect(s) ==
  LET rows == Claimable(WorkerOf[s], slots[s].at) IN
  /\ slots[s].pc = "claiming"
  /\ \E j \in rows :
       /\ \A k \in rows \ {j} : ClaimsBefore(j, k)
       /\ Work(s, "locked", j, 0, slots[s].at, None)
  /\ UNCHANGED <<jobs, beats, recovery, workers, now>>

\* ... or finds none, and the slot polls again later.
ClaimNothing(s) ==
  /\ slots[s].pc = "claiming"
  /\ Claimable(WorkerOf[s], slots[s].at) = {}
  /\ slots' = [slots EXCEPT ![s] = IdleSlot]
  /\ UNCHANGED <<jobs, beats, recovery, workers, now>>

ClaimWrites(s) ==
  LET j == slots[s].job IN
  jobs' = [jobs EXCEPT ![j] = ClaimedRow(@, WorkerOf[s], slots[s].at)]

\* The claim commits; _process_job starts the handler and the heartbeat task.
ClaimCommit(s) ==
  LET w == WorkerOf[s] IN
  /\ slots[s].pc = "locked"
  /\ ClaimWrites(s)
  /\ Work(s, "executing", slots[s].job, jobs[slots[s].job].attempts + 1, 0, None)
  /\ beats' = [beats EXCEPT ![s] = [pc |-> "waiting", at |-> Clock(w)]]
  /\ UNCHANGED <<recovery, workers, now>>

\* The claim raises, rolled back or - the reply was lost - after its commit;
\* the slot logs the exception and polls again.
ClaimError(s) ==
  /\ FaultsAllowed
  /\ \/ slots[s].pc \in {"claiming", "locked"} /\ UNCHANGED jobs
     \/ slots[s].pc = "locked" /\ ClaimWrites(s)
  /\ slots' = [slots EXCEPT ![s] = IdleSlot]
  /\ UNCHANGED <<beats, recovery, workers, now>>

\* The slot's loop ends once its worker was asked to stop.
SlotStop(s) ==
  /\ slots[s].pc = "idle" /\ workers[WorkerOf[s]] = "stopping"
  /\ slots' = [slots EXCEPT ![s] = FreeSlot("stopped", 0)]
  /\ UNCHANGED <<jobs, beats, recovery, workers, now>>

-----------------------------------------------------------------------------
(* _process_job: the handler and the report of its outcome                 *)

\* execute_task returns and mark_succeeded is called.
HandlerReturns(s) ==
  /\ slots[s].pc = "executing"
  /\ Work(s, "succeeding", slots[s].job, slots[s].attempt, Clock(WorkerOf[s]), None)
  /\ UNCHANGED <<jobs, beats, recovery, workers, now>>

\* The exception handler of _process_job calls mark_failed.
ReportFailure(s, error) ==
  Work(s, "failing", slots[s].job, slots[s].attempt, Clock(WorkerOf[s]), error)

\* execute_task raises: a TaskHandlerError is permanent, all else transient.
HandlerRaises(s) ==
  /\ slots[s].pc = "executing"
  /\ \/ ReportFailure(s, "permanent")
     \/ FaultsAllowed /\ ReportFailure(s, "transient")
  /\ UNCHANGED <<jobs, beats, recovery, workers, now>>

SucceededWrites(s) ==
  LET j == slots[s].job IN
  IF Owned(j, WorkerOf[s], slots[s].at)
  THEN jobs' = [jobs EXCEPT ![j] = SucceededRow(@, slots[s].attempt)]
  ELSE UNCHANGED jobs

FailedWrites(s) ==
  LET j == slots[s].job IN
  IF Owned(j, WorkerOf[s], slots[s].at)
  THEN jobs' = [jobs EXCEPT ![j] =
                  FailedRow(@, MaxAttempts[j], slots[s].at, slots[s].error)]
  ELSE UNCHANGED jobs

Finishing(s) ==
  Work(s, "finishing", slots[s].job, slots[s].attempt, 0, None)

\* mark_succeeded commits; a zero row count is only logged.
MarkSucceeded(s) ==
  /\ slots[s].pc = "succeeding"
  /\ SucceededWrites(s)
  /\ Finishing(s)
  /\ UNCHANGED <<beats, recovery, workers, now>>

\* mark_succeeded raises, before or after its commit, inside the try block:
\* the same exception handler reports the job as failed.
MarkSucceededError(s) ==
  /\ slots[s].pc = "succeeding" /\ FaultsAllowed
  /\ SucceededWrites(s) \/ UNCHANGED jobs
  /\ ReportFailure(s, "transient")
  /\ UNCHANGED <<beats, recovery, workers, now>>

MarkFailed(s) ==
  /\ slots[s].pc = "failing"
  /\ FailedWrites(s)
  /\ Finishing(s)
  /\ UNCHANGED <<beats, recovery, workers, now>>

\* mark_failed raises without an effect; the exception is swallowed and the
\* row stays with this worker.  (An error after its commit is MarkFailed: the
\* returned status is only logged.)
MarkFailedError(s) ==
  /\ slots[s].pc = "failing" /\ FaultsAllowed
  /\ UNCHANGED jobs
  /\ Finishing(s)
  /\ UNCHANGED <<beats, recovery, workers, now>>

\* finally: the heartbeat task is told to stop and awaited.
Finish(s) ==
  /\ slots[s].pc = "finishing" /\ beats[s].pc # "renewing"
  /\ slots' = [slots EXCEPT ![s] = IdleSlot]
  /\ beats' = [beats EXCEPT ![s] = NoBeat]
  /\ UNCHANGED <<jobs, recovery, workers, now>>

-----------------------------------------------------------------------------
(* _maintain_lease                                                         *)

\* The interval elapsed and the stop event is not set: renew_lease is called.
Beat(s) ==
  LET w == WorkerOf[s] IN
  /\ beats[s].pc = "waiting" /\ slots[s].pc \in Busy \ {"finishing"}
  /\ Clock(w) >= beats[s].at + Heartbeat
  /\ beats' = [beats EXCEPT ![s] = [pc |-> "renewing", at |-> Clock(w)]]
  /\ UNCHANGED <<jobs, slots, recovery, workers, now>>

RenewWrites(s) ==
  LET j == slots[s].job IN
  IF Owned(j, WorkerOf[s], beats[s].at)
  THEN jobs' = [jobs EXCEPT ![j] = RenewedRow(@, beats[s].at)]
  ELSE UNCHANGED jobs

\* renew_lease commits; a heartbeat that renewed nothing ends the task.
RenewLease(s) ==
  LET w == WorkerOf[s] IN
  /\ beats[s].pc = "renewing"
  /\ RenewWrites(s)
  /\ beats' = [beats EXCEPT ![s] =
                 IF Owned(slots[s].job, w, beats[s].at)
                 THEN [pc |-> "waiting", at |-> Clock(w)]
                 ELSE [pc |-> "lost", at |-> 0]]
  /\ UNCHANGED <<slots, recovery, workers, now>>

\* renew_lease raises, before or after its commit; the task goes on.
RenewError(s) ==
  /\ beats[s].pc = "renewing" /\ FaultsAllowed
  /\ RenewWrites(s) \/ UNCHANGED jobs
  /\ beats' = [beats EXCEPT ![s] = [pc |-> "waiting", at |-> Clock(WorkerOf[s])]]
  /\ UNCHANGED <<slots, recovery, workers, now>>

-----------------------------------------------------------------------------
(* _run_recovery_loop                                                      *)

RecoverStart(w) ==
  /\ recovery[w].pc = "waiting" /\ workers[w] = "up"
  /\ recovery' = [recovery EXCEPT ![w] = [pc |-> "recovering", at |-> Clock(w)]]
  /\ UNCHANGED <<jobs, slots, beats, workers, now>>

\* The rows one recovery transaction takes: the first RecoverLimit stale rows
\* that no statement in flight holds locked.
Recoverable(at, skipped) ==
  LET stale == {j \in Job : Stale(j, at)} \ skipped
  IN  {j \in stale :
         Cardinality({k \in stale : RecoversBefore(k, j)}) < RecoverLimit}

RecoverWrites(w) ==
  \E skipped \in SUBSET BusyRows :
    LET rows == Recoverable(recovery[w].at, skipped) IN
    jobs' = [j \in Job |-> IF j \in rows
                           THEN RecoveredRow(jobs[j], MaxAttempts[j], recovery[w].at)
                           ELSE jobs[j]]

\* recover_stale_jobs commits.
RecoverStaleJobs(w) ==
  /\ recovery[w].pc = "recovering"
  /\ RecoverWrites(w)
  /\ recovery' = [recovery EXCEPT ![w] = IdleRecovery]
  /\ UNCHANGED <<slots, beats, workers, now>>

\* recover_stale_jobs raises without an effect; the loop goes on.  (An error
\* after its commit is RecoverStaleJobs: the counts are only logged.)
RecoverError(w) ==
  /\ recovery[w].pc = "recovering" /\ FaultsAllowed
  /\ recovery' = [recovery EXCEPT ![w] = IdleRecovery]
  /\ UNCHANGED <<jobs, slots, beats, workers, now>>

RecoveryStop(w) ==
  /\ recovery[w].pc = "waiting" /\ workers[w] = "stopping"
  /\ recovery' = [recovery EXCEPT ![w] = [pc |-> "stopped", at |-> 0]]
  /\ UNCHANGED <<jobs, slots, beats, workers, now>>

-----------------------------------------------------------------------------
SlotNext(s) ==
  \/ ClaimStart(s) \/ ClaimSelect(s) \/ ClaimNothing(s) \/ ClaimCommit(s)
  \/ ClaimError(s) \/ SlotStop(s)
  \/ HandlerReturns(s) \/ HandlerRaises(s)
  \/ MarkSucceeded(s) \/ MarkSucceededError(s)
  \/ MarkFailed(s) \/ MarkFailedError(s) \/ Finish(s)
  \/ Beat(s) \/ RenewLease(s) \/ RenewError(s)

WorkerNext(w) ==
  \/ Start(w) \/ RequestStop(w) \/ Crash(w)
  \/ RecoverStart(w) \/ RecoverStaleJobs(w) \/ RecoverError(w) \/ RecoveryStop(w)

Next ==
  \/ \E j \in Job : Submit(j)
  \/ \E s \in Slot : SlotNext(s)
  \/ \E w \in Worker : WorkerNext(w)
  \/ Tick

Spec == Init /\ [][Next]_vars

\* Time passes, a live process keeps running its event loop, a statement ends
\* one way or the other and a handler returns or raises (their sleep is at
\* most 30 s).  Nobody has to submit, to stop a worker or to fail.
Fairness ==
  /\ WF_vars(Tick)
  /\ \A w \in Worker :
       /\ WF_vars(w \in Reliable /\ Start(w))
       /\ WF_vars(RecoverStart(w)) /\ WF_vars(RecoverStaleJobs(w))
  /\ \A s \in Slot :
       /\ WF_vars(ClaimStart(s)) /\ WF_vars(ClaimSelect(s) \/ ClaimNothing(s))
       /\ WF_vars(ClaimCommit(s))
       /\ WF_vars(HandlerReturns(s) \/ HandlerRaises(s))
       /\ WF_vars(MarkSucceeded(s)) /\ WF_vars(MarkFailed(s))
       /\ WF_vars(RenewLease(s)) /\ WF_vars(Finish(s))

FairSpec == Spec /\ Fairness

-----------------------------------------------------------------------------
(* Properties                                                              *)

\* Every column, slot, heartbeat and recovery loop keeps its type.
TypeOK ==
  /\ jobs \in [Job -> Row]
  /\ slots \in [Slot -> SlotState]
  /\ beats \in [Slot -> BeatState]
  /\ recovery \in [Worker -> RecoveryState]
  /\ workers \in [Worker -> {"new", "up", "stopping", "crashed"}]
  /\ now \in Nat

\* max_attempts bounds the executions of a job, recoveries included: a row
\* that may still be claimed has an attempt left (should_retry_job is asked
\* by mark_failed and by recover_stale_jobs alike, claim_jobs never asks).  The
\* lifecycle below promises as much.
AttemptsBounded ==
  \A j \in Job : /\ jobs[j].attempts <= MaxAttempts[j]
                 /\ jobs[j].status \in Waiting => jobs[j].attempts < MaxAttempts[j]

\* A claim is exclusive although slots, workers and recovery loops race for
\* the rows: no two slots hold the same row locked, and no two ever run the
\* same attempt of a job.
ClaimsExclusive ==
  \A s, t \in Slot :
    /\ s # t
    /\ slots[s].job = slots[t].job
    /\ slots[s].job # None
    => ~ \/ slots[s].pc = "locked" /\ slots[t].pc = "locked"
         \/ /\ slots[s].pc \in Busy /\ slots[t].pc \in Busy
            /\ slots[s].attempt = slots[t].attempt

\* A job is dead-lettered only when its attempts are used up or its handler
\* said the work is invalid - never because a worker died or a lease ran out
\* while attempts were left.
DeadLetterJustified ==
  \A j \in Job : jobs[j].status = "dead_lettered" =>
    jobs[j].attempts = MaxAttempts[j] \/ jobs[j].error = "permanent"

\* What is stored as the result of a job was computed by its last attempt.
ResultOfLastAttempt ==
  \A j \in Job : jobs[j].status = "succeeded" =>
    jobs[j].result = jobs[j].attempts

\* A finished job is never touched again: no late heartbeat, report, claim or
\* recovery changes its row.
TerminalIsFinal ==
  [][\A j \in Job : jobs[j].status \in Terminal => jobs'[j] = jobs[j]]_vars

\* Slot s reports the outcome of an attempt that is no longer the one the job
\* is running.
ReportsLate(s) ==
  /\ slots[s].pc \in {"succeeding", "failing"}
  /\ \/ jobs[slots[s].job].status # "running"
     \/ jobs[slots[s].job].attempts # slots[s].attempt

\* "Protection against result updates from workers that lost ownership": the
\* report of an attempt that was recovered in the meantime changes no row.
LateReportsIgnored ==
  [][\A s \in Slot :
       ReportsLate(s) /\ slots'[s].pc # slots[s].pc => jobs' = jobs]_vars

\* A heartbeat only ever extends the lease of the attempt that is running,
\* however late its statement is executed.
LeaseOnlyExtended ==
  [][\A j \in Job :
       /\ jobs[j].status = "running" /\ jobs'[j].status = "running"
       /\ jobs[j].attempts = jobs'[j].attempts
       => jobs'[j].lease >= jobs[j].lease]_vars

\* Every submitted job ends: as long as one worker that serves its queue stays
\* up, no crash, lost reply or swallowed error of any other worker leaves a
\* job queued, running or waiting for a retry forever.
EventuallyDone ==
  \A j \in Job : jobs[j].status # "absent" ~> jobs[j].status \in Terminal

\* The life of a job as its clients see it: two columns of its row.
StatusOf == [j \in Job |-> jobs[j].status]
AttemptsOf == [j \in Job |-> jobs[j].attempts]

Lifecycle == INSTANCE JobLifecycle WITH status <- StatusOf, attempts <- AttemptsOf

\* The queue implements that life, several jobs recovered at once included ...
FollowsLifecycle == Lifecycle!Safety

\* ... and its progress.
ImplementsLifecycle == Lifecycle!Spec
=============================================================================
