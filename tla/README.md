# Verification of the Software Engineering Career Projects

TLA+ models of the systems of this repository, the TLC runs that check them on
small instances and the TLAPS proofs that hold for every instance. The
repository holds seven independent systems. Modelled are the five in which
processes, requests or messages interleave: the job system, the warehouse
services, the command simulator, the observability platform and the incident
backend of the cloud system.

`PROJECT.json` is the index: components, runs, the source lines each definition
models (`map`), the mutation that breaks each property, the disagreements
between documentation and code, the hazards and the theorems.

## 1. Inventory

| Component | State | Operations | Hard behaviour | What makes it correct |
|---|---|---|---|---|
| **Job queue and worker** (`distributed-job-processing-system/src/job_system/{queue,worker,handlers,models}.py`) | the `jobs` table; per worker process: slots, one heartbeat task per running job, a recovery loop, a stop event | submit, claim, renew lease, mark succeeded, mark failed, recover stale jobs, start, stop | several processes and slots poll one table; a call reads the clock before its transaction runs; leases expire under running handlers; calls fail before or after their commit; crashes | a claim is exclusive, attempts are bounded, a late report changes nothing, finished jobs stay finished, every job ends |
| **Job submission API** (`repository.py`, `services.py`, `api/jobs.py`) | rows, the idempotency key's unique index | create or return the existing job, read | two submissions with one key, repeated after a lost answer, while a worker runs the job | one job for each key, and every answer is about it |
| **Inventory service** (`production-warehouse-microservices/services/inventory-service`) | `products`, `inventory_balances`, `stock_movements` | receive, issue, reserve, release, transfer; create and delete a product | read-modify-write with row locks at READ COMMITTED, inserts that block each other, cascading deletes, deadlocks, repeated requests | balances are the sums of their movements, a reference reserves once, the tests in code make the constraints redundant |
| **Order service** (`.../order-service`) | `orders` with their lines; the inventory service's state through HTTP | create, confirm, cancel | a saga of HTTP calls with compensation; lost requests, lost and late replies, commit errors, crashes; cancellations and confirmations that interleave | an order owns all its stock or none; no stock is leaked or counted twice; requests end |
| **Warehouse service** (`.../warehouse-service`) | `warehouses` | create, update, deactivate | deactivation while an order is created | no order for an inactive warehouse |
| **API gateway** (`.../api-gateway`) | none | forward | loss and delay (faults of the order model) | none of its own |
| **Command server** (`secure-command-control-simulator/src/main/java`) | unit state, replay history, acknowledgement cache, audit log | authenticate, detect replay, process, acknowledge | retries of executed commands, audit failures between execution and caching, restarts that empty the caches | a command is executed at most once and acknowledged alike |
| **Control station** (`.../control_station`) | sequence number, attempts | send, retry, verify the acknowledgement | timeouts racing late acknowledgements | what it reports is what happened |
| **Sensor monitor** (`real-time-sensor-monitoring-system`) | sensors' last messages, active faults, system state | packet received, timeout check, recalculation | timeouts against late packets | the state reflects the worst active fault |
| **Observability platform** (`observability-incident-detection-platform`) | `monitored_services`, `telemetry_records`, `anomaly_records`, `incidents`, `correlations` with their links, `trace_spans` | register, ingest, acknowledge, resolve, analyze, ingest and get traces, query every table | read-check-write in overlapping sessions; unique constraints as the last line of defence; pages read after their total | an incident is in one correlation, a batch is stored whole, legal transitions, pages as long as promised |
| **Incident backend** (`cloud-deployed-full-stack-system/backend`) | `users`, `incidents`, `audit_events` | register, log in, administer users, create, update, delete and list incidents, dashboard, audit trail, `bootstrap_admin` | authorisation and change sets computed from rows another session changes; paging under changes | the audit trail explains the rows, one account for each address, self-lockout protection |
| **Incident frontend** (`.../frontend`) | session | log in, restore, log out | answers that arrive after a logout | the session shown is the session held |
| **Sensor data logging** (`sensor-data-logging-test-platform`) | CSV files | log, analyse, report | none: a sequential batch | classification rules |

How they interact: workers and the submission API share only the `jobs` table;
the order service calls the inventory service over HTTP with the order's id as
`reference_id`, and both keep their own database; everything else is a system
of its own.

The `hazards` of `PROJECT.json` list what is hard to test, each at its line, with
the properties that would notice it going wrong. Four of them no property would
notice, because the code has no remedy to hold it to: a reservation whose reply was
lost, a commit of an order that took effect although it raised, a crash of the
order service between a reservation and its commit, and a command whose audit line
failed.

## 2. Modules

| Module | Models | Used by |
|---|---|---|
| `JobQueue` | the jobs table, workers, slots, heartbeats, recovery loops, clocks | `MCJobQueue`, proofs |
| `JobLifecycle` | what a client is promised about one job: the abstract specification | `JobQueue` (as the instance `Lifecycle`) |
| `JobQueueProofs` | theorems about `JobQueue` | |
| `StockRules` | the tests of `stock.py` on a locked balance row | `Inventory`, `OrderSaga` |
| `StockRulesProofs` | sums of reservations as numbers of pieces | `InventoryProofs`, `OrderSagaProofs` |
| `Inventory` | stock transactions on one product, statement by statement | `MCInventory`, proofs |
| `InventoryProofs` | theorems about `Inventory` | |
| `OrderSaga` | order requests, their HTTP calls and compensations | `MCOrderSaga`, proofs |
| `OrderSagaProofs` | theorems about `OrderSaga` | |
| `CommandControl` | the command server, its connections and the control stations | `MCCommandControl`, proofs |
| `CommandControlProofs` | theorems about `CommandControl` | |
| `JobSubmission` | `POST /jobs` with idempotency keys, `GET /jobs` | `MCJobSubmission`, proofs |
| `JobSubmissionProofs` | theorems about `JobSubmission` | |
| `Observability` | requests of the observability platform and its tables | `MCObservability`, proofs |
| `ObservabilityProofs` | theorems about `Observability` | |
| `IncidentBackend` | requests of the incident backend, its tables, the bootstrap command | `MCIncidentBackend`, proofs |
| `IncidentBackendProofs` | theorems about `IncidentBackend` | |
| `MC*` | constants of the instances | the runs |

### JobQueue

*State.* `jobs` is the table (status, worker id, attempts, lease end,
availability, result, error; a row that was not submitted yet is `absent`);
`slots[s]` is where `_run_slot`/`_process_job` of a slot stands, `beats[s]` its
`_maintain_lease` task, `recovery[w]` the recovery loop of a worker,
`workers[w]` the process, `now` the true time. `Skew` sets each host's clock
off from it. A result is identified by the attempt that computed it.

*Actions.* Every database call of `queue.py` takes `datetime.now` before its
transaction begins. A call is therefore two steps: one that records the time
(`ClaimStart`, `HandlerReturns`, `HandlerRaises`, `Beat`, `RecoverStart`) and one
that commits (`ClaimCommit`, `MarkSucceeded`, `MarkFailed`, `RenewLease`,
`RecoverStaleJobs`). The claim has a third, because its row lock spans SELECT and
commit (`ClaimSelect`). The error actions stand for the `except Exception`
branches of the worker: a call that raises without effect, or after it committed
where the code behaves differently then. `Crash` ends a process anywhere;
`RequestStop`, `SlotStop` and `RecoveryStop` are the shutdown. `BusyRows` are the
rows an owner's statement may hold locked, which `SKIP LOCKED` in the recovery
query may pass over: which of them is a free choice. Rows are recovered by
`(lease_expires_at, id)` and claimed by `(priority, available_at, created_at,
id)`; since ids are random UUIDs the two ties are separate constants (`IdRank`,
`Rank`).

*Refinement.* `JobLifecycle` says what a client may rely on: a job is submitted,
attempted, retried and ends, with the attempts counted. Its variables are, for
each job, the row's status and counter (`StatusOf`, `AttemptsOf`). `Safety` is its
next-state relation, `Spec` adds that a submitted job ends. A recovery changes
several rows in one transaction, hence a step may advance several jobs.

*Abstractions.* Payloads, worker names and texts; the polling intervals (a loop
may run at any time); handlers, which return or raise (a `TaskHandlerError` is
permanent, anything else transient).

### Inventory

*State.* One product: every statement of `stock.py` is keyed by the product.
`balance[w]` is the committed row of a warehouse, `ledger[w]` the committed
movements as the sums of their deltas (also by reference, which is what the code
queries), `tx[c]` the transaction of a request: operation, the balance it
inserted, the rows it has gone past, the rows it has locked and what it read.

*Actions.* One per statement: `Begin` (the product is looked up), `InsertBalance`
(`INSERT ... ON CONFLICT DO NOTHING`, which waits for a conflicting insert or
deletion), `LockRow` (one row of the ordered `SELECT ... FOR UPDATE`), `Decide`
(sum and tests), `Flush` (UPDATE and INSERT, constraints and column width),
`Commit`; for a deletion `DeleteRow`, `CascadeRow`, `CommitDelete`. `Fail` is a
lost connection anywhere, `DeadlockVictim` PostgreSQL's way out of a deadlock.
Lock modes of PostgreSQL (`FOR KEY SHARE` of a foreign key against `FOR UPDATE`
of a deletion) are external and modelled from how the statements meet.

### OrderSaga

*State.* `status[o]` is the committed order, `proc[x]` a request: creations are
named by their order, cancellations by a caller. `rows` and `own` are the
inventory service's balances and what each order's reference reserves, `late` the
requests whose sender has given up, `flagged` the orders for which
`OrderCompensationError` was raised. `unsure` and `faults` are history.

*Actions.* A request makes one call per line (`Serve`, `CallReturns`,
`CallRaises`), commits (`Commit`, `CommitRaises`), or is rolled back and undoes
the lines that returned, one call at a time (`Compensate`, `Undone`): a creation
in reverse order, a cancellation in order. `ConfirmOrder` is one transaction.
`Locked` is the row lock of `_load_order`, held up to commit or rollback - hence
not during the compensation. An inventory call is one atomic step here; module
`Inventory` shows that its transactions are serialised by their row locks.

### CommandControl

*State.* `stations[s]` is one run of the control station (which command, which
attempt, the time its commands were created, whether it signs with the server's
secret), `queue` the connections the server has not accepted, `server` its single
thread, `memory` what its process remembers (unit state, processed ids, highest
sequence number, acknowledgement cache), `life` the number of the process, `log`
the commands that reached the command processor (history), `got` what stations
were told. Runs of the station use the same ids and sequence numbers 1, 2, ... as
`main` does; a command stands for its signature.

*Actions.* `Connect` puts the command on a fresh connection; the attempt ends by
`SendAck` or by `AttemptFails` (timeout, reset, closed) at any moment, and the
server still reads a connection whose station has gone. `processCommand` is one
step, since nobody sees the server's memory before it replies; its branches are
`Unauthorized`, `AnswerRetry`, `Reject`, `Process`, and one action for each place
where a failing audit log interrupts it. An audit failure outside `processCommand`
is an unchecked exception that `start` does not catch: `Die`. `Restart` is
`restart: on-failure`, with an empty memory. Time is not tied to the timeouts: a
station may be arbitrarily slow.

### JobSubmission

*State.* `jobs` is the set of committed rows, `req[r]` the session of a request.
*Actions.* `Begin` opens the transaction (its start is `created_at`), `Insert` is
`INSERT ... ON CONFLICT DO NOTHING`, which waits for a pending row with the key,
`ReadExisting` the second statement with `job_matches_submission`, `Commit`, and
`Refresh` the statement after it. `Fail` before the commit is a rollback, after it
a lost answer. `Get` and `List` are the queries. `Progress` is what workers do to
a row, reduced to its status; `JobQueue` has the details. *Abstractions.* What a
job is to do (queue, task, payload, priority, attempts) is one value.

### Observability

*State.* One variable per table; an anomaly and an incident have the id of the
telemetry they come from, and `<<r, k>>` is the k-th item of request `r`.
`req[r]` is a session: what was asked, what it loaded or selected.
*Actions.* The first statement of a request decides from what it reads (`LookUp`,
`Ingest`, `LoadIncident`, `Select`, `CheckBatch`, `Count`, `Get`, `GetTrace`), the
write waits for other sessions' locks and meets unique constraints
(`InsertService`, `UpdateIncident`, `InsertLinks`, `InsertSpan`), the commit
(`Commit*`) shows all rows at once, and `Fail` rolls back. Detection (`Finding`)
and root cause analysis (`Score`, `RootCauses`) are operators with the numbers of
the code, scores in hundredths; equal candidates are ordered by random ids, hence
a free choice. *Abstractions.* Texts, attributes and confidence; a service and its
environment are one identity. Times are small numbers and `Window` is in ticks.

### IncidentBackend

*State.* `rows` holds the committed users and incidents, `audit` the events in the
order of `created_at`, pending ones included, `req[r]` a session with the copies
it loaded: `actor` (the account that authorised it) and `seen`.
*Actions.* `Authorise` is the dependency chain of the routes, `Load` the look-up,
`Write`/`WriteNew` the flush with its audit event, `Commit`. Registration is
`LookUp`, `Insert`, `Commit`; `Bootstrap` and `NextStage` are the command, whose
session, unlike those of the API, expires at each commit. The dashboard is three
statements, a listing one step per page, by creation time and then by id
(`NewestFirst`, with `IdPlace` for the order of ids; incidents stored before the
first event count as created at one time). SQLAlchemy's UPDATE names only the
columns that differ from the loaded copy (`Applied`); an UPDATE of a deleted row
raises, a second DELETE only warns. `must` and `touched` are history for the
properties of readers. *Abstractions.* A token is the id of its account, a
password hash the password; titles and descriptions are left out.

## 3. Runs

All runs finish within two minutes on two cores.

| Run | Instance | Shows |
|---|---|---|
| `job_ownership` | one job, two workers with one slot each, clocks one unit apart, lease 2, heartbeat 1, time to 3, failures up to time 1 | only the attempt that owns the row reports or renews; a late statement never shortens a lease |
| `job_two_rows` | two jobs with one and two attempts, two slots of one worker, time to 2 | two rows recovered at once; claims are exclusive, dead letters justified, finished rows final, every step a step of `JobLifecycle`, which bounds the attempts |
| `job_progress` | one job, two workers of which one stays up, `FairSpec` | `JobLifecycle` is implemented, and every submitted job ends |
| `job_shared_worker` (violation) | one worker with two slots | a late report is accepted for the attempt of the other slot |
| `inventory` | two warehouses, two references, two requests, quantities 1 and 2, columns up to 2 | balances explained by movements, constraints redundant, reservations add up and are made once, deadlocks need a deletion |
| `order_saga` | two orders with two lines each in opposite order, one piece of each product, two cancellations, two faults of six kinds, `FairSpec` | compensation restores what it can know of, stock is accounted for whatever is lost, late or repeated, final statuses, requests end |
| `order_confirm` (violation) | one lost reply | an order without stock is confirmed |
| `command_control` | two stations with two commands and two attempts each, clocks one unit apart, messages valid for one instant, one dropped acknowledgement, two failures, one restart | commands are processed once and in order, retries get the original answer, answers are not mixed up |
| `job_submission` | three requests, two keys and none, two kinds of work, queries | a key has one job whatever overlaps, fails or is repeated |
| `observability` | three requests of any kind, one service with two open incidents and one to be registered, batches at the thresholds and for each weight, trace batches with the same spans in opposite order, clock to 2, window 1 | correlations are disjoint, root causes follow the weights, trace batches are stored whole, pages match their totals, a resolved incident is reopened only by an overlapping acknowledgement |
| `incident_reopened` (violation) | the same | the reopening does happen |
| `incident_backend` | three requests, two administrators and an operator, two incidents stored at the same time and one to be created, one address to register, the command | the audit trail replays to the rows, one account per address, the answers to racing registrations are true, complete listings, summaries whose figures contradict each other by no more than what changed between the three statements, who can lock everybody out |

*Why the bounds are enough to be interesting.* Time 3 with lease 2 lets a lease
expire, the job be recovered and claimed again, and the first report arrive
afterwards; two attempts reach the limit. `FaultHorizon` and `SlowHorizon` bound when
failures are injected and until when a handler may outlast a tick; in the safety
run a handler may be slow to the end. Two requests are enough for every lock
conflict of `Inventory`, and a column limit of 2 is exceeded by a second receipt.
Three requests in the API models allow a pair that races and a third
one that reads, repeats or changes the ground under both. Requests are
interchangeable, so these runs use symmetry; they check no liveness.
Two faults in `order_saga` let a compensation fail as well. In
`command_control` the age limit 0 and the skew 1 make messages expired or too
early after a single tick, and two failures allow an audit failure in the life
after a restart. `CHECK_DEADLOCK` is
off in the job runs because time ends at `MaxTime`, in `inventory` because the
product is gone for good, in the others
because all requests may have ended.

*Fairness.* `job_progress` assumes that time passes, that a live process keeps
running its event loop, that a statement ends one way or the other and that a
handler returns or raises (handlers sleep at most 30 s). Of the workers only
`Reliable` ones have to stay up; nobody has to submit or to stop anything, and no
failure is fair. `order_saga` assumes that a request runs on and its HTTP calls
end, which `httpx` guarantees by its timeout. Neither assumes that a crashed
process is restarted.

### Disagreements between documentation and code

1. `README.md:98` of the job system promises protection against updates from
   workers that lost ownership. The ownership clause compares worker ids, and the
   slots of one process share theirs (`job_shared_worker`). With one slot per
   worker the promise holds and is proved.
2. `orders.py:135` of the order service says that the inventory of a confirmed
   order is already reserved; after a cancellation with a lost reply it is not
   (`order_confirm`).
3. `docs/incident-lifecycle.md:19` of the observability platform says that a
   resolved incident cannot return to an earlier state. An acknowledgement that
   loaded the incident while it was open and commits after the resolution sets it
   back to acknowledged (`incident_reopened`).

Seen while modelling, without a run: a recovered job's handler may still execute
(`queue.py:290` denies it); a reservation whose reply was lost is not released by
a failed creation (`order.py:243`); a retry of a command whose audit line failed is
refused as a duplicate although it was processed (`RepliesLogged` therefore speaks
of logged commands); the `from` value of an audit event is what the request loaded,
which another request may have replaced (`AuditReplays` therefore replays the `to`
values); of two concurrent deletions of an incident both succeed and are recorded,
although `docs/architecture.md:252` of the cloud system says that missing resources
do not produce audit records (a DELETE that matches no row only warns).

## 4. Proofs

The theorems hold for all sets of jobs, workers, slots, warehouses, references
and requests, all clocks and all bounds allowed by the `ASSUME`s of the modules
(named there; TLC evaluates them in every run).

**JobQueueProofs.** `TypeCorrect`, `AttemptsAreBounded`, `ClaimsAreExclusive`,
`DeadLettersAreJustified`, `TerminalRowsAreFinal`. None but the first is
inductive: that two slots never run one attempt follows only when one knows that a
slot's attempt never exceeds the row's, that a locked row is waiting and that no
two slots lock it. `IInv` conjoins these facts with the properties; each action
is one step of the proof. The report of an action that updates the row at all
has found it `running` under the ownership clause, which is why finished rows
are final. `QueueFollowsLifecycle` is the safety part of the refinement: under
`IInv` every step is a step of `JobLifecycle` or changes no status and no counter.
A step that writes one row is compared with the abstract step of that job; a
recovery is a set of such steps at once.

Under `SingleSlot` (no two slots share a worker, `worker_concurrency = 1`), which
`job_shared_worker` shows to be needed: `ResultsAreOfTheLastAttempt` and
`LateReportsAreIgnored`, where the added invariant `OwnerCurrent` says that while
a row is running for a worker whose slot is busy with that job, the slot runs the
row's current attempt, and the clocks play no role; and `LeasesAreOnlyExtended`,
where they do. The time a call has read is not later than the host's clock
(`TimesOK`), the lease of a running row ends no later than one lease after its
owner's clock, and a heartbeat in flight was not read before the time that the
lease was computed from (`LeaseOK`).

**StockRulesProofs.** Sums over references cannot be reasoned about by induction
here, so they are stated as the size of a set: `Pieces(own)` holds one element for
each piece a reference owns. `PiecesChange` says that a change of one reference
changes the size by as much, for any number of references.

**InventoryProofs.** `TypeCorrect`, `BalancesAreExplained`,
`ConstraintsAreRedundant`, `ReservationsAreMadeOnce`. The argument: a lock holder
holds its row alone (`Exclusive`), and what it read is still the row when it
writes (`TxOK`), although it writes absolute values. Rows are `Valid` because the
tests of `StockRules` are made on what was read under the lock, and the reference's
sum was taken under that lock too. `ReservationsAreOwned`: a commit adds to the
reserved sum of a row what it adds to the reference's own (`Owned`).
`DeadlocksNeedDeletions`: every row a transaction has gone past is smaller than
those it has not (`Placed`), so among transactions that wait for each other
without a deletion each would wait for one that waits for a greater row; but only
finitely many requests have begun, so one of them waits for the greatest
(`Greatest`, by the well-foundedness of the naturals).

**OrderSagaProofs.** `TypeCorrect`, `NothingReservedTwice` (all of
`StockAccounted`), `FailedCreationReleases`, `CancellationRestores`,
`FinalStatusKept`. The invariant: of an order whose calls had the outcome their
request saw (`Clean`), a line is held unless exactly one request has it in force
(`InForce`, `Held`, `LineOK`), the row lock has one owner (`LockOK`), which knows
the status it read (`ProcOK`), and a late request belongs to an order that is
unsure (`LateOK`). That each line is held in full or not at all needs the
assumption that an order names a product once, which `OrderCreate` checks
(`schemas/order.py:46`); that an order has a line is checked there too.

**JobSubmissionProofs.** `TypeCorrect`, `KeysHaveOneJob`. A pending row is alone
with its key, because the index makes every other insert wait for it; a row that
owns a key keeps its id, its work and its key while workers change its status. A
session that met the conflict therefore reads the one row there is.

**ObservabilityProofs.** `TypeCorrect`, `IncidentsLinkedOnce`, `RootCauseEarliest`,
`TotalsKept`, `BatchesWhole`, `ReopenedByOverlap`. Rows are only added, under ids
of the transaction that adds them, and keep what an analysis or a query reads, so
what a session selected or counted stays so until it commits (`SessionOK`); two
transactions that are not committed hold no common key of a unique index
(`Apart`). `RootCauseEarliest` is about the weights of the analysis alone.

**IncidentBackendProofs.** `TypeCorrect`, `RegisteredOnce`, `SummaryAgrees`,
`LockOutNeedsStaleActor`, `TrailTellsRows`, `ListingsReturnAll`. What a session
knows must survive the commits of the others: accounts are never deleted and keep
their address and password, a row that was written is locked, and a fresh id or
address is held by one transaction at a time (`Apart`). That is also why a client that was told 201 finds
its own account under the address, and why no two clients are told 201 of one.
The counts of a dashboard are counts of three tables that agree outside the
incidents touched meanwhile (`SumOK`); each table partitions by status and by
severity, and sets that differ in n elements differ in size by n at most
(`CountsAgree`). The refusal to change one's own role or activity (`SelfHarm`)
leaves requests that act on a stale copy of their actor as the way to lose the last
administrator, in a cycle of any length.

`TrailTellsRows` (the audit trail replays to the rows) needs a second invariant,
`AuditInv`: every event is about the target of its request, which stays (`OwnerOK`);
a transaction that has written has exactly one pending event, which is the last one
about the row it changes and the only one about the row it creates (`RecordOK`,
`OrderOK`); and the committed events tell each row (`Told`). The order of the
trail is the order of the writes, not of the commits: the two agree for one row
because the row stays locked from the write to the commit. The lemmas `ToldChange`,
`ToldCreate`, `ToldDelete`, `ToldRegister` and `ToldWithout` say what a commit and a
rollback do to `Told`.

`ListingsReturnAll` (a paged listing is complete) needs a third, `ListInv`: what a
listing in progress still has to return is visible, and has at least as many items
before it as pages were read (`ListOK`). Another request may append an event, make
events visible or take its pending one back; the events keep their order through
each of these (`Shifted`, `OrderKept`), and an incident in the table keeps its
creation (`SameCreation`), so an item never moves towards the front (`ListKept`). A
page is empty only behind the last item, because the order of the items is total:
`VisibleOrder` takes that from the tie-break by id, `Pages` does the counting.
Items are named by request and kind, which works as a request has one event of a
kind (`Once`). A listing that loses an item, by a deletion or an update that takes
it out of the filter, may skip another: `Noticed` excuses it from then on, and so
does the theorem.

**CommandControlProofs.** `TypeCorrect`, `CommandsAreProcessedInOrder`,
`RetriesGetTheOriginal`, `AcknowledgementsAreTrue`. The invariant ties the three
memories together: the replay history is not behind the log (`Remembered`), the
cache holds the result of every logged command of this process (`CachedIfLogged`)
and nothing but results (`CacheExplained`), and what is about to be sent as a
result is one (`ReplyExplained`). A retry of a logged command is then found in the
cache before any test of validateAndRecord can refuse it.

**Only model-checked**: liveness (`EventuallyDone`, `RequestsEnd`) and the
fairness part of `ImplementsLifecycle`, since the prover does not handle fairness;
`ConfirmsBacked` and `ResolvedIsFinal` are false (section 3).

## 5. Not modelled

Rendering, logging, metrics, migrations and deployment: no state the properties
are about. PostgreSQL itself is taken to implement READ COMMITTED with the row
locks and unique indexes described; a commit is atomic. Of the repository's parts:

- the **rate limiter** and API key check of the observability platform: between
  reading the clock and updating its queue the limiter never awaits, so requests
  cannot interleave in it; the metric summary is an aggregation of one query;
- the **warehouse service** changes single rows, and nothing promises that a
  warehouse stays active while an order is created for it; the **gateway** keeps
  no state, what it can do to a request are faults of `OrderSaga`;
- the **sensor monitor** and the **sensor data platform** are sequential; the
  **frontend** shows the backend's answers (a login that is answered after a
  logout restores the session, `AuthContext.jsx:116`: a hazard outside the models);
- token expiry, password hashing and HMACs: verdicts in the models.

## 6. Plan

Done: the modules above with their runs; proofs about all of them.

Next: `SensorMonitor`, the packets and timeouts of the sensor system, fault detection
and the state as a function of the active faults.
