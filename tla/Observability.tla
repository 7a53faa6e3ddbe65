--------------------------- MODULE Observability ----------------------------
(***************************************************************************)
(* The observability platform: services register, telemetry is ingested    *)
(* and evaluated, critical anomalies open incidents, incidents are         *)
(* acknowledged, resolved and correlated, batches of spans are added to    *)
(* traces, and every table can be queried.                                 *)
(*                                                                         *)
(* A request has a database session of its own.  It reads, decides on what *)
(* it read, and writes later; other requests commit in between.  UPDATEs   *)
(* and INSERTs under a unique index wait for the transaction that wrote    *)
(* the same key.  A commit shows all rows of its transaction at once.      *)
(***************************************************************************)
EXTENDS Integers, Sequences, FiniteSets, FiniteSetsExt

CONSTANTS
  Identity,  \* (service name, environment) pairs
  Source,    \* runtime instances that emit telemetry
  SpanKey,   \* (trace_id, span_id) pairs
  Request,   \* the requests of a behaviour
  Ops,       \* the operations they may ask for
  Items0,    \* telemetry items stored at the start
  Known0,    \* services registered at the start
  Window,    \* window_minutes of an analysis
  MaxTime,   \* bound: how far the clock runs
  None

\* METRIC_RULES, by the name of the metric.
MetricRules ==
  [cpu_usage |-> [threshold |-> 90, unit |-> "percent", severity |-> "critical"],
   memory_usage |-> [threshold |-> 90, unit |-> "percent", severity |-> "critical"],
   response_latency |-> [threshold |-> 500, unit |-> "milliseconds", severity |-> "warning"],
   error_rate |-> [threshold |-> 5, unit |-> "percent", severity |-> "critical"]]

\* What the endpoints accept.
Level == {"debug", "info", "warning", "error", "critical"}
Item ==
  [type : {"metric"}, service : Identity, source : Source, name : STRING, unit : STRING,
   value : Int, timestamp : Nat]
  \cup [type : {"log", "event"}, service : Identity, source : Source, level : Level,
        timestamp : Nat]
Span == {s \in [key : SpanKey, service : Identity, started : 0..MaxTime, ended : 0..MaxTime] :
           s.started <= s.ended}

Registration == [kind : {"register"}, service : Identity]
Batch(op) == op.kind = "ingest" /\ op.items \in Seq(Item) \ {<<>>}
TraceBatch(op) == op.kind = "trace" /\ op.spans \in Seq(Span) \ {<<>>}
Transition == [kind : {"acknowledge", "resolve"}]
Analysis == [kind : {"analyze"}, service : Identity, minimum : 2..100]
Tables == {"services", "telemetry", "anomalies", "incidents", "correlations"}
Query ==
  [kind : {"query"}, table : Tables, want : STRING \cup {None}, from : Nat, to : Nat,
   limit : 1..100, offset : Nat]
Lookup ==
  [kind : {"get"}, table : {"services", "incidents", "correlations"}]
  \cup [kind : {"get_trace"}, trace : {k[1] : k \in SpanKey}]

ASSUME PlatformAssumption ==
  /\ Known0 \subseteq Identity /\ IsFiniteSet(Known0) /\ Window \in Nat /\ MaxTime \in Nat
  /\ None \notin Identity \cup Request /\ None \notin {"warning", "critical"}
  /\ \A op \in Ops : \/ Batch(op) \/ TraceBatch(op)
                      \/ op \in Registration \cup Transition \cup Analysis \cup Query \cup Lookup
  /\ Items0 \in Seq(Item) /\ \A k \in DOMAIN Items0 : Items0[k].service \in Known0

VARIABLES
  now,           \* the clock
  services,      \* [Identity -> number of rows in monitored_services]
  telemetry,     \* [id -> [item, received_at]]: telemetry_records
  anomalies,     \* [id -> severity]: anomaly_records, by the id of their telemetry
  incidents,     \* [id -> row]: incidents, by the id of their trigger
  correlations,  \* set of correlations with their members
  spans,         \* [key -> [span, batch]]: trace_spans, batch the request that sent it
  req            \* [Request -> record]: the session of each request

vars == <<now, services, telemetry, anomalies, incidents, correlations, spans, req>>
tables == <<services, telemetry, anomalies, incidents, correlations, spans>>

\* The rows.
TelemetryRow == [item : Item, received_at : Nat]
AnomalySeverity == {"warning", "critical"}
IncidentStatus == {"open", "acknowledged", "resolved"}
IncidentRow ==
  [service : Identity, created_at : Nat, status : IncidentStatus,
   acknowledged : BOOLEAN, resolved : BOOLEAN]

-----------------------------------------------------------------------------
\* AnomalyDetectionEngine.evaluate: the severity of the finding, or None.  No
\* two rules are about the same metric, so an item has at most one finding.
BySeverity(level) ==
  CASE level = "error" -> "warning" [] level = "critical" -> "critical" [] OTHER -> None

Finding(item) ==
  CASE item.type = "metric" ->
         IF /\ item.name \in DOMAIN MetricRules
            /\ item.unit = MetricRules[item.name].unit
            /\ item.value >= MetricRules[item.name].threshold
         THEN MetricRules[item.name].severity ELSE None
    [] item.type \in {"log", "event"} -> BySeverity(item.level)

Found(items) == {k \in DOMAIN items : Finding(items[k]) # None}
Critical(items) == {k \in DOMAIN items : Finding(items[k]) = "critical"}

NewIncident(service, t) ==
  [service |-> service, created_at |-> t, status |-> "open",
   acknowledged |-> FALSE, resolved |-> FALSE]

\* The rows a transaction adds: the k-th item of request r has the id <<r, k>>.
NewIds(r, K) == {<<r, k>> : k \in K}

\* A table with the rows of a transaction added.
Plus(f, g) == [x \in DOMAIN f \cup DOMAIN g |-> IF x \in DOMAIN g THEN g[x] ELSE f[x]]

-----------------------------------------------------------------------------
\* RootCauseAnalysisEngine: scores in hundredths.
Earliest(S) == Min({telemetry[i].item.timestamp : i \in S})
SourceCount(i, S) ==
  Cardinality({j \in S : telemetry[j].item.source = telemetry[i].item.source})

EarliestLightly == 20
EarliestBonus == 25
CategoryScore(type) == CASE type = "event" -> 20 [] type = "log" -> 10 [] type = "metric" -> 5

Score(i, S) ==
  LET item == telemetry[i].item
      score == 25 + (IF item.timestamp = Earliest(S) THEN EarliestBonus ELSE 0)
                  + CategoryScore(item.type)
                  + (IF anomalies[i] = "critical" THEN 15 ELSE 5)
                  + (IF SourceCount(i, S) > 1 THEN 15 ELSE 0)
  IN  Min({score, 100})

\* The best candidates; among equals the order of random ids decides.
RootCauses(S) ==
  {i \in S : \A j \in S : \/ Score(i, S) > Score(j, S)
                          \/ /\ Score(i, S) = Score(j, S)
                             /\ telemetry[i].item.timestamp <= telemetry[j].item.timestamp}

-----------------------------------------------------------------------------
\* A session: target and seen are the incident it loaded, members and cause
\* what an analysis selected, inserted the number of spans a transaction holds,
\* total and size the answer to a query.
Blank ==
  [pc |-> "idle", op |-> None, since |-> 0, target |-> None, seen |-> None,
   members |-> {}, cause |-> None, inserted |-> 0, total |-> 0, size |-> 0, answer |-> 0]

Started(op) == [Blank EXCEPT !.op = op, !.since = now]
Ended(s, answer) ==
  [Blank EXCEPT !.pc = "ended", !.answer = answer, !.op = s.op, !.total = s.total, !.size = s.size]
At(r, pc) == req[r].pc = pc
Writing(r, K) == At(r, "written") /\ req[r].op.kind \in K
Set(r, s) == req' = [req EXCEPT ![r] = s]

Init ==
  /\ now = 0
  /\ services = [d \in Identity |-> IF d \in Known0 THEN 1 ELSE 0]
  /\ telemetry = [x \in NewIds(None, DOMAIN Items0) |-> [item |-> Items0[x[2]], received_at |-> 0]]
  /\ anomalies = [x \in NewIds(None, Found(Items0)) |-> Finding(Items0[x[2]])]
  /\ incidents = [x \in NewIds(None, Critical(Items0)) |-> NewIncident(Items0[x[2]].service, 0)]
  /\ correlations = {}
  /\ spans = [k \in {} |-> None]
  /\ req = [r \in Request |-> Blank]

Tick == now < MaxTime /\ now' = now + 1 /\ UNCHANGED <<tables, req>>

-----------------------------------------------------------------------------
\* ServiceRegistryService.register: a look-up, then an INSERT that waits for a
\* pending one and fails on uq_monitored_services_name_environment.
LookUp(r, op) ==
  /\ At(r, "idle") /\ op.kind = "register"
  /\ Set(r, IF services[op.service] > 0 THEN Ended(Started(op), 409)
            ELSE [Started(op) EXCEPT !.pc = "loaded"])
  /\ UNCHANGED <<now, tables>>

NotUnique(d) == FALSE
IdentityTaken(d) == services[d] > 0

InsertService(r) ==
  LET d == req[r].op.service IN
  /\ At(r, "loaded") /\ req[r].op.kind = "register"
  /\ ~\E q \in Request \ {r} : Writing(q, {"register"}) /\ req[q].op.service = d
  /\ Set(r, IF IdentityTaken(d) THEN Ended(req[r], 409) ELSE [req[r] EXCEPT !.pc = "written"])
  /\ UNCHANGED <<now, tables>>

\* PersistentTelemetryService.ingest: all services first, then one transaction
\* with the time read before it.
Ingest(r, op) ==
  /\ At(r, "idle") /\ op.kind = "ingest"
  /\ Set(r, IF \E k \in DOMAIN op.items : services[op.items[k].service] = 0
            THEN Ended(Started(op), 422) ELSE [Started(op) EXCEPT !.pc = "written"])
  /\ UNCHANGED <<now, tables>>

\* IncidentService.acknowledge and resolve: load, test the status, update.
AcknowledgeableTwice(status) == status # "acknowledged"
Acknowledgeable(status) == status = "open"
Resolvable(status) == status # "resolved"

MayChange(kind, status) ==
  IF kind = "acknowledge" THEN Acknowledgeable(status) ELSE Resolvable(status)
Loaded(op, i) ==
  [Started(op) EXCEPT !.pc = "loaded", !.target = i, !.seen = incidents[i].status]

LoadIncident(r, op) ==
  /\ At(r, "idle") /\ op.kind \in {"acknowledge", "resolve"}
  /\ \/ DOMAIN incidents = {} /\ Set(r, Ended(Started(op), 404))
     \/ \E i \in DOMAIN incidents :
          Set(r, IF MayChange(op.kind, incidents[i].status) THEN Loaded(op, i)
                 ELSE Ended(Started(op), 409))
  /\ UNCHANGED <<now, tables>>

UpdateIncident(r) ==
  /\ At(r, "loaded") /\ req[r].op.kind \in {"acknowledge", "resolve"}
  /\ ~\E q \in Request \ {r} :
        Writing(q, {"acknowledge", "resolve"}) /\ req[q].target = req[r].target
  /\ Set(r, [req[r] EXCEPT !.pc = "written"])
  /\ UNCHANGED <<now, tables>>

\* The columns a handler assigned.
Updated(kind, row) ==
  IF kind = "acknowledge" THEN [row EXCEPT !.status = "acknowledged", !.acknowledged = TRUE]
  ELSE [row EXCEPT !.status = "resolved", !.resolved = TRUE]

-----------------------------------------------------------------------------
\* CorrelationService.analyze.
Linked == UNION {c.members : c \in correlations}

Uncorrelated(d) ==
  {i \in DOMAIN incidents \ Linked :
     /\ incidents[i].service = d /\ incidents[i].status # "resolved"
     /\ incidents[i].created_at \in (now - Window)..now}

Select(r, op) ==
  /\ At(r, "idle") /\ op.kind = "analyze"
  /\ LET S == Uncorrelated(op.service) IN
     IF Cardinality(S) < op.minimum THEN Set(r, Ended(Started(op), 422))
     ELSE \E c \in RootCauses(S) :
            Set(r, [Started(op) EXCEPT !.pc = "loaded", !.members = S, !.cause = c])
  /\ UNCHANGED <<now, tables>>

\* The INSERT of the links: uq on incident_id makes an analysis that selected
\* the same incidents wait, and then fail as a whole.
LinksUnchecked(S) == FALSE
LinksTaken(S) == S \cap Linked # {}

InsertLinks(r) ==
  /\ At(r, "loaded") /\ req[r].op.kind = "analyze"
  /\ ~\E q \in Request \ {r} :
        Writing(q, {"analyze"}) /\ req[q].members \cap req[r].members # {}
  /\ Set(r, IF LinksTaken(req[r].members) THEN Ended(req[r], 500)
            ELSE [req[r] EXCEPT !.pc = "written"])
  /\ UNCHANGED <<now, tables>>

-----------------------------------------------------------------------------
\* TraceIngestionService.ingest.  The checks of the batch, of the stored spans
\* and of the services, in this order.
Keys(op) == {op.spans[k].key : k \in DOMAIN op.spans}
Repeated(op) == \E j, k \in DOMAIN op.spans : j # k /\ op.spans[j].key = op.spans[k].key

CheckBatch(r, op) ==
  /\ At(r, "idle") /\ op.kind = "trace"
  /\ Set(r, IF Cardinality({k[1] : k \in Keys(op)}) # 1 THEN Ended(Started(op), 422)
            ELSE IF Repeated(op) \/ Keys(op) \cap DOMAIN spans # {} THEN Ended(Started(op), 409)
            ELSE IF \E k \in DOMAIN op.spans : services[op.spans[k].service] = 0
                 THEN Ended(Started(op), 422)
            ELSE [Started(op) EXCEPT !.pc = "loaded"])
  /\ UNCHANGED <<now, tables>>

\* The flush inserts one span after the other.  Under
\* uq_trace_spans_trace_id_span_id it waits for a pending span and fails on a
\* committed one; two batches that wait for each other end with Fail.
SpanPending(r, k) ==
  \E q \in Request \ {r} : \E n \in 1..req[q].inserted : req[q].op.spans[n].key = k
SpanUnchecked(k) == FALSE
SpanTaken(k) == k \in DOMAIN spans

InsertSpan(r) ==
  LET s == req[r]
      key == s.op.spans[s.inserted + 1].key
  IN  /\ At(r, "loaded") /\ s.op.kind = "trace"
      /\ ~SpanPending(r, key)
      /\ Set(r, IF SpanTaken(key) THEN Ended(s, 500)
                ELSE [s EXCEPT !.inserted = @ + 1,
                               !.pc = IF s.inserted + 1 = Len(s.op.spans) THEN "written" ELSE @])
      /\ UNCHANGED <<now, tables>>

\* TraceQueryService: the number of spans and the wall-clock duration.
GetTrace(r, op) ==
  LET found == {spans[k].span : k \in {j \in DOMAIN spans : j[1] = op.trace}} IN
  /\ At(r, "idle") /\ op.kind = "get_trace"
  /\ Set(r, IF found = {} THEN Ended(Started(op), 404)
            ELSE Ended([Started(op) EXCEPT
                          !.total = Cardinality(found),
                          !.size = Max({s.ended : s \in found}) - Min({s.started : s \in found})],
                       200))
  /\ UNCHANGED <<now, tables>>

-----------------------------------------------------------------------------
\* Queries: one statement counts the matching rows, a second one reads a page.
\* Telemetry, anomalies and incidents refuse a range that ends before it begins.
Rows(table) ==
  CASE table = "services" -> {d \in Identity : services[d] > 0}
    [] table = "telemetry" -> DOMAIN telemetry
    [] table = "anomalies" -> DOMAIN anomalies
    [] table = "incidents" -> DOMAIN incidents
    [] table = "correlations" -> correlations

Matches(table, x, want) ==
  \/ want = None \/ table \in {"services", "correlations"}
  \/ table = "telemetry" /\ telemetry[x].item.type = want
  \/ table = "anomalies" /\ anomalies[x] = want
  \/ table = "incidents" /\ incidents[x].status = want

TimeOf(table, x) ==
  CASE table = "telemetry" -> telemetry[x].item.timestamp
    [] table = "anomalies" -> telemetry[x].received_at
    [] table = "incidents" -> incidents[x].created_at
    [] table = "correlations" -> x.created_at
    [] OTHER -> 0

Matching(op) ==
  {x \in Rows(op.table) : /\ Matches(op.table, x, op.want)
                          /\ TimeOf(op.table, x) \in op.from..op.to}

\* func.count over the same joins and filters.
TotalUnfiltered(op) == Cardinality(Rows(op.table))
Total(op) == Cardinality(Matching(op))

Count(r, op) ==
  /\ At(r, "idle") /\ op.kind = "query"
  /\ Set(r, IF op.table \in {"telemetry", "anomalies", "incidents"} /\ op.from > op.to
            THEN Ended(Started(op), 422)
            ELSE [Started(op) EXCEPT !.pc = "counted", !.total = Total(op)])
  /\ UNCHANGED <<now, tables>>

\* The number of items on a page after offset rows.
PageSize(n, op) == Max({0, Min({op.limit, n - op.offset})})

Page(r) ==
  /\ At(r, "counted")
  /\ LET n == Cardinality(Matching(req[r].op))
     IN  Set(r, Ended([req[r] EXCEPT !.size = PageSize(n, req[r].op)], 200))
  /\ UNCHANGED <<now, tables>>

\* One service, incident or correlation.  A correlation's links are read after
\* its row, but both were committed together and never change.
Get(r, op) ==
  /\ At(r, "idle") /\ op.kind = "get"
  /\ \/ Set(r, Ended(Started(op), 404))
     \/ Rows(op.table) # {} /\ Set(r, Ended(Started(op), 200))
  /\ UNCHANGED <<now, tables>>

-----------------------------------------------------------------------------
\* The commits, and the rollback of any transaction.
Finish(r, answer) == Set(r, Ended(req[r], answer)) /\ UNCHANGED now

CommitService(r) ==
  /\ Writing(r, {"register"}) /\ Finish(r, 201)
  /\ services' = [services EXCEPT ![req[r].op.service] = @ + 1]
  /\ UNCHANGED <<telemetry, anomalies, incidents, correlations, spans>>

CommitBatch(r) ==
  LET items == req[r].op.items
      t == req[r].since
  IN  /\ Writing(r, {"ingest"}) /\ Finish(r, 202)
      /\ telemetry' = Plus(telemetry, [x \in NewIds(r, DOMAIN items) |->
                                        [item |-> items[x[2]], received_at |-> t]])
      /\ anomalies' = Plus(anomalies, [x \in NewIds(r, Found(items)) |-> Finding(items[x[2]])])
      /\ incidents' = Plus(incidents, [x \in NewIds(r, Critical(items)) |->
                                        NewIncident(items[x[2]].service, t)])
      /\ UNCHANGED <<services, correlations, spans>>

CommitIncident(r) ==
  /\ Writing(r, {"acknowledge", "resolve"}) /\ Finish(r, 200)
  /\ incidents' = [incidents EXCEPT ![req[r].target] = Updated(req[r].op.kind, @)]
  /\ UNCHANGED <<services, telemetry, anomalies, correlations, spans>>

CommitCorrelation(r) ==
  LET s == req[r] IN
  /\ Writing(r, {"analyze"}) /\ Finish(r, 201)
  /\ correlations' = correlations \cup
       {[id |-> r, service |-> s.op.service, members |-> s.members, cause |-> s.cause,
         minimum |-> s.op.minimum, created_at |-> s.since]}
  /\ UNCHANGED <<services, telemetry, anomalies, incidents, spans>>

CommitTrace(r) ==
  LET s == req[r].op.spans
      at(k) == CHOOSE n \in DOMAIN s : s[n].key = k
  IN  /\ Writing(r, {"trace"}) /\ Finish(r, 202)
      /\ spans' = Plus(spans, [k \in Keys(req[r].op) |-> [span |-> s[at(k)], batch |-> r]])
      /\ UNCHANGED <<services, telemetry, anomalies, incidents, correlations>>

Fail(r) ==
  /\ req[r].pc \in {"loaded", "written", "counted"}
  /\ Set(r, Ended(req[r], 500))
  /\ UNCHANGED <<now, tables>>

Next ==
  \/ Tick
  \/ \E r \in Request :
       \/ \E op \in Ops : \/ LookUp(r, op) \/ Ingest(r, op) \/ LoadIncident(r, op)
                          \/ Select(r, op) \/ CheckBatch(r, op)
                          \/ Count(r, op) \/ Get(r, op) \/ GetTrace(r, op)
       \/ InsertService(r) \/ UpdateIncident(r) \/ InsertLinks(r) \/ InsertSpan(r) \/ Page(r)
       \/ CommitService(r) \/ CommitBatch(r) \/ CommitIncident(r) \/ CommitCorrelation(r)
       \/ CommitTrace(r) \/ Fail(r)

Spec == Init /\ [][Next]_vars

-----------------------------------------------------------------------------
\* The tables have their types; in particular no service identity has two rows,
\* however registrations race.
TypeOK ==
  /\ now \in 0..MaxTime
  /\ services \in [Identity -> 0..1]
  /\ DOMAIN incidents \subseteq DOMAIN anomalies /\ DOMAIN anomalies \subseteq DOMAIN telemetry
  /\ \A i \in DOMAIN telemetry : telemetry[i] \in TelemetryRow
  /\ \A i \in DOMAIN anomalies : anomalies[i] \in AnomalySeverity
  /\ \A i \in DOMAIN incidents : incidents[i] \in IncidentRow
  /\ \A k \in DOMAIN spans : spans[k].span \in Span /\ spans[k].span.key = k
  /\ \A r \in Request :
       /\ req[r].pc \in {"idle", "loaded", "written", "counted", "ended"}
       /\ req[r].total \in Nat /\ req[r].size \in Nat

\* "Prevention of incident reuse across correlations": however analyses overlap,
\* correlations are disjoint, and each one links at least as many incidents as
\* were asked for, all of them critical and of its service and window, its root
\* cause among them.
CorrelationsExclusive ==
  /\ \A c, d \in correlations : c # d => c.members \cap d.members = {}
  /\ \A c \in correlations :
       /\ Cardinality(c.members) >= c.minimum /\ c.cause \in c.members
       /\ \A i \in c.members :
            /\ anomalies[i] = "critical" /\ incidents[i].service = c.service
            /\ incidents[i].created_at \in (c.created_at - Window)..c.created_at

\* What the weights of the analysis add up to: a later signal is named the root
\* cause instead of the earliest one only if it is an event from a source with
\* several incidents and every earliest signal is a metric from a source of its
\* own.
EarliestUnlessOutweighed ==
  \A c \in correlations :
    LET item(i) == telemetry[i].item
        first == {i \in c.members : item(i).timestamp = Earliest(c.members)}
    IN  c.cause \in first \/ (/\ item(c.cause).type = "event"
                              /\ SourceCount(c.cause, c.members) > 1
                              /\ \A i \in first : /\ item(i).type = "metric"
                                                  /\ SourceCount(i, c.members) = 1)

\* "If any constraint fails, no partial distributed trace remains": however
\* batches overlap, a batch that was accepted is stored whole, each span as it
\* was sent, and nothing is stored of a batch that was refused.
TraceBatchesWhole ==
  \A r \in Request : At(r, "ended") /\ req[r].op.kind = "trace" =>
    LET stored == {k \in DOMAIN spans : spans[k].batch = r} IN
    IF req[r].answer = 202
    THEN \A n \in DOMAIN req[r].op.spans :
           LET s == req[r].op.spans[n] IN s.key \in stored /\ spans[s.key].span = s
    ELSE stored = {}

\* A query never shows fewer rows than its total promises, although the rows are
\* read after they were counted: nothing is removed from a table, and only the
\* status of an incident changes.
PagesNotShort ==
  \A r \in Request :
    LET op == req[r].op IN
    req[r].answer = 200 /\ op.kind = "query" /\ ~(op.table = "incidents" /\ op.want # None) =>
      /\ req[r].size >= PageSize(req[r].total, op)
      /\ req[r].size <= op.limit

\* A resolved incident is reopened only by an acknowledgement that loaded it
\* while it was open; and who resolved it stays recorded.
ReopenedOnlyByOverlap ==
  [][\A i \in DOMAIN incidents : incidents[i].resolved =>
       /\ incidents'[i].resolved
       /\ incidents[i].status = "resolved" /\ incidents'[i].status # "resolved" =>
            \E r \in Request : /\ Writing(r, {"acknowledge"}) /\ req[r].target = i
                               /\ req[r].seen = "open" /\ req'[r].pc = "ended"]_vars

\* "A resolved incident cannot return to an earlier state."
ResolvedIsFinal ==
  [][\A i \in DOMAIN incidents :
       incidents[i].status = "resolved" => incidents'[i].status = "resolved"]_vars
=============================================================================
