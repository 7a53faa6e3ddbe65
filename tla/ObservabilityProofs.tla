------------------------- MODULE ObservabilityProofs -------------------------
(***************************************************************************)
(* Theorems about Observability, for any services, telemetry, span batches *)
(* and overlapping requests.  What carries them is that rows are added     *)
(* under ids of the transaction that adds them and keep what an analysis   *)
(* or a query reads, so what a session selected stays true until it        *)
(* commits, and that the unique indexes keep two uncommitted transactions  *)
(* from holding the same key.                                              *)
(***************************************************************************)
EXTENDS Observability, FiniteSetTheorems, WellFoundedInduction, TLAPS

\* The shape of a session: only one that ended has an answer.
Session(s) ==
  /\ s \in [pc : {"idle", "loaded", "written", "counted", "ended"}, op : {s.op}, since : Nat,
            target : {s.target}, seen : {s.seen}, members : {s.members}, cause : {s.cause},
            inserted : Nat, total : Nat, size : Nat, answer : Int]
  /\ s.pc # "ended" => s.answer = 0

\* What an analysis asserts about the root cause it names.
Weighed(cause, S) ==
  LET item(i) == telemetry[i].item
      first == {i \in S : item(i).timestamp = Earliest(S)}
  IN  cause \in first \/ (/\ item(cause).type = "event" /\ SourceCount(cause, S) > 1
                          /\ \A i \in first : item(i).type = "metric" /\ SourceCount(i, S) = 1)

\* Incidents that may be correlated: S of service d, at time t.
Correlatable(S, d, minimum, cause, t) ==
  /\ IsFiniteSet(S) /\ S \subseteq DOMAIN incidents
  /\ Cardinality(S) >= minimum /\ cause \in S /\ Weighed(cause, S)
  /\ \A i \in S : incidents[i].service = d /\ incidents[i].created_at \in (t - Window)..t

\* A query whose rows cannot leave the selection.
Growing(op) == op.kind = "query" /\ ~(op.table = "incidents" /\ op.want # None)

Whole(r) ==
  \A n \in DOMAIN req[r].op.spans :
    LET s == req[r].op.spans[n] IN
    s.key \in DOMAIN spans /\ spans[s.key].batch = r /\ spans[s.key].span = s

\* What a session knows about the tables.
Open(r) == req[r].pc \in {"loaded", "written"}

IdleOK(r) ==
  /\ At(r, "idle") => req[r] = Blank
  /\ ~At(r, "idle") => req[r].op \in Ops
  /\ ~(Open(r) /\ req[r].op.kind = "trace") => req[r].inserted = 0

CountedOK(r) ==
  At(r, "counted") =>
    req[r].op.kind = "query" /\ (Growing(req[r].op) => req[r].total <= Total(req[r].op))

EndedOK(r) ==
  LET s == req[r] op == req[r].op IN
  At(r, "ended") =>
    /\ op.kind = "trace" /\ s.answer = 202 => Whole(r)
    /\ s.answer = 200 /\ Growing(op) => s.size >= PageSize(s.total, op) /\ s.size <= op.limit

OpenOK(r) ==
  LET s == req[r] op == req[r].op IN
  Open(r) =>
    /\ op.kind \in {"acknowledge", "resolve"} => s.target \in DOMAIN incidents
    /\ op.kind = "acknowledge" => s.seen = "open"
    /\ op.kind = "analyze" => Correlatable(s.members, op.service, op.minimum, s.cause, s.since)
    /\ op.kind = "trace" =>
         /\ ~Repeated(op)
         /\ IF At(r, "written") THEN s.inserted = Len(op.spans) ELSE s.inserted < Len(op.spans)

\* The keys that it holds are not taken.
WrittenOK(r) ==
  /\ Writing(r, {"register"}) => services[req[r].op.service] = 0
  /\ Writing(r, {"analyze"}) => req[r].members \cap Linked = {}
  /\ \A n \in 1..req[r].inserted : req[r].op.spans[n].key \notin DOMAIN spans

SessionOK(r) == IdleOK(r) /\ CountedOK(r) /\ EndedOK(r) /\ OpenOK(r) /\ WrittenOK(r)

\* Two uncommitted transactions hold no key of a unique index in common.
Apart(q, r) ==
  /\ Writing(q, {"register"}) /\ Writing(r, {"register"}) => req[q].op.service # req[r].op.service
  /\ Writing(q, {"analyze"}) /\ Writing(r, {"analyze"}) => req[q].members \cap req[r].members = {}
  /\ \A m \in 1..req[q].inserted, n \in 1..req[r].inserted :
       req[q].op.spans[m].key # req[r].op.spans[n].key

\* The tables: rows have the id of a transaction that ended.
Committed(r) == r = None \/ (r \in Request /\ At(r, "ended"))
TelemetryOK ==
  /\ IsFiniteSet(DOMAIN telemetry) /\ \A i \in DOMAIN telemetry : Committed(i[1])
  /\ DOMAIN incidents \subseteq DOMAIN anomalies /\ DOMAIN anomalies \subseteq DOMAIN telemetry
  /\ \A i \in DOMAIN telemetry : telemetry[i] \in TelemetryRow
  /\ \A i \in DOMAIN anomalies : anomalies[i] \in AnomalySeverity
  /\ \A i \in DOMAIN incidents : incidents[i] \in IncidentRow /\ anomalies[i] = "critical"

ServicesOK == services \in [Identity -> 0..1] /\ IsFiniteSet({d \in Identity : services[d] > 0})

CorrelationsOK ==
  /\ IsFiniteSet(correlations)
  /\ \A c, d \in correlations : c # d => c.members \cap d.members = {}
  /\ \A c \in correlations : Correlatable(c.members, c.service, c.minimum, c.cause, c.created_at)

SpansOK ==
  /\ IsFiniteSet(DOMAIN spans)
  /\ \A k \in DOMAIN spans :
       LET b == spans[k].batch IN
       /\ spans[k].span \in Span /\ spans[k].span.key = k
       /\ b \in Request /\ At(b, "ended") /\ req[b].answer = 202

\* The inductive invariant.
IInv ==
  /\ now \in 0..MaxTime
  /\ TelemetryOK /\ ServicesOK /\ CorrelationsOK /\ SpansOK
  /\ req = [r \in Request |-> req[r]]
  /\ \A r \in Request : Session(req[r]) /\ SessionOK(r)
  /\ \A q, r \in Request : q # r => Apart(q, r)

-----------------------------------------------------------------------------
(* The operators of the model                                              *)

\* Min finds the least of a set of naturals, Max the greatest of a bounded one.
LEMMA LeastNatural ==
  ASSUME NEW S, S \subseteq Nat, S # {}
  PROVE  Min(S) \in S /\ \A y \in S : Min(S) <= y
<1> DEFINE R == OpToRel(<, Nat)
<1>1. IsWellFoundedOn(R, Nat)
  BY NatLessThanWellFounded
<1>. HIDE DEF R
<1>2. PICK x \in S : \A y \in S : ~(<<y, x>> \in R)
  BY <1>1, WFMin
<1>3. \A x1, y1 \in Nat : <<y1, x1>> \in R <=> y1 < x1
  BY DEF R, OpToRel
<1>4. ASSUME NEW y \in S PROVE x <= y
  <2>1. ~(<<y, x>> \in R) /\ x \in Nat /\ y \in Nat
    BY <1>2
  <2>2. <<y, x>> \in R <=> y < x
    BY <1>3, <2>1
  <2>. QED
    BY <2>1, <2>2
<1>. QED
  BY <1>4 DEF Min

LEMMA GreatestNatural ==
  ASSUME NEW b \in Nat, NEW S, S \subseteq 0..b, S # {}
  PROVE  Max(S) \in S /\ \A y \in S : y <= Max(S)
<1> DEFINE T == {k \in 0..b : b - k \in S}
<1>1. T \subseteq Nat /\ T # {}
  <2>1. PICK y \in S : y \in 0..b
    OBVIOUS
  <2>2. b - y \in 0..b /\ b - (b - y) = y
    BY <2>1
  <2>. QED
    BY <2>1, <2>2
<1>2. PICK x \in T : \A y \in T : x <= y
  BY <1>1, LeastNatural
<1>3. ASSUME NEW y \in S PROVE b - x >= y
  <2>1. y \in 0..b /\ b - y \in 0..b /\ b - (b - y) = y
    OBVIOUS
  <2>2. b - y \in T
    BY <2>1
  <2>3. x <= b - y /\ x \in 0..b
    BY <1>2, <2>2
  <2>. QED
    BY <2>1, <2>3
<1>4. b - x \in S
  BY <1>2
<1>. HIDE DEF T
<1>5. \E m \in S : \A y \in S : m >= y
  BY <1>3, <1>4
<1>6. \A y \in S : Max(S) >= y
  BY <1>5 DEF Max
<1>7. Max(S) \in S
  BY <1>5 DEF Max
<1>. QED
  BY <1>6, <1>7

\* A page holds at most limit rows, and no fewer when there are more rows.
LEMMA PageSizeFacts ==
  ASSUME NEW op, op.limit \in 1..100, op.offset \in Nat, NEW n \in Nat
  PROVE  /\ PageSize(n, op) \in Nat /\ PageSize(n, op) <= op.limit
         /\ \A m \in Nat : m <= n => PageSize(m, op) <= PageSize(n, op)
<1>1. ASSUME NEW a \in Int, NEW b \in Int
      PROVE  /\ Min({a, b}) = IF a <= b THEN a ELSE b
             /\ Max({a, b}) = IF a <= b THEN b ELSE a
  <2>1. Min({a, b}) = CHOOSE x \in {a, b} : \A y \in {a, b} : x <= y
    BY DEF Min
  <2>2. Max({a, b}) = CHOOSE x \in {a, b} : \A y \in {a, b} : x >= y
    BY DEF Max
  <2>. QED
    BY <2>1, <2>2
<1>2. ASSUME NEW k \in Nat
      PROVE  \E m \in Int : /\ m = IF op.limit <= k - op.offset THEN op.limit ELSE k - op.offset
                            /\ PageSize(k, op) = IF 0 <= m THEN m ELSE 0
  <2> DEFINE m == Min({op.limit, k - op.offset})
  <2>1. op.limit \in Int /\ k - op.offset \in Int
    OBVIOUS
  <2>2. m = IF op.limit <= k - op.offset THEN op.limit ELSE k - op.offset
    BY <1>1, <2>1
  <2>3. m \in Int
    BY <2>1, <2>2
  <2>4. PageSize(k, op) = Max({0, m})
    BY DEF PageSize
  <2>. HIDE DEF m
  <2>5. PageSize(k, op) = IF 0 <= m THEN m ELSE 0
    BY <1>1, <2>3, <2>4
  <2>. QED
    BY <2>2, <2>3, <2>5
<1>3. PageSize(n, op) \in Nat /\ PageSize(n, op) <= op.limit
  <2>1. PICK m \in Int : /\ m = IF op.limit <= n - op.offset THEN op.limit ELSE n - op.offset
                         /\ PageSize(n, op) = IF 0 <= m THEN m ELSE 0
    BY <1>2
  <2>. QED
    BY <2>1
<1>4. ASSUME NEW k \in Nat, k <= n PROVE PageSize(k, op) <= PageSize(n, op)
  <2>1. PICK m \in Int : /\ m = IF op.limit <= n - op.offset THEN op.limit ELSE n - op.offset
                         /\ PageSize(n, op) = IF 0 <= m THEN m ELSE 0
    BY <1>2
  <2>2. PICK l \in Int : /\ l = IF op.limit <= k - op.offset THEN op.limit ELSE k - op.offset
                         /\ PageSize(k, op) = IF 0 <= l THEN l ELSE 0
    BY <1>2
  <2>3. l <= m
    BY <1>4, <2>1, <2>2
  <2>. QED
    BY <2>1, <2>2, <2>3
<1>. QED
  BY <1>3, <1>4

LEMMA OpFacts ==
  ASSUME NEW op \in Ops
  PROVE  /\ op.kind \in {"register", "ingest", "acknowledge", "resolve", "analyze", "trace",
                         "query", "get", "get_trace"}
         /\ op.kind = "register" => op.service \in Identity
         /\ op.kind = "ingest" => op.items \in Seq(Item)
         /\ op.kind = "trace" => op.spans \in Seq(Span) /\ op.spans # <<>>
         /\ op.kind = "analyze" => op.service \in Identity /\ op.minimum \in 2..100
         /\ op.kind = "query" => op.table \in Tables /\ op.limit \in 1..100 /\ op.offset \in Nat
<1>1. \/ Batch(op) \/ TraceBatch(op)
      \/ op \in Registration \cup Transition \cup Analysis \cup Query \cup Lookup
  BY PlatformAssumption
<1>2. CASE Batch(op)
  BY <1>2 DEF Batch
<1>3. CASE TraceBatch(op)
  BY <1>3 DEF TraceBatch
<1>4. CASE op \in Registration \cup Transition
  BY <1>4 DEF Registration, Transition
<1>5. CASE op \in Analysis
  BY <1>5 DEF Analysis
<1>6. CASE op \in Query
  BY <1>6 DEF Query
<1>7. CASE op \in Lookup
  BY <1>7 DEF Lookup
<1>. QED
  BY <1>1, <1>2, <1>3, <1>4, <1>5, <1>6, <1>7

LEMMA FindingFacts ==
  ASSUME NEW item \in Item
  PROVE  Finding(item) \in AnomalySeverity \cup {None}
<1>1. \A n \in DOMAIN MetricRules : MetricRules[n].severity \in AnomalySeverity
  BY DEF MetricRules, AnomalySeverity
<1>2. CASE item.type = "metric"
  BY <1>1, <1>2 DEF Finding
<1>3. CASE item.type \in {"log", "event"}
  BY <1>3 DEF Finding, BySeverity, AnomalySeverity
<1>. QED
  BY <1>2, <1>3 DEF Item

\* The ids of a transaction are as many as its items, and its own.
LEMMA NewIdsFacts ==
  ASSUME NEW r, NEW K, IsFiniteSet(K)
  PROVE  /\ IsFiniteSet(NewIds(r, K))
         /\ \A i \in NewIds(r, K) : i[1] = r /\ i[2] \in K /\ i = <<r, i[2]>>
<1> DEFINE f == [i \in NewIds(r, K) |-> i[2]]
<1>1. \A i \in NewIds(r, K) : i[1] = r /\ i[2] \in K /\ i = <<r, i[2]>>
  BY DEF NewIds
<1>2. f \in Injection(NewIds(r, K), K)
  <2>1. f \in [NewIds(r, K) -> K]
    BY <1>1
  <2>2. \A i, j \in NewIds(r, K) : f[i] = f[j] => i = j
    BY <1>1
  <2>. QED
    BY <2>1, <2>2 DEF Injection, IsInjective
<1>3. IsFiniteSet(NewIds(r, K))
  BY <1>2, FS_Injection
<1>. QED
  BY <1>1, <1>3

LEMMA PlusFacts ==
  ASSUME NEW f, NEW g, DOMAIN f \cap DOMAIN g = {}
  PROVE  /\ DOMAIN Plus(f, g) = DOMAIN f \cup DOMAIN g
         /\ \A x \in DOMAIN f : Plus(f, g)[x] = f[x]
         /\ \A x \in DOMAIN g : Plus(f, g)[x] = g[x]
  BY DEF Plus

LEMMA SetFacts ==
  ASSUME req = [q \in Request |-> req[q]], NEW r \in Request, NEW s, Set(r, s)
  PROVE  /\ req' = [q \in Request |-> req'[q]]
         /\ req'[r] = s
         /\ \A q \in Request \ {r} : req'[q] = req[q]
  BY DEF Set

LEMMA StartedFacts ==
  ASSUME NEW op, now \in Nat
  PROVE  LET s == Started(op) IN
         /\ s \in [pc : {"idle"}, op : {op}, since : {now}, target : {None}, seen : {None},
                   members : {{}}, cause : {None}, inserted : {0}, total : {0}, size : {0},
                   answer : {0}]
         /\ s.op = op /\ s.since = now /\ s.inserted = 0 /\ s.total = 0 /\ s.size = 0
  BY DEF Started, Blank

LEMMA LoadedFacts ==
  ASSUME NEW op, now \in Nat, NEW i
  PROVE  LET u == Loaded(op, i) IN
         /\ Session(u) /\ u.op = op /\ u.inserted = 0 /\ u.pc = "loaded"
         /\ u.target = i /\ u.seen = incidents[i].status
<1>1. PICK b : b = Started(op)
  OBVIOUS
<1>2. b \in [pc : {"idle"}, op : {op}, since : Nat, target : {None}, seen : {None},
             members : {{}}, cause : {None}, inserted : {0}, total : {0}, size : {0}, answer : {0}]
  BY <1>1, StartedFacts
<1>3. PICK status : status = incidents[i].status
  OBVIOUS
<1> DEFINE u == [b EXCEPT !.pc = "loaded", !.target = i, !.seen = status]
<1>4. u \in [pc : {"loaded"}, op : {op}, since : Nat, target : {i}, seen : {status},
             members : {{}}, cause : {None}, inserted : {0}, total : {0}, size : {0}, answer : {0}]
  BY <1>2
<1>5. u = Loaded(op, i)
  BY <1>1, <1>3 DEF Loaded
<1>. HIDE DEF u
<1>6. /\ Session(u) /\ u.op = op /\ u.inserted = 0 /\ u.pc = "loaded"
      /\ u.target = i /\ u.seen = status
  BY <1>4 DEF Session
<1>. QED
  BY <1>3, <1>5, <1>6

LEMMA EndedFacts ==
  ASSUME NEW s, s.total \in Nat, s.size \in Nat, NEW a \in Int
  PROVE  LET e == Ended(s, a) IN
         /\ Session(e)
         /\ e.pc = "ended" /\ e.op = s.op /\ e.answer = a /\ e.inserted = 0
         /\ e.total = s.total /\ e.size = s.size
  BY DEF Ended, Blank, Session

-----------------------------------------------------------------------------
(* What stays true while other transactions commit                         *)

\* Rows are only added, and only the status of an incident changes.
Grows ==
  /\ \A d \in Identity : services[d] > 0 => services'[d] > 0
  /\ DOMAIN telemetry \subseteq DOMAIN telemetry' /\ DOMAIN anomalies \subseteq DOMAIN anomalies'
  /\ DOMAIN incidents \subseteq DOMAIN incidents' /\ DOMAIN spans \subseteq DOMAIN spans'
  /\ correlations \subseteq correlations'
  /\ \A i \in DOMAIN telemetry : telemetry'[i] = telemetry[i]
  /\ \A i \in DOMAIN anomalies : anomalies'[i] = anomalies[i]
  /\ \A i \in DOMAIN incidents : /\ incidents'[i].service = incidents[i].service
                                /\ incidents'[i].created_at = incidents[i].created_at
  /\ \A k \in DOMAIN spans : spans'[k] = spans[k]

TablesOK == TelemetryOK /\ ServicesOK /\ CorrelationsOK /\ SpansOK

\* The rows a query selects from are finitely many.
Countable(op) == IsFiniteSet(Matching(op)) /\ Total(op) \in Nat

LEMMA RowsFinite == TablesOK => \A op : op.table \in Tables => Countable(op)
<1>. SUFFICES ASSUME TablesOK, NEW op, op.table \in Tables PROVE Countable(op)
  OBVIOUS
<1>1. IsFiniteSet(DOMAIN telemetry) /\ IsFiniteSet(DOMAIN anomalies) /\ IsFiniteSet(DOMAIN incidents)
  BY FS_Subset DEF TablesOK, TelemetryOK
<1>2. IsFiniteSet(Rows(op.table))
  BY <1>1 DEF Rows, Tables, TablesOK, ServicesOK, CorrelationsOK
<1>3. Matching(op) \subseteq Rows(op.table)
  BY DEF Matching
<1>4. IsFiniteSet(Matching(op))
  BY <1>2, <1>3, FS_Subset
<1>. QED
  BY <1>4, FS_CardinalityType DEF Total, Countable

LEMMA RowsFiniteNext == TablesOK' => \A op : op.table \in Tables => Countable(op)'
<1>1. (TablesOK => \A op : op.table \in Tables => Countable(op))'
  BY RowsFinite, PTL
<1>. QED
  BY <1>1

\* The total of a growing query does not shrink.
LEMMA TotalGrows ==
  ASSUME TablesOK, TablesOK', Grows, NEW op \in Ops, Growing(op)
  PROVE  Total(op) <= Total(op)'
<1>1. op.table \in Tables
  BY OpFacts DEF Growing
<1>2. ASSUME NEW x \in Matching(op) PROVE x \in Matching(op)'
  <2>1. x \in Rows(op.table) /\ Matches(op.table, x, op.want) /\ TimeOf(op.table, x) \in op.from..op.to
    BY DEF Matching
  <2>2. /\ DOMAIN anomalies \subseteq DOMAIN telemetry
        /\ DOMAIN incidents \subseteq DOMAIN telemetry
    BY DEF TablesOK, TelemetryOK
  <2>3. CASE op.table = "services"
    BY <2>1, <2>3 DEF Grows, Matching, Rows, Matches, TimeOf
  <2>4. CASE op.table = "telemetry"
    BY <2>1, <2>4 DEF Grows, Matching, Rows, Matches, TimeOf
  <2>5. CASE op.table = "anomalies"
    BY <2>1, <2>2, <2>5 DEF Grows, Matching, Rows, Matches, TimeOf
  <2>6. CASE op.table = "incidents"
    BY <2>1, <2>6 DEF Grows, Matching, Rows, Matches, TimeOf, Growing
  <2>7. CASE op.table = "correlations"
    BY <2>1, <2>7 DEF Grows, Matching, Rows, Matches, TimeOf
  <2>. QED
    BY <1>1, <2>3, <2>4, <2>5, <2>6, <2>7 DEF Tables
<1>3. Matching(op) \subseteq Matching(op)' /\ IsFiniteSet(Matching(op)')
  BY <1>1, <1>2, RowsFiniteNext DEF Countable
<1>. QED
  BY <1>3, FS_Subset DEF Total

\* What an analysis found out about stored incidents does not change.
LEMMA CorrelatableKept ==
  ASSUME TablesOK, Grows,
         NEW S, NEW d, NEW minimum, NEW cause, NEW t, Correlatable(S, d, minimum, cause, t)
  PROVE  Correlatable(S, d, minimum, cause, t)'
<1>1. S \subseteq DOMAIN telemetry /\ cause \in S
  BY DEF Correlatable, TablesOK, TelemetryOK
<1>2. \A i \in S : telemetry'[i].item = telemetry[i].item
  BY <1>1 DEF Grows
<1>3. Earliest(S)' = Earliest(S)
  <2>1. {telemetry'[i].item.timestamp : i \in S} = {telemetry[i].item.timestamp : i \in S}
    BY <1>2
  <2>. QED
    BY <2>1 DEF Earliest
<1>4. \A i \in S : SourceCount(i, S)' = SourceCount(i, S)
  <2>1. ASSUME NEW i \in S
        PROVE  {j \in S : telemetry'[j].item.source = telemetry'[i].item.source}
                 = {j \in S : telemetry[j].item.source = telemetry[i].item.source}
    BY <1>2
  <2>. QED
    BY <2>1 DEF SourceCount
<1>5. Weighed(cause, S)'
  BY <1>1, <1>2, <1>3, <1>4 DEF Weighed, Correlatable
<1>. QED
  BY <1>5 DEF Correlatable, Grows

\* What a session knows stays true while others commit, provided nobody commits
\* a key that it holds under a unique index.
LEMMA SessionKept ==
  ASSUME TablesOK, TablesOK', Grows, NEW r \in Request, SessionOK(r), req'[r] = req[r],
         Session(req[r]), WrittenOK(r)'
  PROVE  SessionOK(r)'
<1>1. CountedOK(r)'
  <2>1. SUFFICES ASSUME NEW op, op = req[r].op, At(r, "counted"), Growing(op)
                 PROVE  req[r].total <= Total(op)'
    BY DEF SessionOK, CountedOK, At
  <2>2. op \in Ops /\ req[r].total <= Total(op) /\ req[r].total \in Nat
    BY <2>1 DEF SessionOK, IdleOK, CountedOK, Session, At
  <2>3. op.table \in Tables
    BY <2>1, <2>2, OpFacts DEF Growing
  <2>4. Total(op) \in Nat /\ Total(op)' \in Nat
    BY <2>3, RowsFinite, RowsFiniteNext DEF Countable
  <2>5. Total(op) <= Total(op)'
    BY <2>1, <2>2, TotalGrows
  <2>. QED
    BY <2>2, <2>4, <2>5
<1>2. EndedOK(r)'
  <2>1. Whole(r) => Whole(r)'
    BY DEF Whole, Grows
  <2>. QED
    BY <2>1 DEF SessionOK, EndedOK, At
<1>3. OpenOK(r)'
  <2>1. Open(r) /\ req[r].op.kind = "analyze" =>
          Correlatable(req[r].members, req[r].op.service, req[r].op.minimum, req[r].cause,
                       req[r].since)'
    BY CorrelatableKept DEF SessionOK, OpenOK
  <2>2. Open(r)' = Open(r) /\ At(r, "written")' = At(r, "written")
    BY DEF Open, At
  <2>. QED
    BY <2>1, <2>2 DEF SessionOK, OpenOK, Grows
<1>4. IdleOK(r)'
  BY DEF SessionOK, IdleOK, At, Open
<1>. QED
  BY <1>1, <1>2, <1>3, <1>4 DEF SessionOK

-----------------------------------------------------------------------------
(* Steps of one session                                                    *)

\* The lock and index tests leave a session apart from every other.
Alone(r) == \A q \in Request \ {r} : Apart(q, r) /\ Apart(r, q)

\* A step of one session that commits nothing preserves the invariant if the
\* session ends up in order and apart from the others.
LEMMA SessionStep ==
  ASSUME IInv, NEW r \in Request, NEW s, Set(r, s), UNCHANGED <<now, tables>>,
         ~At(r, "ended"), Session(s), SessionOK(r)', Alone(r)'
  PROVE  IInv'
<1>1. /\ req' = [q \in Request |-> req'[q]] /\ req'[r] = s
      /\ \A q \in Request \ {r} : req'[q] = req[q]
  BY SetFacts DEF IInv
<1>2. /\ UNCHANGED now /\ UNCHANGED services /\ UNCHANGED telemetry /\ UNCHANGED anomalies
      /\ UNCHANGED incidents /\ UNCHANGED correlations /\ UNCHANGED spans
  BY DEF tables
<1>3. TelemetryOK' /\ ServicesOK' /\ SpansOK'
  BY <1>1, <1>2 DEF IInv, TelemetryOK, ServicesOK, SpansOK, Committed, At
<1>4. Grows
  BY <1>2 DEF Grows
<1>5. CorrelationsOK'
  BY <1>2, <1>4, CorrelatableKept DEF IInv, CorrelationsOK, TablesOK
<1>6. TablesOK /\ TablesOK'
  BY <1>3, <1>5 DEF IInv, TablesOK
<1>7. ASSUME NEW q \in Request \ {r} PROVE Session(req'[q]) /\ SessionOK(q)'
  <2>1. Linked' = Linked
    BY <1>2 DEF Linked
  <2>2. WrittenOK(q)'
    BY <1>1, <1>2, <2>1 DEF IInv, SessionOK, WrittenOK, Writing, At
  <2>. QED
    BY <1>1, <1>4, <1>6, <2>2, SessionKept DEF IInv
<1>8. ASSUME NEW p \in Request, NEW q \in Request, p # q PROVE Apart(p, q)'
  <2>1. CASE p # r /\ q # r
    BY <1>1, <1>8, <2>1 DEF IInv, Apart, Writing, At
  <2>. QED
    BY <1>8, <2>1 DEF Alone
<1>. QED
  BY <1>1, <1>2, <1>3, <1>5, <1>7, <1>8 DEF IInv

\* A session that neither holds a row nor has written is apart from the others.
LEMMA NothingHeld ==
  ASSUME IInv, NEW r \in Request, NEW s, Set(r, s), s.inserted = 0, Session(s),
         s.pc = "written" => s.op.kind \notin {"register", "analyze"}
  PROVE  Alone(r)'
<1>1. req'[r] = s
  BY SetFacts DEF IInv
<1>2. 1..req'[r].inserted = {}
  BY <1>1
<1>. QED
  BY <1>1, <1>2 DEF Alone, Apart, Writing, At

\* A request ends without a commit.
LEMMA EndsStep ==
  ASSUME IInv, NEW r \in Request, ~At(r, "ended"), UNCHANGED <<now, tables>>,
         NEW t, t.op \in Ops, t.total \in Nat, t.size \in Nat,
         NEW a \in Int, Set(r, Ended(t, a)),
         t.op.kind = "trace" => a # 202,
         a = 200 /\ Growing(t.op) =>
           t.size >= PageSize(t.total, t.op) /\ t.size <= t.op.limit
  PROVE  IInv'
<1> DEFINE s == Ended(t, a)
<1>1. /\ Session(s) /\ s.pc = "ended" /\ s.op = t.op /\ s.answer = a /\ s.inserted = 0
      /\ s.total = t.total /\ s.size = t.size
  BY EndedFacts
<1>2. req'[r] = s
  BY SetFacts DEF IInv
<1>. HIDE DEF s
<1>3. 1..s.inserted = {}
  BY <1>1
<1>4. SessionOK(r)'
  <2>1. IdleOK(r)' /\ CountedOK(r)' /\ OpenOK(r)'
    BY <1>1, <1>2 DEF IdleOK, CountedOK, OpenOK, At, Open
  <2>2. EndedOK(r)'
    BY <1>1, <1>2 DEF EndedOK
  <2>3. WrittenOK(r)'
    BY <1>1, <1>2, <1>3 DEF WrittenOK, Writing, At
  <2>. QED
    BY <2>1, <2>2, <2>3 DEF SessionOK
<1>5. Set(r, s) /\ Alone(r)'
  BY <1>1, NothingHeld DEF s
<1>. QED
  BY <1>1, <1>4, <1>5, SessionStep

\* A request begins and is refused or answered at once.
LEMMA AnsweredStep ==
  ASSUME IInv, NEW r \in Request, At(r, "idle"), NEW op \in Ops, UNCHANGED <<now, tables>>,
         NEW a \in Int, Set(r, Ended(Started(op), a)),
         op.kind = "trace" => a # 202, op.kind = "query" => a # 200
  PROVE  IInv'
<1>1. now \in Nat
  BY PlatformAssumption DEF IInv
<1>2. /\ Started(op).op = op /\ Started(op).total \in Nat /\ Started(op).size \in Nat
  BY <1>1, StartedFacts
<1>. HIDE DEF Started
<1>. QED
  BY <1>2, EndsStep DEF At, Growing

\* A request begins and goes on with s.
LEMMA BegunStep ==
  ASSUME IInv, NEW r \in Request, At(r, "idle"), NEW s, Set(r, s), UNCHANGED <<now, tables>>,
         Session(s), s.op \in Ops, s.inserted = 0,
         \/ s.pc = "loaded" \/ (s.pc = "written" /\ s.op.kind = "ingest")
         \/ s.pc = "counted" /\ s.op.kind = "query",
         CountedOK(r)', OpenOK(r)'
  PROVE  IInv'
<1>1. req'[r] = s
  BY SetFacts DEF IInv
<1>2. 1..s.inserted = {}
  OBVIOUS
<1>3. IdleOK(r)' /\ EndedOK(r)'
  BY <1>1 DEF IdleOK, EndedOK, At, Open
<1>4. WrittenOK(r)'
  BY <1>1, <1>2 DEF WrittenOK, Writing, At
<1>5. Alone(r)'
  BY NothingHeld
<1>. QED
  BY <1>3, <1>4, <1>5, SessionStep DEF SessionOK, At

LEMMA LookUpStep ==
  ASSUME IInv, NEW r \in Request, NEW op \in Ops, LookUp(r, op)
  PROVE  IInv'
<1>1. CASE services[op.service] > 0
  BY <1>1, AnsweredStep DEF LookUp
<1>2. CASE ~(services[op.service] > 0)
  <2> DEFINE s == [Started(op) EXCEPT !.pc = "loaded"]
  <2>1. /\ At(r, "idle") /\ op.kind = "register" /\ Set(r, s) /\ UNCHANGED <<now, tables>>
    BY <1>2 DEF LookUp
  <2>2. now \in Nat
    BY PlatformAssumption DEF IInv
  <2>3. Session(s) /\ s.op = op /\ s.inserted = 0 /\ s.pc = "loaded"
    BY <2>2, StartedFacts DEF Session
  <2>. HIDE DEF s
  <2>4. req'[r] = s
    BY <2>1, SetFacts DEF IInv
  <2>5. CountedOK(r)' /\ OpenOK(r)'
    BY <2>1, <2>3, <2>4 DEF CountedOK, OpenOK, At, Open
  <2>. QED
    BY <2>1, <2>3, <2>5, BegunStep
<1>. QED
  BY <1>1, <1>2

LEMMA IngestStep ==
  ASSUME IInv, NEW r \in Request, NEW op \in Ops, Ingest(r, op)
  PROVE  IInv'
<1> DEFINE unknown == \E k \in DOMAIN op.items : services[op.items[k].service] = 0
<1>1. CASE unknown
  BY <1>1, AnsweredStep DEF Ingest
<1>2. CASE ~unknown
  <2> DEFINE s == [Started(op) EXCEPT !.pc = "written"]
  <2>1. /\ At(r, "idle") /\ op.kind = "ingest" /\ Set(r, s) /\ UNCHANGED <<now, tables>>
    BY <1>2 DEF Ingest
  <2>2. now \in Nat
    BY PlatformAssumption DEF IInv
  <2>3. Session(s) /\ s.op = op /\ s.inserted = 0 /\ s.pc = "written"
    BY <2>2, StartedFacts DEF Session
  <2>. HIDE DEF s
  <2>4. req'[r] = s
    BY <2>1, SetFacts DEF IInv
  <2>5. CountedOK(r)' /\ OpenOK(r)'
    BY <2>1, <2>3, <2>4 DEF CountedOK, OpenOK, At, Open
  <2>. QED
    BY <2>1, <2>3, <2>5, BegunStep
<1>. QED
  BY <1>1, <1>2

LEMMA LoadIncidentStep ==
  ASSUME IInv, NEW r \in Request, NEW op \in Ops, LoadIncident(r, op)
  PROVE  IInv'
<1>1. /\ At(r, "idle") /\ op.kind \in {"acknowledge", "resolve"} /\ UNCHANGED <<now, tables>>
  BY DEF LoadIncident
<1>2. CASE Set(r, Ended(Started(op), 404)) \/ Set(r, Ended(Started(op), 409))
  BY <1>1, <1>2, AnsweredStep
<1>3. ASSUME NEW i \in DOMAIN incidents, MayChange(op.kind, incidents[i].status), Set(r, Loaded(op, i))
      PROVE  IInv'
  <2> DEFINE u == Loaded(op, i)
  <2>1. /\ Session(u) /\ u.op = op /\ u.inserted = 0 /\ u.pc = "loaded" /\ u.target = i
        /\ u.seen = incidents[i].status
    BY LoadedFacts, PlatformAssumption DEF IInv
  <2>2. op.kind = "acknowledge" => u.seen = "open"
    BY <1>3, <2>1 DEF MayChange, Acknowledgeable
  <2>3. req'[r] = u
    BY <1>3, SetFacts DEF IInv
  <2>4. Set(r, u)
    BY <1>3
  <2>. HIDE DEF u
  <2>5. CountedOK(r)' /\ OpenOK(r)'
    BY <1>1, <2>1, <2>2, <2>3 DEF CountedOK, OpenOK, At, Open, tables
  <2>. QED
    BY <1>1, <2>1, <2>4, <2>5, BegunStep
<1>. QED
  BY <1>2, <1>3 DEF LoadIncident

\* The scores of the analysis weigh as much as Weighed says.
LEMMA ScoreFacts ==
  ASSUME TelemetryOK, NEW S, IsFiniteSet(S), S \subseteq DOMAIN incidents, NEW i \in S
  PROVE  /\ SourceCount(i, S) \in Nat \ {0}
         /\ Score(i, S) = 40 + (IF telemetry[i].item.timestamp = Earliest(S) THEN 25 ELSE 0)
                             + CategoryScore(telemetry[i].item.type)
                             + (IF SourceCount(i, S) > 1 THEN 15 ELSE 0)
         /\ telemetry[i].item.timestamp \in Nat
         /\ telemetry[i].item.type \in {"metric", "log", "event"}
<1>1. telemetry[i].item \in Item /\ anomalies[i] = "critical"
  BY DEF TelemetryOK, TelemetryRow
<1>2. telemetry[i].item.timestamp \in Nat /\ telemetry[i].item.type \in {"metric", "log", "event"}
  BY <1>1 DEF Item
<1>3. SourceCount(i, S) \in Nat \ {0}
  <2> DEFINE T == {j \in S : telemetry[j].item.source = telemetry[i].item.source}
  <2>1. IsFiniteSet(T) /\ i \in T
    BY FS_Subset
  <2>2. Cardinality(T) \in Nat /\ Cardinality(T) # 0
    BY <2>1, FS_CardinalityType, FS_EmptySet
  <2>. QED
    BY <2>2 DEF SourceCount
<1>4. CategoryScore(telemetry[i].item.type) \in {5, 10, 20}
  BY <1>2 DEF CategoryScore
<1> DEFINE score == 40 + (IF telemetry[i].item.timestamp = Earliest(S) THEN 25 ELSE 0)
                      + CategoryScore(telemetry[i].item.type)
                      + (IF SourceCount(i, S) > 1 THEN 15 ELSE 0)
<1>5. score \in 0..100
  BY <1>3, <1>4
<1>6. Score(i, S) = Min({score, 100})
  BY <1>1, <1>4 DEF Score, EarliestBonus
<1>. HIDE DEF score
<1>7. Min({score, 100}) = score
  BY <1>5 DEF Min
<1>. QED
  BY <1>2, <1>3, <1>6, <1>7 DEF score

LEMMA RootCauseWeighed ==
  ASSUME TelemetryOK, NEW S, IsFiniteSet(S), S \subseteq DOMAIN incidents, NEW c \in RootCauses(S)
  PROVE  c \in S /\ Weighed(c, S)
<1>1. c \in S
  BY DEF RootCauses
<1> DEFINE item(i) == telemetry[i].item
           first == {i \in S : item(i).timestamp = Earliest(S)}
<1>2. SUFFICES ASSUME c \notin first
               PROVE  /\ item(c).type = "event" /\ SourceCount(c, S) > 1
                      /\ \A i \in first : item(i).type = "metric" /\ SourceCount(i, S) = 1
  BY <1>1 DEF Weighed
<1>3. /\ Earliest(S) \in {item(i).timestamp : i \in S}
      /\ \A i \in S : Earliest(S) <= item(i).timestamp
  <2> DEFINE T == {item(i).timestamp : i \in S}
  <2>1. T \subseteq Nat /\ T # {}
    BY <1>1, ScoreFacts
  <2>2. Min(T) \in T /\ \A y \in T : Min(T) <= y
    BY <2>1, LeastNatural
  <2>. QED
    BY <2>2 DEF Earliest
<1>4. ASSUME NEW i \in first
      PROVE  /\ item(c).type = "event" /\ SourceCount(c, S) > 1
             /\ item(i).type = "metric" /\ SourceCount(i, S) = 1
  <2>1. i \in S /\ item(i).timestamp = Earliest(S) /\ item(c).timestamp > item(i).timestamp
    BY <1>1, <1>2, <1>3, ScoreFacts
  <2>2. Score(c, S) > Score(i, S)
    <3>1. item(i).timestamp \in Nat /\ item(c).timestamp \in Nat
      BY <1>1, <2>1, ScoreFacts
    <3>2. \/ Score(c, S) > Score(i, S)
          \/ Score(c, S) = Score(i, S) /\ item(c).timestamp <= item(i).timestamp
      BY <2>1 DEF RootCauses
    <3>. QED
      BY <2>1, <3>1, <3>2
  <2>3. /\ Score(c, S) = 40 + 0 + CategoryScore(item(c).type)
                         + (IF SourceCount(c, S) > 1 THEN 15 ELSE 0)
        /\ Score(i, S) = 40 + 25 + CategoryScore(item(i).type)
                         + (IF SourceCount(i, S) > 1 THEN 15 ELSE 0)
        /\ SourceCount(c, S) \in Nat \ {0} /\ SourceCount(i, S) \in Nat \ {0}
        /\ item(c).type \in {"metric", "log", "event"} /\ item(i).type \in {"metric", "log", "event"}
    BY <1>1, <1>2, <2>1, ScoreFacts
  <2>. HIDE DEF item
  <2>. QED
    BY <2>2, <2>3 DEF CategoryScore
<1>5. first # {}
  BY <1>3
<1>. QED
  BY <1>4, <1>5

LEMMA SelectStep ==
  ASSUME IInv, NEW r \in Request, NEW op \in Ops, Select(r, op)
  PROVE  IInv'
<1>1. /\ At(r, "idle") /\ op.kind = "analyze" /\ UNCHANGED <<now, tables>>
      /\ op.minimum \in 2..100 /\ now \in Nat
  <2>1. /\ At(r, "idle") /\ op.kind = "analyze" /\ UNCHANGED <<now, tables>>
    BY DEF Select
  <2>. QED
    BY <2>1, OpFacts, PlatformAssumption DEF IInv
<1>2. PICK S : S = Uncorrelated(op.service)
  OBVIOUS
<1>3. CASE Set(r, Ended(Started(op), 422))
  BY <1>1, <1>3, AnsweredStep
<1>4. ASSUME ~(Cardinality(S) < op.minimum), NEW c \in RootCauses(S),
             Set(r, [Started(op) EXCEPT !.pc = "loaded", !.members = S, !.cause = c])
      PROVE  IInv'
  <2>1. PICK b : b = Started(op)
    OBVIOUS
  <2> DEFINE s == [b EXCEPT !.pc = "loaded", !.members = S, !.cause = c]
  <2>2. b \in [pc : {"idle"}, op : {op}, since : {now}, target : {None}, seen : {None},
               members : {{}}, cause : {None}, inserted : {0}, total : {0}, size : {0}, answer : {0}]
    BY <1>1, <2>1, StartedFacts
  <2>3. s \in [pc : {"loaded"}, op : {op}, since : {now}, target : {None}, seen : {None},
               members : {S}, cause : {c}, inserted : {0}, total : {0}, size : {0}, answer : {0}]
    BY <2>2
  <2>4. Set(r, s)
    BY <1>4, <2>1
  <2>. HIDE DEF s
  <2>5. /\ Session(s) /\ s.pc = "loaded" /\ s.op = op /\ s.since = now /\ s.members = S /\ s.cause = c
        /\ s.inserted = 0
    BY <1>1, <2>3 DEF Session
  <2>6. Correlatable(S, op.service, op.minimum, c, now)
    <3>1. /\ S \subseteq DOMAIN incidents
          /\ \A i \in S : incidents[i].service = op.service
                         /\ incidents[i].created_at \in (now - Window)..now
      BY <1>2 DEF Uncorrelated
    <3>2. IsFiniteSet(S) /\ Cardinality(S) \in Nat
      <4>1. S \subseteq DOMAIN telemetry /\ IsFiniteSet(DOMAIN telemetry)
        BY <3>1 DEF IInv, TelemetryOK
      <4>. QED
        BY <4>1, FS_Subset, FS_CardinalityType
    <3>3. c \in S /\ Weighed(c, S)
      BY <3>1, <3>2, RootCauseWeighed DEF IInv
    <3>4. Cardinality(S) >= op.minimum
      BY <1>1, <1>4, <3>2
    <3>. QED
      BY <3>1, <3>2, <3>3, <3>4 DEF Correlatable
  <2>7. TablesOK /\ Grows
    BY <1>1 DEF IInv, TablesOK, Grows, tables
  <2>8. Correlatable(S, op.service, op.minimum, c, s.since)'
    <3>1. PICK t : t = now /\ t = now'
      BY <1>1
    <3>2. Correlatable(S, op.service, op.minimum, c, t)'
      BY <2>6, <2>7, <3>1, CorrelatableKept
    <3>3. \A x : x = t => Correlatable(S, op.service, op.minimum, c, x)'
      BY <3>2
    <3>. QED
      BY <2>5, <3>1, <3>3
  <2>9. req'[r] = s
    BY <2>4, SetFacts DEF IInv
  <2>10. CountedOK(r)' /\ OpenOK(r)'
    BY <1>1, <2>5, <2>8, <2>9 DEF CountedOK, OpenOK, At, Open
  <2>. QED
    BY <1>1, <2>4, <2>5, <2>10, BegunStep
<1>. QED
  BY <1>2, <1>3, <1>4 DEF Select

LEMMA CheckBatchStep ==
  ASSUME IInv, NEW r \in Request, NEW op \in Ops, CheckBatch(r, op)
  PROVE  IInv'
<1>1. /\ At(r, "idle") /\ op.kind = "trace" /\ UNCHANGED <<now, tables>> /\ now \in Nat
      /\ op.spans \in Seq(Span) /\ op.spans # <<>>
  BY OpFacts, PlatformAssumption DEF CheckBatch, IInv
<1> DEFINE s == [Started(op) EXCEPT !.pc = "loaded"]
<1>2. CASE Set(r, Ended(Started(op), 422)) \/ Set(r, Ended(Started(op), 409))
  BY <1>1, <1>2, AnsweredStep
<1>3. CASE Set(r, s) /\ ~Repeated(op)
  <2>1. Session(s) /\ s.op = op /\ s.inserted = 0 /\ s.pc = "loaded"
    BY <1>1, StartedFacts DEF Session
  <2>2. Set(r, s) /\ Len(op.spans) > 0 /\ ~Repeated(op)
    BY <1>1, <1>3
  <2>. HIDE DEF s
  <2>3. req'[r] = s
    BY <2>2, SetFacts DEF IInv
  <2>4. CountedOK(r)' /\ OpenOK(r)'
    BY <1>1, <2>1, <2>2, <2>3 DEF CountedOK, OpenOK, At, Open
  <2>. QED
    BY <1>1, <2>1, <2>2, <2>4, BegunStep
<1>. QED
  <2>1. \/ Set(r, Ended(Started(op), 422)) \/ Set(r, Ended(Started(op), 409))
        \/ Set(r, s) /\ ~Repeated(op)
    BY DEF CheckBatch
  <2>. QED
    BY <1>2, <1>3, <2>1

LEMMA CountStep ==
  ASSUME IInv, NEW r \in Request, NEW op \in Ops, Count(r, op)
  PROVE  IInv'
<1>1. /\ At(r, "idle") /\ op.kind = "query" /\ UNCHANGED <<now, tables>> /\ now \in Nat
      /\ op.table \in Tables /\ TablesOK
  <2>1. At(r, "idle") /\ op.kind = "query" /\ UNCHANGED <<now, tables>>
    BY DEF Count
  <2>. QED
    BY <2>1, OpFacts, PlatformAssumption DEF IInv, TablesOK
<1>2. CASE Set(r, Ended(Started(op), 422))
  BY <1>1, <1>2, AnsweredStep
<1>3. CASE Set(r, [Started(op) EXCEPT !.pc = "counted", !.total = Total(op)])
  <2>1. PICK n \in Nat : n = Total(op)
    BY <1>1, RowsFinite DEF Countable
  <2> DEFINE s == [Started(op) EXCEPT !.pc = "counted", !.total = n]
  <2>2. Set(r, s)
    BY <1>3, <2>1
  <2>3. Session(s) /\ s.op = op /\ s.inserted = 0 /\ s.pc = "counted" /\ s.total = n
    <3>1. s \in [pc : {"counted"}, op : {op}, since : {now}, target : {None}, seen : {None},
                 members : {{}}, cause : {None}, inserted : {0}, total : {n}, size : {0}, answer : {0}]
      <4>1. PICK b : b = Started(op)
        OBVIOUS
      <4>2. b \in [pc : {"idle"}, op : {op}, since : {now}, target : {None}, seen : {None},
                   members : {{}}, cause : {None}, inserted : {0}, total : {0}, size : {0}, answer : {0}]
        BY <1>1, <4>1, StartedFacts
      <4>3. s = [b EXCEPT !.pc = "counted", !.total = n]
        BY <4>1
      <4>. HIDE DEF s
      <4>. QED
        BY <4>2, <4>3
    <3>. HIDE DEF s
    <3>. QED
      BY <1>1, <3>1 DEF Session
  <2>. HIDE DEF s
  <2>4. req'[r] = s
    BY <2>2, SetFacts DEF IInv
  <2>5. Total(op)' = n
    BY <1>1, <2>1 DEF Total, Matching, Rows, Matches, TimeOf, tables
  <2>6. CountedOK(r)' /\ OpenOK(r)'
    BY <1>1, <2>1, <2>3, <2>4, <2>5 DEF CountedOK, OpenOK, At, Open
  <2>. QED
    BY <1>1, <2>2, <2>3, <2>6, BegunStep
<1>. QED
  BY <1>2, <1>3 DEF Count

LEMMA GetStep ==
  ASSUME IInv, NEW r \in Request, NEW op \in Ops, Get(r, op)
  PROVE  IInv'
  BY AnsweredStep DEF Get

\* Duration and number of spans of a trace are natural numbers.
LEMMA GetTraceStep ==
  ASSUME IInv, NEW r \in Request, NEW op \in Ops, GetTrace(r, op)
  PROVE  IInv'
<1> DEFINE K == {j \in DOMAIN spans : j[1] = op.trace}
           found == {spans[k].span : k \in K}
           n == Cardinality(found)
           d == Max({s.ended : s \in found}) - Min({s.started : s \in found})
           t == [Started(op) EXCEPT !.total = n, !.size = d]
<1>1. At(r, "idle") /\ op.kind = "get_trace" /\ UNCHANGED <<now, tables>> /\ now \in Nat
  <2>1. At(r, "idle") /\ op.kind = "get_trace" /\ UNCHANGED <<now, tables>>
    BY DEF GetTrace
  <2>. QED
    BY <2>1, PlatformAssumption DEF IInv
<1>2. CASE found = {}
  <2>1. Set(r, Ended(Started(op), 404))
    BY <1>2 DEF GetTrace
  <2>. QED
    BY <1>1, <2>1, AnsweredStep
<1>3. CASE found # {}
  <2>1. Set(r, Ended(t, 200))
    BY <1>3 DEF GetTrace
  <2>2. found \subseteq Span
    BY DEF IInv, SpansOK
  <2>3. n \in Nat
    <3>1. IsFiniteSet(K)
      BY FS_Subset DEF IInv, SpansOK
    <3>2. [k \in K |-> spans[k].span] \in Surjection(K, found)
      BY DEF Surjection
    <3>3. IsFiniteSet(found)
      BY <3>1, <3>2, FS_Surjection
    <3>. QED
      BY <3>3, FS_CardinalityType
  <2>4. d \in Nat
    <3> DEFINE E == {s.ended : s \in found}
               S == {s.started : s \in found}
    <3>. HIDE DEF found
    <3>1. \A s \in found : s.started \in 0..MaxTime /\ s.ended \in 0..MaxTime /\ s.started <= s.ended
      BY <2>2 DEF Span
    <3>2. E \subseteq 0..MaxTime /\ E # {} /\ S \subseteq Nat /\ S # {}
      BY <1>3, <3>1
    <3>3. Max(E) \in E /\ \A y \in E : y <= Max(E)
      BY <3>2, GreatestNatural, PlatformAssumption
    <3>4. Min(S) \in S /\ \A y \in S : Min(S) <= y
      BY <3>2, LeastNatural
    <3>5. PICK s \in found : Max(E) = s.ended
      BY <3>3
    <3>6. Min(S) <= s.started /\ s.started <= s.ended /\ Min(S) \in Nat /\ s.started \in Nat
          /\ s.ended \in Nat
      BY <3>1, <3>2, <3>4
    <3>7. Max(E) - Min(S) \in Nat
      BY <3>5, <3>6
    <3>. QED
      BY <3>7
  <2>5. t.op = op /\ t.total \in Nat /\ t.size \in Nat
    <3>. HIDE DEF n, d
    <3>. QED
      BY <1>1, <2>3, <2>4, StartedFacts
  <2>6. PICK v : v = t
    OBVIOUS
  <2>7. v.op = op /\ v.total \in Nat /\ v.size \in Nat /\ Set(r, Ended(v, 200)) /\ ~Growing(op)
    BY <1>1, <2>1, <2>5, <2>6 DEF Growing
  <2>. HIDE DEF t
  <2>. QED
    BY <1>1, <2>7, EndsStep DEF At
<1>. QED
  BY <1>2, <1>3

\* The session of a request that has begun.
LEMMA SessionFacts ==
  ASSUME IInv, NEW r \in Request
  PROVE  /\ Session(req[r]) /\ SessionOK(r) /\ req[r].total \in Nat /\ req[r].size \in Nat
         /\ req[r].inserted \in Nat
         /\ ~At(r, "idle") => req[r].op \in Ops
  BY DEF IInv, Session, SessionOK, IdleOK

\* A request that has begun ends without a commit.
LEMMA AbandonedStep ==
  ASSUME IInv, NEW r \in Request, ~At(r, "idle"), ~At(r, "ended"), UNCHANGED <<now, tables>>,
         NEW a \in Int, a # 200, a # 202, Set(r, Ended(req[r], a))
  PROVE  IInv'
<1>1. PICK t : t = req[r]
  OBVIOUS
<1>2. t.op \in Ops /\ t.total \in Nat /\ t.size \in Nat /\ Set(r, Ended(t, a))
  BY <1>1, SessionFacts
<1>. QED
  BY <1>2, EndsStep

LEMMA FailStep ==
  ASSUME IInv, NEW r \in Request, Fail(r)
  PROVE  IInv'
<1>1. /\ ~At(r, "idle") /\ ~At(r, "ended") /\ UNCHANGED <<now, tables>> /\ Set(r, Ended(req[r], 500))
  BY DEF Fail, At
<1>. QED
  BY <1>1, AbandonedStep

\* A request goes on from its first statements to its last one.
Advances(r, s, pc, n) ==
  /\ Set(r, s) /\ req'[r] = s /\ Session(s) /\ s.pc = pc /\ s.inserted = n
  /\ s.op = req[r].op /\ s.op \in Ops /\ s.target = req[r].target /\ s.seen = req[r].seen
  /\ s.members = req[r].members /\ s.cause = req[r].cause /\ s.since = req[r].since

LEMMA WritesFacts ==
  ASSUME IInv, NEW r \in Request, At(r, "loaded"), NEW n \in Nat, NEW pc \in {"loaded", "written"},
         Set(r, [req[r] EXCEPT !.pc = pc, !.inserted = n])
  PROVE  \E s : Advances(r, s, pc, n)
<1>1. PICK t : t = req[r]
  OBVIOUS
<1> DEFINE s == [t EXCEPT !.pc = pc, !.inserted = n]
<1>2. Session(t) /\ t.op \in Ops
  BY <1>1, SessionFacts DEF At
<1>3. s \in [pc : {pc}, op : {t.op}, since : {t.since},
             target : {t.target}, seen : {t.seen}, members : {t.members}, cause : {t.cause},
             inserted : {n}, total : Nat, size : Nat, answer : {0}]
  BY <1>1, <1>2 DEF Session, At
<1>4. Set(r, s)
  BY <1>1
<1>. HIDE DEF s
<1>5. req'[r] = s
  BY <1>4, SetFacts DEF IInv
<1>6. /\ s.pc = pc /\ s.inserted = n /\ s.op = t.op /\ s.target = t.target /\ s.seen = t.seen
      /\ s.members = t.members /\ s.cause = t.cause /\ s.since = t.since
  BY <1>3
<1>7. Session(s)
  BY <1>2, <1>3 DEF Session
<1>. QED
  BY <1>1, <1>2, <1>4, <1>5, <1>6, <1>7 DEF Advances

\* Nothing is inserted of a request that is not a trace batch.
LEMMA WritesPlainly ==
  ASSUME IInv, NEW r \in Request, At(r, "loaded"), req[r].op.kind # "trace",
         Set(r, [req[r] EXCEPT !.pc = "written"])
  PROVE  \E s : Advances(r, s, "written", 0)
<1>1. PICK t : t = req[r]
  OBVIOUS
<1>2. Session(t) /\ t.inserted = 0
  BY <1>1, SessionFacts DEF SessionOK, IdleOK
<1>3. [t EXCEPT !.pc = "written"] = [t EXCEPT !.pc = "written", !.inserted = 0]
  BY <1>2 DEF Session
<1>4. Set(r, [req[r] EXCEPT !.pc = "written", !.inserted = 0])
  BY <1>1, <1>3
<1>5. 0 \in Nat /\ "written" \in {"loaded", "written"}
  OBVIOUS
<1>. QED
  BY <1>4, <1>5, WritesFacts

LEMMA InsertServiceStep ==
  ASSUME IInv, NEW r \in Request, InsertService(r)
  PROVE  IInv'
<1>1. /\ At(r, "loaded") /\ req[r].op.kind = "register" /\ UNCHANGED <<now, tables>>
      /\ ~\E q \in Request \ {r} : Writing(q, {"register"}) /\ req[q].op.service = req[r].op.service
  BY DEF InsertService
<1>2. CASE Set(r, Ended(req[r], 409))
  BY <1>1, <1>2, AbandonedStep DEF At
<1>3. CASE ~IdentityTaken(req[r].op.service) /\ Set(r, [req[r] EXCEPT !.pc = "written"])
  <2>1. PICK s : Advances(r, s, "written", 0)
    BY <1>1, <1>3, WritesPlainly
  <2>. USE DEF Advances
  <2>2. services[s.op.service] = 0
    BY <1>1, <1>3, <2>1, OpFacts DEF IdentityTaken, IInv, ServicesOK
  <2>3. SessionOK(r)'
    BY <1>1, <2>1, <2>2
    DEF SessionOK, IdleOK, CountedOK, EndedOK, OpenOK, WrittenOK, At, Open, Writing, tables
  <2>4. Alone(r)'
    <3>1. \A q \in Request \ {r} : req'[q] = req[q]
      BY <2>1, SetFacts DEF IInv
    <3>. QED
      BY <1>1, <2>1, <3>1 DEF Alone, Apart, Writing, At
  <2>. QED
    BY <1>1, <2>1, <2>3, <2>4, SessionStep DEF At
<1>. QED
  BY <1>2, <1>3 DEF InsertService

LEMMA UpdateIncidentStep ==
  ASSUME IInv, NEW r \in Request, UpdateIncident(r)
  PROVE  IInv'
<1>1. /\ At(r, "loaded") /\ req[r].op.kind \in {"acknowledge", "resolve"} /\ UNCHANGED <<now, tables>>
      /\ Set(r, [req[r] EXCEPT !.pc = "written"])
  BY DEF UpdateIncident
<1>2. PICK s : Advances(r, s, "written", 0)
  BY <1>1, WritesPlainly
<1>. USE DEF Advances
<1>3. OpenOK(r)
  BY SessionFacts DEF SessionOK
<1>4. SessionOK(r)'
  BY <1>1, <1>2, <1>3
  DEF SessionOK, IdleOK, CountedOK, EndedOK, OpenOK, WrittenOK, At, Open, Writing, tables
<1>5. Alone(r)'
  BY <1>1, <1>2, NothingHeld
<1>. QED
  BY <1>1, <1>2, <1>4, <1>5, SessionStep DEF At

LEMMA InsertLinksStep ==
  ASSUME IInv, NEW r \in Request, InsertLinks(r)
  PROVE  IInv'
<1>1. /\ At(r, "loaded") /\ req[r].op.kind = "analyze" /\ UNCHANGED <<now, tables>>
      /\ ~\E q \in Request \ {r} :
            Writing(q, {"analyze"}) /\ req[q].members \cap req[r].members # {}
  BY DEF InsertLinks
<1>2. CASE Set(r, Ended(req[r], 500))
  BY <1>1, <1>2, AbandonedStep DEF At
<1>3. CASE ~LinksTaken(req[r].members) /\ Set(r, [req[r] EXCEPT !.pc = "written"])
  <2>1. PICK s : Advances(r, s, "written", 0)
    BY <1>1, <1>3, WritesPlainly
  <2>. USE DEF Advances
  <2>2. WrittenOK(r)'
    <3>1. s.members \cap Linked = {} /\ Linked' = Linked
      BY <1>1, <1>3, <2>1 DEF LinksTaken, Linked, tables
    <3>. QED
      BY <1>1, <2>1, <3>1 DEF WrittenOK, At, Writing
  <2>3. OpenOK(r)'
    <3>1. Correlatable(s.members, s.op.service, s.op.minimum, s.cause, s.since)
      BY <1>1, <2>1, SessionFacts DEF SessionOK, OpenOK, Open, At
    <3>2. TablesOK /\ Grows
      BY <1>1 DEF IInv, TablesOK, Grows, tables
    <3>3. Correlatable(s.members, s.op.service, s.op.minimum, s.cause, s.since)'
      BY <3>1, <3>2, CorrelatableKept
    <3>. QED
      BY <1>1, <2>1, <3>3 DEF OpenOK, Open, At
  <2>4. SessionOK(r)'
    BY <1>1, <2>1, <2>2, <2>3 DEF SessionOK, IdleOK, CountedOK, EndedOK, At, Open
  <2>5. Alone(r)'
    <3>1. \A q \in Request \ {r} : req'[q] = req[q]
      BY <2>1, SetFacts DEF IInv
    <3>. QED
      BY <1>1, <2>1, <3>1 DEF Alone, Apart, Writing, At
  <2>. QED
    BY <1>1, <2>1, <2>4, <2>5, SessionStep DEF At
<1>. QED
  BY <1>2, <1>3 DEF InsertLinks

LEMMA PageStep ==
  ASSUME IInv, NEW r \in Request, Page(r)
  PROVE  IInv'
<1>1. PICK op, n : op = req[r].op /\ n = Total(op)
  OBVIOUS
<1>2. PICK t : t = [req[r] EXCEPT !.size = PageSize(n, op)]
  OBVIOUS
<1>3. At(r, "counted") /\ UNCHANGED <<now, tables>> /\ Set(r, Ended(t, 200))
  BY <1>1, <1>2 DEF Page, Total
<1>4. /\ op \in Ops /\ op.kind = "query" /\ op.table \in Tables /\ op.limit \in 1..100
      /\ op.offset \in Nat /\ (Growing(op) => req[r].total <= n)
  BY <1>1, <1>3, SessionFacts, OpFacts DEF SessionOK, CountedOK, At
<1>5. n \in Nat
  BY <1>1, <1>4, RowsFinite DEF IInv, TablesOK, Countable
<1>6. t.op = op /\ t.total = req[r].total /\ t.size = PageSize(n, op) /\ t.total \in Nat
  <2>1. PICK s : s = req[r] /\ Session(s)
    BY SessionFacts
  <2>2. t = [s EXCEPT !.size = PageSize(n, op)]
    BY <1>2, <2>1
  <2>. QED
    BY <1>1, <2>1, <2>2 DEF Session
<1>7. /\ t.size \in Nat /\ t.size <= op.limit
      /\ Growing(op) => PageSize(t.total, op) <= t.size
  BY <1>4, <1>5, <1>6, PageSizeFacts
<1>8. PageSize(t.total, op) \in Nat
  BY <1>4, <1>6, PageSizeFacts
<1>9. /\ ~At(r, "ended") /\ t.op \in Ops /\ t.op.kind # "trace"
      /\ Growing(t.op) => t.size >= PageSize(t.total, t.op) /\ t.size <= t.op.limit
  BY <1>3, <1>4, <1>6, <1>7, <1>8 DEF At
<1>. QED
  BY <1>3, <1>6, <1>7, <1>9, EndsStep

\* A span goes in where no stored and no pending span has its key.
LEMMA InsertSpanStep ==
  ASSUME IInv, NEW r \in Request, InsertSpan(r)
  PROVE  IInv'
<1>1. PICK t, key, n : t = req[r] /\ n = t.inserted + 1 /\ key = t.op.spans[n].key
  OBVIOUS
<1>2. /\ At(r, "loaded") /\ t.op.kind = "trace" /\ UNCHANGED <<now, tables>> /\ ~SpanPending(r, key)
  BY <1>1 DEF InsertSpan
<1>3. CASE Set(r, Ended(req[r], 500))
  BY <1>2, <1>3, AbandonedStep DEF At
<1>4. ASSUME NEW pc \in {"loaded", "written"}, pc = IF n = Len(t.op.spans) THEN "written" ELSE "loaded",
             ~SpanTaken(key), Set(r, [req[r] EXCEPT !.pc = pc, !.inserted = n])
      PROVE  IInv'
  <2>1. /\ t.op \in Ops /\ t.op.spans \in Seq(Span) /\ t.inserted \in Nat /\ ~Repeated(t.op)
        /\ t.inserted < Len(t.op.spans)
    BY <1>1, <1>2, SessionFacts, OpFacts DEF SessionOK, OpenOK, Open, At
  <2>2. n \in Nat /\ n <= Len(t.op.spans) /\ 1..n = 1..t.inserted \cup {n}
    BY <1>1, <2>1
  <2>3. PICK s : Advances(r, s, pc, n)
    BY <1>2, <1>4, <2>2, WritesFacts
  <2>4. /\ Set(r, s) /\ req'[r] = s /\ Session(s) /\ s.pc = pc /\ s.inserted = n
        /\ s.op = t.op /\ ~(t.op.kind \in {"register", "analyze", "acknowledge", "resolve"})
    BY <1>1, <1>2, <2>3 DEF Advances
  <2>5. WrittenOK(r)'
    <3>1. \A m \in 1..n : t.op.spans[m].key \notin DOMAIN spans
      BY <1>1, <1>4, <2>2, SessionFacts DEF SessionOK, WrittenOK, SpanTaken
    <3>. QED
      BY <1>2, <2>4, <3>1 DEF WrittenOK, At, Writing, tables
  <2>6. OpenOK(r)'
    BY <1>2, <1>4, <2>1, <2>2, <2>4 DEF OpenOK, Open, At
  <2>7. SessionOK(r)'
    BY <1>2, <2>1, <2>4, <2>5, <2>6 DEF SessionOK, IdleOK, CountedOK, EndedOK, At, Open
  <2>8. Alone(r)'
    <3>1. \A q \in Request \ {r} : req'[q] = req[q]
      BY <2>4, SetFacts DEF IInv
    <3>2. ASSUME NEW q \in Request \ {r}, NEW m \in 1..n, NEW k \in 1..req[q].inserted
          PROVE  t.op.spans[m].key # req[q].op.spans[k].key
      <4>1. CASE m = n
        BY <1>1, <1>2, <4>1 DEF SpanPending
      <4>2. CASE m \in 1..t.inserted
        BY <1>1, <4>2 DEF IInv, Apart
      <4>. QED
        BY <2>2, <4>1, <4>2
    <3>. QED
      BY <1>2, <2>4, <3>1, <3>2 DEF Alone, Apart, Writing, At
  <2>. QED
    BY <1>2, <2>1, <2>4, <2>7, <2>8, SessionStep DEF At
<1>5. /\ \/ Set(r, Ended(req[r], 500))
         \/ \E pc \in {"loaded", "written"} :
              /\ pc = IF n = Len(t.op.spans) THEN "written" ELSE "loaded"
              /\ ~SpanTaken(key) /\ Set(r, [req[r] EXCEPT !.pc = pc, !.inserted = n])
  <2>1. CASE SpanTaken(key)
    BY <1>1, <2>1 DEF InsertSpan
  <2>2. CASE ~SpanTaken(key)
    <3> DEFINE pc == IF n = Len(t.op.spans) THEN "written" ELSE "loaded"
    <3>1. Set(r, [req[r] EXCEPT !.inserted = @ + 1,
                               !.pc = IF req[r].inserted + 1 = Len(req[r].op.spans)
                                      THEN "written" ELSE @])
      BY <1>1, <2>2 DEF InsertSpan
    <3>2. Session(t) /\ t.pc = "loaded"
      BY <1>1, <1>2, SessionFacts DEF At
    <3>3. [t EXCEPT !.inserted = t.inserted + 1,
                    !.pc = IF t.inserted + 1 = Len(t.op.spans) THEN "written" ELSE t.pc]
            = [t EXCEPT !.pc = pc, !.inserted = n]
      BY <1>1, <3>2 DEF Session
    <3>4. Set(r, [req[r] EXCEPT !.pc = pc, !.inserted = n])
      BY <1>1, <3>1, <3>3
    <3>. QED
      BY <2>2, <3>4
  <2>. QED
    BY <2>1, <2>2
<1>. QED
  BY <1>3, <1>4, <1>5

\* Time that passes changes nothing that a session relies on.
LEMMA TickStep ==
  ASSUME IInv, Tick
  PROVE  IInv'
<1>1. /\ now' \in 0..MaxTime /\ UNCHANGED req /\ UNCHANGED services /\ UNCHANGED telemetry
      /\ UNCHANGED anomalies /\ UNCHANGED incidents /\ UNCHANGED correlations /\ UNCHANGED spans
  BY PlatformAssumption DEF IInv, Tick, tables
<1>2. TelemetryOK' /\ ServicesOK' /\ SpansOK'
  BY <1>1 DEF IInv, TelemetryOK, ServicesOK, SpansOK, Committed, At
<1>3. Grows
  BY <1>1 DEF Grows
<1>4. CorrelationsOK'
  BY <1>1, <1>3, CorrelatableKept DEF IInv, CorrelationsOK, TablesOK
<1>5. TablesOK /\ TablesOK'
  BY <1>2, <1>4 DEF IInv, TablesOK
<1>6. ASSUME NEW q \in Request PROVE Session(req'[q]) /\ SessionOK(q)'
  <2>1. WrittenOK(q)'
    BY <1>1 DEF IInv, SessionOK, WrittenOK, Writing, At, Linked
  <2>. QED
    BY <1>1, <1>3, <1>5, <2>1, SessionKept DEF IInv
<1>7. \A p, q \in Request : p # q => Apart(p, q)'
  BY <1>1 DEF IInv, Apart, Writing, At
<1>. QED
  BY <1>1, <1>2, <1>4, <1>6, <1>7 DEF IInv


-----------------------------------------------------------------------------
(* Commits                                                                 *)

LEMMA FinishFacts ==
  ASSUME IInv, NEW r \in Request, NEW a \in Int, Finish(r, a), At(r, "written")
  PROVE  /\ req' = [q \in Request |-> req'[q]] /\ \A q \in Request \ {r} : req'[q] = req[q]
         /\ now' = now /\ Session(req'[r]) /\ At(r, "ended")' /\ req'[r].op = req[r].op
         /\ req[r].op \in Ops /\ req'[r].answer = a /\ req'[r].inserted = 0
         /\ \A q : Committed(q) => Committed(q)'
<1>1. PICK t : t = req[r]
  OBVIOUS
<1>2. t.op \in Ops /\ t.total \in Nat /\ t.size \in Nat
  BY <1>1, SessionFacts DEF At
<1> DEFINE e == Ended(t, a)
<1>3. Session(e) /\ e.pc = "ended" /\ e.op = t.op /\ e.answer = a /\ e.inserted = 0
  BY <1>2, EndedFacts
<1>4. Set(r, e) /\ now' = now
  BY <1>1 DEF Finish
<1>. HIDE DEF e
<1>5. /\ req' = [q \in Request |-> req'[q]] /\ req'[r] = e
      /\ \A q \in Request \ {r} : req'[q] = req[q]
  BY <1>4, SetFacts DEF IInv
<1>6. ASSUME NEW q, Committed(q) PROVE Committed(q)'
  BY <1>3, <1>5, <1>6 DEF Committed, At
<1>. QED
  BY <1>1, <1>2, <1>3, <1>4, <1>5, <1>6 DEF At

\* A commit preserves the invariant if the tables grow in order, no other
\* session holds a key that was added, and an accepted trace batch is whole.
LEMMA CommitStep ==
  ASSUME IInv, NEW r \in Request, NEW a \in Int, At(r, "written"), Finish(r, a), TablesOK', Grows,
         \A q \in Request \ {r} : WrittenOK(q)',
         req[r].op.kind = "trace" => Whole(r)',
         a = 200 => req[r].op.kind # "query"
  PROVE  IInv'
<1>1. /\ req' = [q \in Request |-> req'[q]] /\ \A q \in Request \ {r} : req'[q] = req[q]
      /\ now' = now /\ Session(req'[r]) /\ At(r, "ended")' /\ req'[r].op = req[r].op
      /\ req[r].op \in Ops /\ req'[r].answer = a /\ req'[r].inserted = 0
  BY FinishFacts
<1>2. 1..req'[r].inserted = {}
  BY <1>1
<1>3. TablesOK
  BY DEF IInv, TablesOK
<1>4. SessionOK(r)'
  <2>1. IdleOK(r)' /\ CountedOK(r)' /\ OpenOK(r)'
    BY <1>1 DEF IdleOK, CountedOK, OpenOK, At, Open
  <2>2. EndedOK(r)'
    BY <1>1 DEF EndedOK, Growing
  <2>3. WrittenOK(r)'
    BY <1>1, <1>2 DEF WrittenOK, Writing, At
  <2>. QED
    BY <2>1, <2>2, <2>3 DEF SessionOK
<1>5. ASSUME NEW q \in Request \ {r} PROVE Session(req'[q]) /\ SessionOK(q)'
  BY <1>1, <1>3, SessionKept DEF IInv
<1>6. ASSUME NEW p \in Request, NEW q \in Request, p # q PROVE Apart(p, q)'
  <2>1. CASE p # r /\ q # r
    BY <1>1, <1>6, <2>1 DEF IInv, Apart, Writing, At
  <2>2. CASE p = r \/ q = r
    BY <1>1, <1>2, <2>2 DEF Apart, Writing, At
  <2>. QED
    BY <2>1, <2>2
<1>. QED
  BY <1>1, <1>4, <1>5, <1>6 DEF IInv, TablesOK

\* A table that a commit leaves alone stays in order.
LEMMA UntouchedOK ==
  ASSUME IInv, NEW r \in Request, NEW a \in Int, Finish(r, a), At(r, "written"), Grows
  PROVE  /\ UNCHANGED <<telemetry, anomalies, incidents>> => TelemetryOK'
         /\ UNCHANGED services => ServicesOK'
         /\ UNCHANGED correlations => CorrelationsOK'
         /\ UNCHANGED spans => SpansOK'
<1>1. \A q : Committed(q) => Committed(q)'
  BY FinishFacts
<1>2. /\ \A q \in Request \ {r} : req'[q] = req[q]
  BY FinishFacts
<1>3. UNCHANGED <<telemetry, anomalies, incidents>> => TelemetryOK'
  BY <1>1 DEF IInv, TelemetryOK
<1>4. UNCHANGED services => ServicesOK'
  BY DEF IInv, ServicesOK
<1>5. UNCHANGED correlations => CorrelationsOK'
  BY CorrelatableKept DEF IInv, CorrelationsOK, TablesOK
<1>6. UNCHANGED spans => SpansOK'
  BY <1>2 DEF IInv, SpansOK, At
<1>. QED
  BY <1>3, <1>4, <1>5, <1>6

LEMMA CommitServiceStep ==
  ASSUME IInv, NEW r \in Request, CommitService(r)
  PROVE  IInv'
<1>1. PICK d : d = req[r].op.service
  OBVIOUS
<1>2. /\ At(r, "written") /\ req[r].op.kind = "register" /\ Finish(r, 201)
      /\ services' = [services EXCEPT ![d] = @ + 1]
      /\ UNCHANGED telemetry /\ UNCHANGED anomalies /\ UNCHANGED incidents
      /\ UNCHANGED correlations /\ UNCHANGED spans
  BY <1>1 DEF CommitService, Writing
<1>3. d \in Identity /\ services[d] = 0 /\ services \in [Identity -> 0..1]
  BY <1>1, <1>2, SessionFacts, OpFacts DEF SessionOK, WrittenOK, Writing, At, IInv, ServicesOK
<1>4. Grows
  BY <1>2, <1>3 DEF Grows
<1>5. ServicesOK'
  <2>1. services' \in [Identity -> 0..1]
    BY <1>2, <1>3
  <2>2. {x \in Identity : services'[x] > 0} = {x \in Identity : services[x] > 0} \cup {d}
    BY <1>2, <1>3
  <2>. QED
    BY <2>1, <2>2, FS_AddElement, ZenonT(60) DEF IInv, ServicesOK
<1>6. TablesOK'
  BY <1>2, <1>4, <1>5, UntouchedOK DEF TablesOK
<1>7. ASSUME NEW q \in Request \ {r} PROVE WrittenOK(q)'
  <2>1. req'[q] = req[q] /\ Linked' = Linked
    BY <1>2, FinishFacts DEF Linked
  <2>2. WrittenOK(q) /\ Apart(q, r)
    BY DEF IInv, SessionOK
  <2>3. Writing(q, {"register"}) => services'[req[q].op.service] = 0
    BY <1>1, <1>2, <1>3, <2>2 DEF WrittenOK, Apart, Writing
  <2>. QED
    BY <1>2, <2>1, <2>2, <2>3 DEF WrittenOK, Writing, At
<1>. QED
  BY <1>2, <1>4, <1>6, <1>7, CommitStep

\* An update assigns the columns of one incident; which one it is, its service
\* and its creation time it leaves alone.
LEMMA CommitIncidentStep ==
  ASSUME IInv, NEW r \in Request, CommitIncident(r)
  PROVE  IInv'
<1>1. PICK i, row, u : i = req[r].target /\ row = incidents[i] /\ u = Updated(req[r].op.kind, row)
  OBVIOUS
<1>2. /\ At(r, "written") /\ req[r].op.kind \in {"acknowledge", "resolve"} /\ Finish(r, 200)
      /\ incidents' = [incidents EXCEPT ![i] = u]
      /\ UNCHANGED telemetry /\ UNCHANGED anomalies /\ UNCHANGED services
      /\ UNCHANGED correlations /\ UNCHANGED spans
  BY <1>1 DEF CommitIncident, Writing
<1>3. i \in DOMAIN incidents /\ row \in IncidentRow
  BY <1>1, <1>2, SessionFacts DEF SessionOK, OpenOK, Open, At, IInv, TelemetryOK
<1>4. u \in IncidentRow /\ u.service = row.service /\ u.created_at = row.created_at
  BY <1>1, <1>3 DEF IncidentRow, IncidentStatus, Updated
<1>5. Grows
  BY <1>1, <1>2, <1>3, <1>4 DEF Grows
<1>6. TelemetryOK'
  <2>1. \A q : Committed(q) => Committed(q)'
    BY <1>2, FinishFacts
  <2>. QED
    BY <1>2, <1>4, <2>1 DEF IInv, TelemetryOK
<1>7. TablesOK'
  BY <1>2, <1>5, <1>6, UntouchedOK DEF TablesOK
<1>8. ASSUME NEW q \in Request \ {r} PROVE WrittenOK(q)'
  <2>1. req'[q] = req[q] /\ Linked' = Linked
    BY <1>2, FinishFacts DEF Linked
  <2>2. WrittenOK(q)
    BY DEF IInv, SessionOK
  <2>. QED
    BY <1>2, <2>1, <2>2 DEF WrittenOK, Writing, At
<1>. QED
  BY <1>2, <1>5, <1>7, <1>8, CommitStep


LEMMA CommitCorrelationStep ==
  ASSUME IInv, NEW r \in Request, CommitCorrelation(r)
  PROVE  IInv'
<1>1. PICK s : s = req[r]
  OBVIOUS
<1>2. PICK e : e = [id |-> r, service |-> s.op.service, members |-> s.members, cause |-> s.cause,
                    minimum |-> s.op.minimum, created_at |-> s.since]
  OBVIOUS
<1>3. /\ At(r, "written") /\ req[r].op.kind = "analyze" /\ Finish(r, 201)
      /\ correlations' = correlations \cup {e}
      /\ UNCHANGED telemetry /\ UNCHANGED anomalies /\ UNCHANGED services
      /\ UNCHANGED incidents /\ UNCHANGED spans
  BY <1>1, <1>2 DEF CommitCorrelation, Writing
<1>4. Correlatable(e.members, e.service, e.minimum, e.cause, e.created_at)
  BY <1>1, <1>2, <1>3, SessionFacts DEF SessionOK, OpenOK, Open, At
<1>5. e.members = s.members /\ e.members \cap Linked = {}
  BY <1>1, <1>2, <1>3, SessionFacts DEF SessionOK, WrittenOK, Writing, At
<1>6. Grows
  BY <1>3 DEF Grows
<1>7. CorrelationsOK'
  <2>1. IsFiniteSet(correlations')
    BY <1>3, FS_AddElement DEF IInv, CorrelationsOK
  <2>2. ASSUME NEW c \in correlations', NEW d \in correlations', c # d
        PROVE  c.members \cap d.members = {}
    <3>1. \A x \in correlations : x.members \subseteq Linked
      BY DEF Linked
    <3>2. CASE c \in correlations /\ d \in correlations
      BY <2>2, <3>2 DEF IInv, CorrelationsOK
    <3>3. CASE c = e \/ d = e
      BY <1>3, <1>5, <2>2, <3>1, <3>3
    <3>. QED
      BY <1>3, <3>2, <3>3
  <2>3. ASSUME NEW c \in correlations'
        PROVE  Correlatable(c.members, c.service, c.minimum, c.cause, c.created_at)'
    <3>1. Correlatable(c.members, c.service, c.minimum, c.cause, c.created_at)
      BY <1>3, <1>4 DEF IInv, CorrelationsOK
    <3>. QED
      BY <1>6, <3>1, CorrelatableKept DEF IInv, TablesOK
  <2>. QED
    BY <2>1, <2>2, <2>3 DEF CorrelationsOK
<1>8. TablesOK'
  BY <1>3, <1>6, <1>7, UntouchedOK DEF TablesOK
<1>9. ASSUME NEW q \in Request \ {r} PROVE WrittenOK(q)'
  <2>1. req'[q] = req[q] /\ Linked' = Linked \cup s.members
    BY <1>3, <1>5, FinishFacts DEF Linked
  <2>2. WrittenOK(q) /\ Apart(q, r)
    BY DEF IInv, SessionOK
  <2>3. Writing(q, {"analyze"}) => req[q].members \cap Linked' = {}
    BY <1>1, <1>3, <2>1, <2>2 DEF WrittenOK, Apart, Writing
  <2>. QED
    BY <1>3, <2>1, <2>2, <2>3 DEF WrittenOK, Writing, At
<1>. QED
  BY <1>3, <1>6, <1>8, <1>9, CommitStep

\* The spans of a batch have different keys, and none of them is taken.
LEMMA CommitTraceStep ==
  ASSUME IInv, NEW r \in Request, CommitTrace(r)
  PROVE  IInv'
<1>1. PICK op, s : op = req[r].op /\ s = op.spans
  OBVIOUS
<1> DEFINE at(k) == CHOOSE n \in DOMAIN s : s[n].key = k
           new == [k \in Keys(op) |-> [span |-> s[at(k)], batch |-> r]]
<1>2. /\ At(r, "written") /\ op.kind = "trace" /\ Finish(r, 202) /\ spans' = Plus(spans, new)
      /\ UNCHANGED telemetry /\ UNCHANGED anomalies /\ UNCHANGED services
      /\ UNCHANGED incidents /\ UNCHANGED correlations
  BY <1>1 DEF CommitTrace, Writing
<1>3. s \in Seq(Span) /\ DOMAIN s = 1..Len(s) /\ Len(s) \in Nat
  BY <1>1, <1>2, SessionFacts, OpFacts DEF At
<1>4. /\ \A j, k \in DOMAIN s : s[j].key = s[k].key => j = k
      /\ req[r].inserted = Len(s)
      /\ \A n \in 1..req[r].inserted : s[n].key \notin DOMAIN spans
  BY <1>1, <1>2, SessionFacts DEF SessionOK, OpenOK, WrittenOK, Repeated, Open, At
<1>5. Keys(op) = {s[n].key : n \in DOMAIN s} /\ Keys(op) \cap DOMAIN spans = {}
  BY <1>1, <1>3, <1>4 DEF Keys
<1>6. ASSUME NEW n \in DOMAIN s
      PROVE  s[n].key \in Keys(op) /\ new[s[n].key].span = s[n] /\ new[s[n].key].batch = r
  <2>1. at(s[n].key) = n
    BY <1>4
  <2>. QED
    BY <1>5, <2>1
<1>7. DOMAIN new = Keys(op)
  OBVIOUS
<1>. HIDE DEF new
<1>8. /\ DOMAIN spans' = DOMAIN spans \cup Keys(op)
      /\ \A k \in DOMAIN spans : spans'[k] = spans[k]
      /\ \A k \in Keys(op) : spans'[k] = new[k]
  <2>1. DOMAIN spans \cap DOMAIN new = {}
    BY <1>5, <1>7
  <2>2. /\ DOMAIN Plus(spans, new) = DOMAIN spans \cup DOMAIN new
        /\ \A k \in DOMAIN spans : Plus(spans, new)[k] = spans[k]
        /\ \A k \in DOMAIN new : Plus(spans, new)[k] = new[k]
    BY <2>1, PlusFacts
  <2>. QED
    BY <1>2, <1>7, <2>2
<1>9. Grows
  BY <1>2, <1>8 DEF Grows
<1>10. SpansOK'
  <2>1. IsFiniteSet(Keys(op))
    <3>1. [n \in DOMAIN s |-> s[n].key] \in Surjection(DOMAIN s, Keys(op))
      BY <1>5 DEF Surjection
    <3>2. IsFiniteSet(DOMAIN s)
      BY <1>3, FS_Interval
    <3>. QED
      BY <3>1, <3>2, FS_Surjection
  <2>2. IsFiniteSet(DOMAIN spans')
    <3>1. IsFiniteSet(DOMAIN spans)
      BY DEF IInv, SpansOK
    <3>2. IsFiniteSet(DOMAIN spans \cup Keys(op))
      BY <2>1, <3>1, FS_Union
    <3>. QED
      BY <1>8, <3>2
  <2>3. ASSUME NEW k \in DOMAIN spans
        PROVE  LET b == spans'[k].batch IN
               /\ spans'[k].span \in Span /\ spans'[k].span.key = k
               /\ b \in Request /\ req'[b].pc = "ended" /\ req'[b].answer = 202
    <3>1. /\ spans[k].span \in Span /\ spans[k].span.key = k /\ spans[k].batch \in Request
          /\ At(spans[k].batch, "ended") /\ req[spans[k].batch].answer = 202
      BY DEF IInv, SpansOK
    <3>2. spans[k].batch # r
      BY <1>2, <3>1 DEF At
    <3>3. req'[spans[k].batch] = req[spans[k].batch]
      BY <1>2, <3>1, <3>2, FinishFacts
    <3>. QED
      BY <1>8, <3>1, <3>3 DEF At
  <2>4. ASSUME NEW k \in Keys(op)
        PROVE  LET b == spans'[k].batch IN
               /\ spans'[k].span \in Span /\ spans'[k].span.key = k
               /\ b \in Request /\ req'[b].pc = "ended" /\ req'[b].answer = 202
    <3>1. PICK n \in DOMAIN s : k = s[n].key
      BY <1>5
    <3>2. spans'[k].span = s[n] /\ spans'[k].batch = r /\ s[n] \in Span
      BY <1>3, <1>6, <1>8, <3>1
    <3>. QED
      BY <1>2, <3>1, <3>2, FinishFacts DEF At
  <2>. QED
    BY <1>8, <2>2, <2>3, <2>4 DEF SpansOK, At
<1>11. TablesOK'
  BY <1>2, <1>9, <1>10, UntouchedOK DEF TablesOK
<1>12. Whole(r)'
  <2>1. req'[r].op = op
    BY <1>1, <1>2, FinishFacts
  <2>. QED
    BY <1>1, <1>6, <1>8, <2>1 DEF Whole
<1>13. ASSUME NEW q \in Request \ {r} PROVE WrittenOK(q)'
  <2>1. req'[q] = req[q] /\ Linked' = Linked
    BY <1>2, FinishFacts DEF Linked
  <2>2. WrittenOK(q) /\ Apart(q, r)
    BY DEF IInv, SessionOK
  <2>3. ASSUME NEW m \in 1..req[q].inserted PROVE req[q].op.spans[m].key \notin DOMAIN spans'
    <3>1. \A n \in DOMAIN s : req[q].op.spans[m].key # s[n].key
      BY <1>1, <1>3, <1>4, <2>2 DEF Apart
    <3>. QED
      BY <1>5, <1>8, <2>2, <3>1 DEF WrittenOK
  <2>. QED
    BY <1>2, <2>1, <2>2, <2>3 DEF WrittenOK, Writing, At
<1>. QED
  BY <1>1, <1>2, <1>9, <1>11, <1>12, <1>13, CommitStep


\* The rows of a batch have ids that no row has yet.
LEMMA CommitBatchStep ==
  ASSUME IInv, NEW r \in Request, CommitBatch(r)
  PROVE  IInv'
<1>1. PICK op, items, t : op = req[r].op /\ items = op.items /\ t = req[r].since
  OBVIOUS
<1> DEFINE T == [x \in NewIds(r, DOMAIN items) |-> [item |-> items[x[2]], received_at |-> t]]
           A == [x \in NewIds(r, Found(items)) |-> Finding(items[x[2]])]
           I == [x \in NewIds(r, Critical(items)) |-> NewIncident(items[x[2]].service, t)]
<1>2. /\ At(r, "written") /\ op.kind = "ingest" /\ Finish(r, 202)
      /\ telemetry' = Plus(telemetry, T) /\ anomalies' = Plus(anomalies, A)
      /\ incidents' = Plus(incidents, I)
      /\ UNCHANGED services /\ UNCHANGED spans /\ UNCHANGED correlations
  BY <1>1 DEF CommitBatch, Writing
<1>3. items \in Seq(Item) /\ DOMAIN items = 1..Len(items) /\ Len(items) \in Nat /\ t \in Nat
  BY <1>1, <1>2, SessionFacts, OpFacts DEF At, Session
<1>4. ASSUME NEW k \in DOMAIN items
      PROVE  items[k] \in Item /\ Finding(items[k]) \in AnomalySeverity \cup {None}
  BY <1>3, FindingFacts
<1>5. Critical(items) \subseteq Found(items) /\ Found(items) \subseteq DOMAIN items
  BY PlatformAssumption DEF Critical, Found
<1>6. /\ DOMAIN I \subseteq DOMAIN A /\ DOMAIN A \subseteq DOMAIN T
      /\ IsFiniteSet(DOMAIN T) /\ \A x \in DOMAIN T : x[1] = r /\ x[2] \in DOMAIN items
  <2>1. NewIds(r, Critical(items)) \subseteq NewIds(r, Found(items))
        /\ NewIds(r, Found(items)) \subseteq NewIds(r, DOMAIN items)
    BY <1>5 DEF NewIds
  <2>2. IsFiniteSet(DOMAIN items)
    BY <1>3, FS_Interval
  <2>3. /\ IsFiniteSet(NewIds(r, DOMAIN items))
        /\ \A x \in NewIds(r, DOMAIN items) : x[1] = r /\ x[2] \in DOMAIN items
    BY <2>2, NewIdsFacts
  <2>. QED
    BY <2>1, <2>3
<1>7. \A x \in DOMAIN T : T[x] \in TelemetryRow
  <2>1. ASSUME NEW x \in DOMAIN T PROVE T[x] \in TelemetryRow
    <3>1. items[x[2]] \in Item
      BY <1>4, <1>6
    <3>2. T[x] = [item |-> items[x[2]], received_at |-> t]
      OBVIOUS
    <3>. HIDE DEF T
    <3>. QED
      BY <1>3, <3>1, <3>2 DEF TelemetryRow
  <2>. QED
    BY <2>1
<1>8. \A x \in DOMAIN A : A[x] \in AnomalySeverity
  <2>1. ASSUME NEW x \in DOMAIN A PROVE A[x] \in AnomalySeverity
    <3>1. x[2] \in Found(items)
      BY DEF NewIds
    <3>. QED
      BY <1>4, <1>5, <3>1 DEF Found
  <2>. QED
    BY <2>1
<1>9. \A x \in DOMAIN I : I[x] \in IncidentRow /\ A[x] = "critical"
  <2>1. ASSUME NEW x \in DOMAIN I PROVE I[x] \in IncidentRow /\ A[x] = "critical"
    <3>1. x[2] \in Critical(items)
      BY DEF NewIds
    <3>2. A[x] = "critical"
      BY <1>6, <3>1 DEF Critical
    <3>3. PICK d \in Identity : d = items[x[2]].service
      BY <1>4, <1>5, <3>1 DEF Item
    <3>4. I[x] = NewIncident(d, t)
      BY <3>3
    <3>5. NewIncident(d, t) \in IncidentRow
      BY <1>3 DEF NewIncident, IncidentRow, IncidentStatus
    <3>. QED
      BY <3>2, <3>4, <3>5
  <2>. QED
    BY <2>1
<1>. HIDE DEF T, A, I
<1>10. DOMAIN telemetry \cap DOMAIN T = {}
  <2>1. ASSUME NEW i \in DOMAIN telemetry, i \in DOMAIN T PROVE FALSE
    <3>1. Committed(i[1]) /\ i[1] = r
      BY <1>6, <2>1 DEF IInv, TelemetryOK
    <3>. QED
      BY <1>2, <3>1, PlatformAssumption DEF Committed, At
  <2>. QED
    BY <2>1
<1>11. DOMAIN anomalies \cap DOMAIN A = {} /\ DOMAIN incidents \cap DOMAIN I = {}
  BY <1>6, <1>10 DEF IInv, TelemetryOK
<1>12. /\ DOMAIN telemetry' = DOMAIN telemetry \cup DOMAIN T
       /\ \A x \in DOMAIN telemetry : telemetry'[x] = telemetry[x]
       /\ \A x \in DOMAIN T : telemetry'[x] = T[x]
  <2>1. /\ DOMAIN Plus(telemetry, T) = DOMAIN telemetry \cup DOMAIN T
        /\ \A x \in DOMAIN telemetry : Plus(telemetry, T)[x] = telemetry[x]
        /\ \A x \in DOMAIN T : Plus(telemetry, T)[x] = T[x]
    BY <1>10, PlusFacts, ZenonT(60)
  <2>. QED
    BY <1>2, <2>1
<1>13. /\ DOMAIN anomalies' = DOMAIN anomalies \cup DOMAIN A
       /\ \A x \in DOMAIN anomalies : anomalies'[x] = anomalies[x]
       /\ \A x \in DOMAIN A : anomalies'[x] = A[x]
  <2>1. /\ DOMAIN Plus(anomalies, A) = DOMAIN anomalies \cup DOMAIN A
        /\ \A x \in DOMAIN anomalies : Plus(anomalies, A)[x] = anomalies[x]
        /\ \A x \in DOMAIN A : Plus(anomalies, A)[x] = A[x]
    BY <1>11, PlusFacts, ZenonT(60)
  <2>. QED
    BY <1>2, <2>1
<1>14. /\ DOMAIN incidents' = DOMAIN incidents \cup DOMAIN I
       /\ \A x \in DOMAIN incidents : incidents'[x] = incidents[x]
       /\ \A x \in DOMAIN I : incidents'[x] = I[x]
  <2>1. /\ DOMAIN Plus(incidents, I) = DOMAIN incidents \cup DOMAIN I
        /\ \A x \in DOMAIN incidents : Plus(incidents, I)[x] = incidents[x]
        /\ \A x \in DOMAIN I : Plus(incidents, I)[x] = I[x]
    BY <1>11, PlusFacts, ZenonT(60)
  <2>. QED
    BY <1>2, <2>1
<1>15. Grows
  BY <1>2, <1>12, <1>13, <1>14 DEF Grows
<1>16. TelemetryOK'
  <2>1. IsFiniteSet(DOMAIN telemetry')
    <3>1. IsFiniteSet(DOMAIN telemetry)
      BY DEF IInv, TelemetryOK
    <3>2. IsFiniteSet(DOMAIN telemetry \cup DOMAIN T)
      BY <1>6, <3>1, FS_Union
    <3>. QED
      BY <1>12, <3>2
  <2>2. \A i \in DOMAIN telemetry' : Committed(i[1])'
    <3>1. \A q : Committed(q) => Committed(q)'
      BY <1>2, FinishFacts
    <3>2. Committed(r)'
      BY <1>2, FinishFacts DEF Committed
    <3>3. \A i \in DOMAIN telemetry : Committed(i[1])'
      BY <3>1 DEF IInv, TelemetryOK
    <3>4. ASSUME NEW i \in DOMAIN T PROVE Committed(i[1])'
      BY <1>6, <3>2
    <3>. QED
      BY <1>12, <3>3, <3>4
  <2>3. DOMAIN incidents' \subseteq DOMAIN anomalies' /\ DOMAIN anomalies' \subseteq DOMAIN telemetry'
    BY <1>6, <1>12, <1>13, <1>14 DEF IInv, TelemetryOK
  <2>4. \A i \in DOMAIN telemetry' : telemetry'[i] \in TelemetryRow
    BY <1>7, <1>12 DEF IInv, TelemetryOK
  <2>5. \A i \in DOMAIN anomalies' : anomalies'[i] \in AnomalySeverity
    BY <1>8, <1>13 DEF IInv, TelemetryOK
  <2>6. \A i \in DOMAIN incidents' : incidents'[i] \in IncidentRow /\ anomalies'[i] = "critical"
    BY <1>6, <1>9, <1>13, <1>14 DEF IInv, TelemetryOK
  <2>. QED
    BY <2>1, <2>2, <2>3, <2>4, <2>5, <2>6 DEF TelemetryOK
<1>17. TablesOK'
  BY <1>2, <1>15, <1>16, UntouchedOK DEF TablesOK
<1>18. ASSUME NEW q \in Request \ {r} PROVE WrittenOK(q)'
  <2>1. req'[q] = req[q] /\ Linked' = Linked
    BY <1>2, FinishFacts DEF Linked
  <2>2. WrittenOK(q)
    BY DEF IInv, SessionOK
  <2>. QED
    BY <1>2, <2>1, <2>2 DEF WrittenOK, Writing, At
<1>. QED
  BY <1>1, <1>2, <1>15, <1>17, <1>18, CommitStep


-----------------------------------------------------------------------------
(* The invariant and what follows from it                                  *)

LEMMA Initial == Init => IInv
<1>. SUFFICES ASSUME Init PROVE IInv
  OBVIOUS
<1>1. /\ telemetry = [x \in NewIds(None, DOMAIN Items0) |->
                        [item |-> Items0[x[2]], received_at |-> 0]]
      /\ anomalies = [x \in NewIds(None, Found(Items0)) |-> Finding(Items0[x[2]])]
      /\ incidents = [x \in NewIds(None, Critical(Items0)) |->
                        NewIncident(Items0[x[2]].service, 0)]
  BY DEF Init
<1>2. /\ Items0 \in Seq(Item) /\ DOMAIN Items0 = 1..Len(Items0) /\ Len(Items0) \in Nat
      /\ MaxTime \in Nat /\ Known0 \subseteq Identity /\ IsFiniteSet(Known0)
  BY PlatformAssumption
<1>3. ASSUME NEW k \in DOMAIN Items0
      PROVE  Items0[k] \in Item /\ Finding(Items0[k]) \in AnomalySeverity \cup {None}
  BY <1>2, FindingFacts
<1>4. Critical(Items0) \subseteq Found(Items0) /\ Found(Items0) \subseteq DOMAIN Items0
  BY PlatformAssumption DEF Critical, Found
<1>5. TelemetryOK
  <2>1. /\ DOMAIN telemetry = NewIds(None, DOMAIN Items0)
        /\ DOMAIN anomalies = NewIds(None, Found(Items0))
        /\ DOMAIN incidents = NewIds(None, Critical(Items0))
    BY <1>1
  <2>2. /\ IsFiniteSet(DOMAIN telemetry)
        /\ \A x \in DOMAIN telemetry : x[1] = None /\ x[2] \in DOMAIN Items0
    <3>1. IsFiniteSet(DOMAIN Items0)
      BY <1>2, FS_Interval
    <3>. QED
      BY <2>1, <3>1, NewIdsFacts
  <2>3. DOMAIN incidents \subseteq DOMAIN anomalies /\ DOMAIN anomalies \subseteq DOMAIN telemetry
    BY <1>4, <2>1 DEF NewIds
  <2>4. ASSUME NEW x \in DOMAIN telemetry PROVE telemetry[x] \in TelemetryRow
    <3>1. PICK i \in Item : i = Items0[x[2]]
      BY <1>3, <2>2
    <3>2. telemetry[x] = [item |-> i, received_at |-> 0]
      BY <1>1, <3>1
    <3>. QED
      BY <3>2 DEF TelemetryRow
  <2>5. ASSUME NEW x \in DOMAIN anomalies PROVE anomalies[x] \in AnomalySeverity
    <3>1. x[2] \in Found(Items0)
      BY <2>1 DEF NewIds
    <3>2. anomalies[x] = Finding(Items0[x[2]])
      BY <1>1
    <3>. QED
      BY <1>3, <1>4, <3>1, <3>2 DEF Found
  <2>6. ASSUME NEW x \in DOMAIN incidents
        PROVE  incidents[x] \in IncidentRow /\ anomalies[x] = "critical"
    <3>1. x[2] \in Critical(Items0)
      BY <2>1 DEF NewIds
    <3>2. anomalies[x] = "critical"
      BY <1>1, <2>3, <3>1 DEF Critical
    <3>3. PICK d \in Identity : d = Items0[x[2]].service
      BY <1>3, <1>4, <3>1 DEF Item
    <3>4. incidents[x] = NewIncident(d, 0)
      BY <1>1, <3>3
    <3>5. NewIncident(d, 0) \in IncidentRow
      BY DEF NewIncident, IncidentRow, IncidentStatus
    <3>. QED
      BY <3>2, <3>4, <3>5
  <2>. QED
    BY <2>2, <2>3, <2>4, <2>5, <2>6 DEF TelemetryOK, Committed
<1>6. ServicesOK
  <2>1. services \in [Identity -> 0..1]
    BY DEF Init
  <2>2. {d \in Identity : services[d] > 0} = Known0
    BY <1>2 DEF Init
  <2>. QED
    BY <1>2, <2>1, <2>2 DEF ServicesOK
<1>7. CorrelationsOK
  BY FS_EmptySet DEF Init, CorrelationsOK
<1>8. SpansOK
  BY FS_EmptySet DEF Init, SpansOK
<1>9. /\ req = [r \in Request |-> req[r]] /\ \A r \in Request : req[r] = Blank
      /\ Blank.pc = "idle" /\ Blank.inserted = 0 /\ Session(Blank)
  <2>1. Session(Blank) /\ Blank.pc = "idle" /\ Blank.inserted = 0
    BY DEF Session, Blank
  <2>. QED
    BY <2>1 DEF Init
<1>10. 1..0 = {}
  OBVIOUS
<1>11. ASSUME NEW r \in Request PROVE Session(req[r]) /\ SessionOK(r)
  BY <1>9, <1>10
  DEF SessionOK, IdleOK, CountedOK, EndedOK, OpenOK, WrittenOK, At, Open, Writing
<1>12. \A q, r \in Request : q # r => Apart(q, r)
  BY <1>9, <1>10 DEF Apart, Writing, At
<1>13. now \in 0..MaxTime
  BY <1>2 DEF Init
<1>. QED
  BY <1>5, <1>6, <1>7, <1>8, <1>9, <1>11, <1>12, <1>13 DEF IInv

LEMMA Unchanged == IInv /\ UNCHANGED vars => IInv'
<1>. SUFFICES ASSUME IInv, UNCHANGED vars PROVE IInv'
  OBVIOUS
<1>1. /\ UNCHANGED now /\ UNCHANGED req /\ UNCHANGED services /\ UNCHANGED telemetry
      /\ UNCHANGED anomalies /\ UNCHANGED incidents /\ UNCHANGED correlations /\ UNCHANGED spans
  BY DEF vars
<1>2. TelemetryOK' /\ ServicesOK' /\ SpansOK'
  BY <1>1 DEF IInv, TelemetryOK, ServicesOK, SpansOK, Committed, At
<1>3. Grows
  BY <1>1 DEF Grows
<1>4. CorrelationsOK'
  BY <1>1, <1>3, CorrelatableKept DEF IInv, CorrelationsOK, TablesOK
<1>5. TablesOK /\ TablesOK'
  BY <1>2, <1>4 DEF IInv, TablesOK
<1>6. ASSUME NEW q \in Request PROVE Session(req'[q]) /\ SessionOK(q)'
  <2>1. WrittenOK(q)'
    BY <1>1 DEF IInv, SessionOK, WrittenOK, Writing, At, Linked
  <2>. QED
    BY <1>1, <1>3, <1>5, <2>1, SessionKept DEF IInv
<1>7. \A p, q \in Request : p # q => Apart(p, q)'
  BY <1>1 DEF IInv, Apart, Writing, At
<1>. QED
  BY <1>1, <1>2, <1>4, <1>6, <1>7 DEF IInv

LEMMA Inductive == IInv /\ [Next]_vars => IInv'
<1>. SUFFICES ASSUME IInv, [Next]_vars PROVE IInv'
  OBVIOUS
<1>1. CASE UNCHANGED vars
  BY <1>1, Unchanged
<1>2. CASE Tick
  BY <1>2, TickStep
<1>3. ASSUME NEW r \in Request, NEW op \in Ops,
             \/ LookUp(r, op) \/ Ingest(r, op) \/ LoadIncident(r, op) \/ Select(r, op)
             \/ CheckBatch(r, op) \/ Count(r, op) \/ Get(r, op) \/ GetTrace(r, op)
      PROVE  IInv'
  BY <1>3, LookUpStep, IngestStep, LoadIncidentStep, SelectStep, CheckBatchStep, CountStep,
     GetStep, GetTraceStep
<1>4. ASSUME NEW r \in Request,
             \/ InsertService(r) \/ UpdateIncident(r) \/ InsertLinks(r) \/ InsertSpan(r)
             \/ Page(r) \/ Fail(r)
      PROVE  IInv'
  BY <1>4, InsertServiceStep, UpdateIncidentStep, InsertLinksStep, InsertSpanStep, PageStep,
     FailStep
<1>5. ASSUME NEW r \in Request,
             \/ CommitService(r) \/ CommitBatch(r) \/ CommitIncident(r)
             \/ CommitCorrelation(r) \/ CommitTrace(r)
      PROVE  IInv'
  BY <1>5, CommitServiceStep, CommitBatchStep, CommitIncidentStep, CommitCorrelationStep,
     CommitTraceStep
<1>. QED
  BY <1>1, <1>2, <1>3, <1>4, <1>5 DEF Next

LEMMA Invariance == Spec => []IInv
  BY Initial, Inductive, PTL DEF Spec

\* Rows have their types and no service identity has two rows: a registration
\* inserts only where it found none, and waits for one that is not committed.
THEOREM TypeCorrect == Spec => []TypeOK
<1>1. IInv => TypeOK
  BY DEF IInv, TelemetryOK, ServicesOK, SpansOK, Session, TypeOK
<1>. QED
  BY <1>1, Invariance, PTL

\* However analyses overlap, no incident is in two correlations, and every
\* correlation holds critical incidents of its service and window, as many as
\* were asked for and its root cause among them.
THEOREM IncidentsLinkedOnce == Spec => []CorrelationsExclusive
<1>1. IInv => CorrelationsExclusive
  BY DEF IInv, TelemetryOK, CorrelationsOK, Correlatable, CorrelationsExclusive
<1>. QED
  BY <1>1, Invariance, PTL

\* What the weights of RootCauseAnalysisEngine add up to, for any incidents.
THEOREM RootCauseEarliest == Spec => []EarliestUnlessOutweighed
<1>1. IInv => EarliestUnlessOutweighed
  <2>1. SUFFICES ASSUME IInv PROVE EarliestUnlessOutweighed
    OBVIOUS
  <2>2. \A c \in correlations : Weighed(c.cause, c.members)
    BY <2>1 DEF IInv, CorrelationsOK, Correlatable
  <2>. QED
    BY <2>2 DEF EarliestUnlessOutweighed, Weighed
<1>. QED
  BY <1>1, Invariance, PTL

\* A page is as long as the total that was counted before it promises: what was
\* counted can still be read.
THEOREM TotalsKept == Spec => []PagesNotShort
<1>1. IInv => PagesNotShort
  <2>1. SUFFICES ASSUME IInv, NEW r \in Request, req[r].answer = 200, Growing(req[r].op)
                 PROVE  /\ req[r].size >= PageSize(req[r].total, req[r].op)
                        /\ req[r].size <= req[r].op.limit
    BY DEF PagesNotShort, Growing
  <2>2. EndedOK(r) /\ At(r, "ended")
    BY <2>1, SessionFacts DEF SessionOK, Session, At
  <2>. QED
    BY <2>1, <2>2 DEF EndedOK
<1>. QED
  BY <1>1, Invariance, PTL

\* An accepted batch of spans is stored whole and a refused one not at all,
\* although overlapping batches insert their spans one by one.
THEOREM BatchesWhole == Spec => []TraceBatchesWhole
<1>1. IInv => TraceBatchesWhole
  <2>1. SUFFICES ASSUME IInv, NEW r \in Request, At(r, "ended"), req[r].op.kind = "trace"
                 PROVE  LET stored == {k \in DOMAIN spans : spans[k].batch = r} IN
                        IF req[r].answer = 202
                        THEN \A n \in DOMAIN req[r].op.spans :
                               LET s == req[r].op.spans[n] IN s.key \in stored /\ spans[s.key].span = s
                        ELSE stored = {}
    BY DEF TraceBatchesWhole
  <2>2. CASE req[r].answer = 202
    <3>1. Whole(r)
      BY <2>1, <2>2 DEF IInv, SessionOK, EndedOK
    <3>. QED
      BY <2>2, <3>1 DEF Whole
  <2>3. CASE req[r].answer # 202
    BY <2>1, <2>3 DEF IInv, SpansOK
  <2>. QED
    BY <2>2, <2>3
<1>. QED
  BY <1>1, Invariance, PTL

\* A step that reopens a resolved incident is the commit of an acknowledgement
\* that loaded it while it was open; no step removes the resolution.
THEOREM ReopenedByOverlap == Spec => ReopenedOnlyByOverlap
<1> DEFINE Reopened(i) ==
             /\ incidents'[i].resolved
             /\ incidents[i].status = "resolved" /\ incidents'[i].status # "resolved" =>
                  \E r \in Request : /\ Writing(r, {"acknowledge"}) /\ req[r].target = i
                                     /\ req[r].seen = "open" /\ req'[r].pc = "ended"
<1>1. ASSUME IInv, [Next]_vars, NEW i \in DOMAIN incidents, incidents[i].resolved
      PROVE  Reopened(i)
  <2>1. CASE incidents'[i] = incidents[i]
    BY <1>1, <2>1
  <2>2. ASSUME NEW r \in Request, CommitBatch(r) PROVE incidents'[i] = incidents[i]
    <3>1. i \notin NewIds(r, Critical(req[r].op.items))
      <4>1. Committed(i[1]) /\ ~Committed(r)
        BY <1>1, <2>2, PlatformAssumption
        DEF IInv, TelemetryOK, CommitBatch, Committed, Writing, At
      <4>. QED
        BY <4>1 DEF NewIds
    <3>. QED
      BY <2>2, <3>1 DEF CommitBatch, Plus
  <2>3. ASSUME NEW r \in Request, CommitIncident(r) PROVE Reopened(i)
    <3>1. /\ At(r, "written") /\ Finish(r, 200)
          /\ req[r].op.kind \in {"acknowledge", "resolve"}
          /\ incidents' = [incidents EXCEPT ![req[r].target] =
                             Updated(req[r].op.kind, incidents[req[r].target])]
      BY <2>3 DEF CommitIncident, Writing
    <3>2. /\ req'[r].pc = "ended"
          /\ req[r].op.kind = "acknowledge" => req[r].seen = "open"
      BY <1>1, <3>1, FinishFacts, SessionFacts DEF SessionOK, OpenOK, Open, At
    <3>3. CASE req[r].target # i
      BY <2>1, <3>1, <3>3
    <3>4. CASE req[r].target = i
      <4>1. PICK row : row = incidents[i] /\ row \in IncidentRow
        BY <1>1 DEF IInv, TelemetryOK
      <4>2. incidents'[i] = Updated(req[r].op.kind, row)
        BY <1>1, <3>1, <3>4, <4>1
      <4>3. CASE req[r].op.kind = "acknowledge"
        <5>1. incidents'[i].resolved
          BY <1>1, <4>1, <4>2, <4>3 DEF Updated, IncidentRow
        <5>. QED
          BY <3>1, <3>2, <3>4, <4>3, <5>1 DEF Writing
      <4>4. CASE req[r].op.kind = "resolve"
        BY <4>1, <4>2, <4>4 DEF Updated, IncidentRow
      <4>. QED
        BY <3>1, <4>3, <4>4
    <3>. QED
      BY <3>3, <3>4
  <2>4. \/ UNCHANGED incidents
        \/ \E r \in Request : CommitBatch(r) \/ CommitIncident(r)
    <3>1. Tick \/ UNCHANGED vars => UNCHANGED incidents
      BY DEF Tick, vars, tables
    <3>2. ASSUME NEW r \in Request, NEW op
          PROVE  \/ LookUp(r, op) \/ Ingest(r, op) \/ LoadIncident(r, op) \/ Select(r, op)
                 \/ CheckBatch(r, op) \/ Count(r, op) \/ Get(r, op) \/ GetTrace(r, op)
                 => UNCHANGED <<now, tables>>
      BY DEF LookUp, Ingest, LoadIncident, Select, CheckBatch, Count, Get, GetTrace
    <3>3. ASSUME NEW r \in Request
          PROVE  \/ InsertService(r) \/ UpdateIncident(r) \/ InsertLinks(r) \/ InsertSpan(r)
                 \/ Page(r) \/ Fail(r)
                 => UNCHANGED <<now, tables>>
      BY DEF InsertService, UpdateIncident, InsertLinks, InsertSpan, Page, Fail
    <3>4. ASSUME NEW r \in Request
          PROVE  CommitService(r) \/ CommitCorrelation(r) \/ CommitTrace(r) => UNCHANGED incidents
      BY DEF CommitService, CommitCorrelation, CommitTrace
    <3>5. UNCHANGED <<now, tables>> => UNCHANGED incidents
      BY DEF tables
    <3>. QED
      BY <1>1, <3>1, <3>2, <3>3, <3>4, <3>5 DEF Next
  <2>. QED
    BY <2>1, <2>2, <2>3, <2>4
<1>2. IInv /\ [Next]_vars =>
        [\A i \in DOMAIN incidents : incidents[i].resolved => Reopened(i)]_vars
  BY <1>1
<1>. QED
  BY <1>2, Invariance, PTL DEF Spec, ReopenedOnlyByOverlap
=============================================================================
