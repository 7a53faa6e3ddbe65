-------------------------- MODULE MCObservability ---------------------------
(***************************************************************************)
(* Instance of Observability: one service with two open incidents, one to  *)
(* be registered, batches around the thresholds and for each weight of the *)
(* root cause analysis.                                                    *)
(***************************************************************************)
EXTENDS Observability, TLC

CONSTANTS t1, t2, k1, k2, d1, d2, h1, h2, h3, r1, r2, r3

Metric(d, h, name, unit, value, t) ==
  [type |-> "metric", service |-> d, source |-> h, name |-> name, unit |-> unit,
   value |-> value, timestamp |-> t]
Other(type, d, h, level, t) ==
  [type |-> type, service |-> d, source |-> h, level |-> level, timestamp |-> t]

Stored == <<Metric(d1, h1, "cpu_usage", "percent", 90, 1),
            Other("event", d1, h2, "critical", 2)>>

Batches ==
  {<<Other("event", d1, h2, "critical", 3), Other("log", d1, h3, "critical", 0)>>,
   <<Other("log", d1, h1, "critical", 4), Metric(d1, h1, "response_latency", "milliseconds", 500, 0)>>,
   <<Metric(d1, h1, "cpu_usage", "percent", 89, 0), Metric(d1, h1, "error_rate", "ratio", 9, 0),
     Other("log", d1, h1, "error", 0)>>,
   <<Metric(d2, h1, "memory_usage", "percent", 95, 0), Other("event", d2, h1, "info", 0)>>}

SpanOf(t, k, d, from, to) == [key |-> <<t, k>>, service |-> d, started |-> from, ended |-> to]
TraceBatches ==
  {<<SpanOf(t1, k1, d1, 0, 2), SpanOf(t1, k2, d1, 1, 1)>>,
   <<SpanOf(t1, k2, d1, 0, 1), SpanOf(t1, k1, d1, 0, 2)>>,
   <<SpanOf(t1, k1, d2, 1, 1)>>, <<SpanOf(t1, k1, d1, 0, 0), SpanOf(t2, k1, d1, 0, 0)>>,
   <<SpanOf(t1, k1, d1, 0, 0), SpanOf(t1, k1, d1, 0, 1)>>}

Ask(table, want, from, to) ==
  [kind |-> "query", table |-> table, want |-> want, from |-> from, to |-> to,
   limit |-> 2, offset |-> 1]

Everything ==
  {[kind |-> "register", service |-> d2], [kind |-> "acknowledge"], [kind |-> "resolve"],
   [kind |-> "analyze", service |-> d1, minimum |-> 2], [kind |-> "get", table |-> "incidents"],
   Ask("services", None, 0, 0), Ask("telemetry", "metric", 0, 3),
   Ask("anomalies", "critical", 0, MaxTime), Ask("incidents", None, 0, MaxTime),
   Ask("incidents", "open", 1, 0), Ask("correlations", None, 0, MaxTime)}
  \cup {[kind |-> "get_trace", trace |-> t1]}
  \cup {[kind |-> "trace", spans |-> b] : b \in TraceBatches}
  \cup {[kind |-> "ingest", items |-> b] : b \in Batches}

Sources == {h1, h2, h3}
SpanKeys == {t1, t2} \X {k1, k2}
Sessions == Permutations(Request)
=============================================================================
