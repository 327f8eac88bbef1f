------------------------------- MODULE MCQuery -------------------------------
(***************************************************************************)
(* Three spans of one job and trace, the newest an error; a log of the     *)
(* same job that is stored with or before a span; a metric.  The limits    *)
(* are 1 and 2 for 1000 and 10000, so that an answer can be cut at either. *)
(***************************************************************************)
EXTENDS Query, TLC

CONSTANTS s1, s2, s3, l1, l2, m1, job, trace, none, r1, r2

Row(table, error, json, severity) ==
    [table |-> table, error |-> error, json |-> json, severity |-> severity,
     trace_id |-> trace, job_id |-> job, run_id |-> none,
     event_name |-> job, name |-> job]

Plain == (s1 :> Row("spans", FALSE, FALSE, 0)) @@ (s2 :> Row("spans", FALSE, FALSE, 0))
      @@ (s3 :> Row("spans", TRUE, FALSE, 0))
      @@ (l1 :> Row("logs", FALSE, FALSE, 9)) @@ (l2 :> Row("logs", FALSE, FALSE, 17))
      @@ (m1 :> Row("metrics", FALSE, FALSE, 0))

MCData == [x \in Rows |-> Plain[x]]
(* The oldest span was exported as JSON, the others as protobuf.           *)
OldestJson == [x \in Rows |-> Row("spans", FALSE, x = s1, 0)]

MCStamp == [x \in Rows |-> CASE x = s1 -> 1 [] x = s2 -> 2 [] x = s3 -> 3
                             [] x = l1 -> 1 [] x = l2 -> 2 [] x = m1 -> 1]

Singles == { {x} : x \in Rows }
AtOnce  == { Rows }
Mixed   == { {s1, s2}, {s3}, {l1}, {m1} }

AskFor(kind, by, value, limit, severity) ==
    [kind |-> kind, by |-> by, value |-> value, limit |-> limit,
     severity |-> severity]

AllAsks == { AskFor("query", "job_id", job, 2, 0),
             AskFor("query", "trace_id", trace, 3, 0),
             AskFor("query_run", "run_id", NoFilter, 0, 0),
             AskFor("query", "several", job, 0, 0),
             AskFor("query_job", "job_id", job, 0, 0),
             AskFor("query_run", "run_id", job, 0, 0),
             AskFor("trace", "trace_id", trace, 0, 0),
             AskFor("metrics", "name", job, 1, 0),
             AskFor("logs", "event_name", NoFilter, 0, 17) }

(* The second request is there to compete for the connection.              *)
AnyAndJob == (r1 :> AllAsks) @@ (r2 :> { AskFor("trace", "trace_id", trace, 0, 0) })
JobOnly   == r1 :> { AskFor("query_job", "job_id", job, 0, 0) }
TraceOnly == r1 :> { AskFor("trace", "trace_id", trace, 0, 0) }
=============================================================================
