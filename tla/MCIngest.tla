------------------------------- MODULE MCIngest -------------------------------
(***************************************************************************)
(* Ingest on small instances.                                              *)
(*                                                                         *)
(* Traces: "t1" has two groups, the second with two spans, so that a       *)
(* failure may hit before, in and after a transaction; "t2" comes from     *)
(* another exporter, has an empty group, and carries a span that t1        *)
(* carries too (an SDK and a collector that both export).                  *)
(*                                                                         *)
(* Metrics: two groups, the second a histogram, which is skipped, before   *)
(* two gauges, so that a power failure may tear it; beside a request that  *)
(* does not unmarshal.                                                     *)
(***************************************************************************)
EXTENDS IngestInv, TLC

CONSTANTS t1, t2, metrics, junk,
          s1, s2, s3, s3again, m1, m2, m3, histogram,
          k1, k2, k3

TraceContent == (t1 :> << <<s1>>, <<s2, s3>> >>) @@ (t2 :> << <<>>, <<s3again>> >>)

MetricContent == (metrics :> << <<m1>>, <<histogram, m2, m3>> >>) @@ (junk :> << <<m1>> >>)

SpanKeys == (s1 :> k1) @@ (s2 :> k2) @@ (s3 :> k3) @@ (s3again :> k3)

NoKeys == [r \in {m1, m2, m3, histogram} |-> NoKey]
=============================================================================
