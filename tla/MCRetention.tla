----------------------------- MODULE MCRetention -----------------------------
(***************************************************************************)
(* Four rows: two spans of different age, a log record that carries no     *)
(* time at all (0), and a metric point from a clock that runs ahead.       *)
(***************************************************************************)
EXTENDS Retention, TLC

CONSTANTS oldSpan, newSpan, log, metric

MCTable == (oldSpan :> "spans") @@ (newSpan :> "spans")
        @@ (log :> "logs") @@ (metric :> "metrics")

MCCommits == {{oldSpan}, {oldSpan, newSpan}, {log}, {metric}}

MCStamp == (oldSpan :> 1) @@ (newSpan :> 2) @@ (log :> 0) @@ (metric :> 3)
=============================================================================
