------------------------------- MODULE MCDaemon -------------------------------
(***************************************************************************)
(* A trace export of two groups, the first with a span that carries no     *)
(* time and soon expires; metrics with a histogram before two gauges, of   *)
(* which two attempts exceed the cap; a log record in front of one that    *)
(* can never be stored.                                                    *)
(***************************************************************************)
EXTENDS Daemon, TLC

CONSTANTS trace, metrics, logs, s1, s2, histogram, m1, m2, l1, nan, k1, k2

MCContent == (trace :> << <<s1>>, <<s2>> >>)
          @@ (metrics :> << <<histogram, m1, m2>> >>)
          @@ (logs :> << <<l1, nan>> >>)

MCKey == (s1 :> k1) @@ (s2 :> k2)
      @@ [r \in {histogram, m1, m2, l1, nan} |-> NoKey]

MCSignal == [r \in {s1, s2} |-> "spans"]
         @@ [r \in {histogram, m1, m2} |-> "metrics"]
         @@ [r \in {l1, nan} |-> "logs"]

MCStamp == (s1 :> 0) @@ [r \in {s2, histogram, m1, m2, l1, nan} |-> 1]
=============================================================================
