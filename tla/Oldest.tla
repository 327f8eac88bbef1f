-------------------------------- MODULE Oldest --------------------------------
(***************************************************************************)
(* ORDER BY <stamp> LIMIT <n> of the store's SQL, for the statements that  *)
(* read and for those that evict: which rows it may give.  Ties are        *)
(* SQLite's choice.                                                        *)
(***************************************************************************)
EXTENDS Integers, FiniteSets

OldestOf(S, n, Stamp) ==
    { V \in SUBSET S :
        /\ \/ Cardinality(V) = n
           \/ V = S /\ Cardinality(V) < n
        /\ \A v \in V, w \in S \ V : Stamp[v] <= Stamp[w] }
=============================================================================
