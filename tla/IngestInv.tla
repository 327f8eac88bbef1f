------------------------------ MODULE IngestInv ------------------------------
(***************************************************************************)
(* The inductive invariant of Ingest.  The properties of Ingest speak of   *)
(* the database and of the answers; what makes them inductive is where     *)
(* each walk stands: everything behind it is committed, nothing at it or   *)
(* before it is, and the open transaction holds what lies between.         *)
(***************************************************************************)
EXTENDS Ingest

(* Who waits for what.  An attempt that was not decoded is at group 1, the *)
(* attempts beyond tries[q] were not made.                                 *)
ControlInv ==
    /\ \A h \in Attempts : pc[h] \in {"idle", "sent", "rejected"} => grp[h] = 1
    /\ \A h \in Attempts : h[2] > tries[h[1]] => pc[h] = "idle"
    /\ \A q \in Requests :
           client[q] \in {"waiting", "acked"} => tries[q] # 0
    /\ \A q \in Requests : client[q] = "acked" => pc[Current(q)] = "ok"

(* An open transaction holds the rows of its group before the next record, *)
(* and the lock as soon as it holds a row.                                 *)
TxInv ==
    /\ WriterInTx
    /\ \A h \in Attempts : pc[h] = "tx" =>
           /\ grp[h] \in Groups(h)
           /\ pending[h] = { r \in RowsOf(h, grp[h]) : r.idx < item[h] }
    /\ \A h \in Attempts : pc[h] # "tx" => pending[h] = {}
    /\ \A h \in Attempts : pending[h] # {} => writer = h

(* Where a walk stands against what is committed.                          *)
WalkInv ==
    /\ \A h \in Attempts : \A g \in Groups(h) :
           g >= grp[h] => Lacks(db, h, g)
    /\ \A h \in Attempts : pc[h] \in {"walk", "tx"} =>
           \A g \in Groups(h) : g < grp[h] => Holds(db, h, g)
    /\ Durable => \A h \in Attempts : pc[h] = "ok" => AllRows(h) \subseteq db

(* The database, and what a power failure would leave of it.               *)
DataInv ==
    /\ \A r \in db : r.grp \in Groups(r.by) /\ r \in RowsOf(r.by, r.grp)
    /\ synced \subseteq db
    /\ InMemory => synced = {}
    /\ WholeGroups(db) /\ WholeGroups(synced)
    /\ InOrder(db) /\ InOrder(synced)

(* Keys: among the committed rows, and between those and a transaction.    *)
KeyInv ==
    /\ SpanKeyUnique
    /\ \A h \in Attempts : \A r \in pending[h], s \in db \cup pending[h] :
           RowKey(r) = RowKey(s) /\ RowKey(r) # NoKey => r = s

(* The inductive invariant: every reachable state of Ingest satisfies it,  *)
(* and so does every state a step leads to from a state that satisfies it. *)
IndInv == TypeOK /\ ControlInv /\ TxInv /\ WalkInv /\ DataInv /\ KeyInv
=============================================================================
