---------------------------- MODULE AtomicIngest ----------------------------
(***************************************************************************)
(* What the ingest path promises, with no transaction, lock or connection  *)
(* in sight: a request is stored group by group, in order, each group all  *)
(* at once; the answer "ok" comes only after the last group; a process     *)
(* that dies leaves the groups it had stored, or fewer of them, but never  *)
(* part of a group and never a later group without the earlier ones.       *)
(* Ingest implements this specification (Ingest!Promise).                  *)
(***************************************************************************)
EXTENDS Exports

VARIABLES stored,   \* the rows a reader of the database can see
          reply     \* reply[h]: "none" while attempt h is being served

vars == <<stored, reply>>

Init == /\ stored = {}
        /\ reply = [h \in Attempts |-> "none"]

StoreGroup(h, g) ==
    /\ reply[h] = "none"
    /\ \A f \in Groups(h) : f < g => Holds(stored, h, f)
    /\ \A f \in Groups(h) : f >= g => Lacks(stored, h, f)
    /\ \A r \in RowsOf(h, g), s \in stored :
           RowKey(r) = RowKey(s) => RowKey(r) = NoKey
    /\ stored' = stored \cup RowsOf(h, g)
    /\ UNCHANGED reply

Reply(h, answer) ==
    /\ reply[h] = "none"
    /\ answer = "ok" => AllRows(h) \subseteq stored
    /\ answer = "rejected" => AllRows(h) \cap stored = {}
    /\ reply' = [reply EXCEPT ![h] = answer]
    /\ UNCHANGED stored

(* The server dies: the attempts in service are never answered. *)
Die ==
    /\ stored' \subseteq stored
    /\ WholeGroups(stored') /\ InOrder(stored')
    /\ \E gone \in SUBSET { h \in Attempts : reply[h] = "none" } :
           reply' = [h \in Attempts |->
                        IF h \in gone THEN "dead" ELSE reply[h]]

Next ==
    \/ \E h \in Attempts : \E g \in Groups(h) : StoreGroup(h, g)
    \/ \E h \in Attempts, answer \in {"ok", "failed", "rejected"} :
           Reply(h, answer)
    \/ Die

Spec == Init /\ [][Next]_vars
=============================================================================
