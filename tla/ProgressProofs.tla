---------------------------- MODULE ProgressProofs ----------------------------
(***************************************************************************)
(* Why an attempt of Ingest ends: what of that can be said of steps and    *)
(* states.  Each step of its handler brings it onward, the way is bounded  *)
(* by its request, and until its end either it can take a step or the one  *)
(* it waits for can.  What is left to fairness is that those who can go    *)
(* on do.                                                                  *)
(***************************************************************************)
EXTENDS IngestProofs

LEMMA StageFacts ==
    ASSUME TypeOK, NEW h \in Attempts
    PROVE  /\ pc[h] = "idle" <=> Stage(h) = 0
           /\ pc[h] = "sent" <=> Stage(h) = 1
           /\ pc[h] \in {"walk", "tx"} <=> Stage(h) = 2
           /\ pc[h] \in {"dead"} \cup Answered <=> Stage(h) = 3
           /\ Stage(h) \in 0 .. 3
  BY DEF TypeOK, PC, Active, Answered, Stage

(* A step of a handler is a step onward.                                   *)
LEMMA HandlerOnward ==
    ASSUME TypeOK, TypeOK', NEW h \in Attempts, Handler(h)
    PROVE  Onward(h)
  <1> USE DEF TypeOK, Onward
  <1>1. ASSUME \/ pc[h] = "sent" /\ pc'[h] \in {"walk"} \cup Answered
               \/ pc[h] \in {"walk", "tx"} /\ pc'[h] \in Answered
        PROVE  Onward(h)
    <2>1. Stage(h) \in {1, 2} /\ Stage(h)' \in {2, 3} /\ Stage(h) < Stage(h)'
      BY <1>1 DEF Stage, Answered
    <2> QED BY <2>1
  <1>2. ASSUME pc[h] \in {"walk", "tx"}, pc'[h] \in {"walk", "tx"}
        PROVE  Stage(h)' = Stage(h)
    BY <1>2 DEF Stage
  <1>3. CASE Decode(h) \/ Reject(h) \/ BeginFails(h) \/ Respond(h)
    BY <1>1, <1>3 DEF Decode, Reject, BeginFails, Respond, InGroup, Answer, Answered
  <1>4. CASE InsertFails(h) \/ TxFails(h)
    BY <1>1, <1>4 DEF InsertFails, TxFails, AtRow, AtRecord, Answer, Answered
  <1>5. CASE SkipEmptyGroup(h)
    <2>1. pc[h] = "walk" /\ pc'[h] = "walk" /\ grp'[h] = grp[h] + 1
      BY <1>5 DEF SkipEmptyGroup, InGroup
    <2> QED BY <1>2, <2>1
  <1>6. CASE CommitGroup(h)
    <2>1. pc[h] = "tx" /\ pc'[h] = "walk" /\ grp'[h] = grp[h] + 1
      BY <1>6 DEF CommitGroup
    <2> QED BY <1>2, <2>1
  <1>7. CASE Begin(h)
    <2>1. /\ pc[h] = "walk" /\ pc'[h] = "tx" /\ grp'[h] = grp[h] /\ item'[h] = 1
      BY <1>7 DEF Begin, InGroup
    <2>2. Depth(h) = 0 /\ Depth(h)' = 1
      BY <2>1 DEF Depth
    <2> QED BY <1>2, <2>1, <2>2
  <1>8. CASE InsertRow(h) \/ SkipUnsupported(h)
    <2>1. pc[h] = "tx" /\ pc'[h] = "tx" /\ grp'[h] = grp[h] /\ item'[h] = item[h] + 1
      BY <1>8 DEF InsertRow, SkipUnsupported, AtRow, AtRecord
    <2>2. Depth(h) = item[h] /\ Depth(h)' = item[h] + 1
      BY <2>1 DEF Depth
    <2> QED BY <1>2, <2>1, <2>2
  <1> QED BY <1>3, <1>4, <1>5, <1>6, <1>7, <1>8 DEF Handler

LEMMA StepsOnward ==
    ASSUME TypeOK, ControlInv, [Next]_vars, NEW h \in Attempts
    PROVE  UNCHANGED <<pc[h], grp[h], item[h]>> \/ Onward(h)
  <1>0. TypeOK'
    BY TypeNext
  <1>1. ASSUME NEW q \in Requests, Send(q)
        PROVE  UNCHANGED <<pc[h], grp[h], item[h]>> \/ Onward(h)
    <2> DEFINE n == <<q, tries[q] + 1>>
    <2>1. /\ n \in Attempts /\ tries[q] \in Nat
          /\ pc' = [pc EXCEPT ![n] = "sent"] /\ grp' = grp /\ item' = item
      BY <1>1, SendFacts DEF Send, TypeOK
    <2>2. CASE h # n
      BY <2>1, <2>2 DEF TypeOK
    <2>3. CASE h = n
      <3>1. pc[h] = "idle" /\ pc'[h] = "sent"
        BY <2>1, <2>3 DEF TypeOK, ControlInv
      <3>2. Stage(h) = 0 /\ Stage(h)' = 1
        BY <3>1 DEF Stage
      <3> QED BY <3>2 DEF Onward
    <2> QED BY <2>2, <2>3
  <1>2. CASE \E q \in Requests : Deliver(q) \/ GiveUp(q)
    BY <1>2 DEF Deliver, GiveUp, handlerVars
  <1>3. ASSUME NEW i \in Attempts, Handler(i)
        PROVE  UNCHANGED <<pc[h], grp[h], item[h]>> \/ Onward(h)
    <2>1. CASE i = h
      BY <1>0, <1>3, <2>1, HandlerOnward
    <2>2. CASE i # h
      BY <1>3, <2>2, HandlerShape DEF TypeOK
    <2> QED BY <2>1, <2>2
  <1>4. CASE Crash \/ PowerLoss
    <2>1. /\ pc'[h] = IF pc[h] \in Active THEN "dead" ELSE pc[h]
          /\ grp' = grp /\ item' = item
      BY <1>4 DEF Crash, PowerLoss, HandlersDie
    <2>2. CASE pc[h] \in Active
      <3>1. Stage(h) \in {1, 2} /\ Stage(h)' = 3
        BY <2>1, <2>2 DEF Stage, Active
      <3> QED BY <3>1 DEF Onward
    <2> QED BY <2>1, <2>2
  <1>5. CASE Restart \/ Sync \/ Quiescent \/ UNCHANGED vars
    BY <1>5 DEF Restart, Sync, Quiescent, vars, handlerVars
  <1> QED BY <1>1, <1>2, <1>3, <1>4, <1>5 DEF Next

(* No handler does a group, a record or an answer again.                   *)
THEOREM OnlyOnward == Spec => NeverBack
  <1>1. IndInv /\ [Next]_vars =>
          [\A h \in Attempts : UNCHANGED <<pc[h], grp[h], item[h]>> \/ Onward(h)]_vars
    BY StepsOnward DEF IndInv
  <1> QED BY <1>1, Invariance, PTL DEF Spec, NeverBack

-----------------------------------------------------------------------------
(* The way is bounded by the request: a walk ends behind its last group, a *)
(* transaction behind its last record.                                     *)
WithinRequest ==
    \A h \in Attempts :
        /\ grp[h] <= NGroups(h) + 1
        /\ pc[h] = "tx" => item[h] <= Len(Group(h, grp[h])) + 1

LEMMA WithinNext ==
    TypeOK /\ ControlInv /\ TxInv /\ WithinRequest /\ [Next]_vars => WithinRequest'
  <1> SUFFICES ASSUME TypeOK, ControlInv, TxInv, WithinRequest, [Next]_vars,
                      NEW h \in Attempts
               PROVE  /\ grp'[h] <= NGroups(h) + 1
                      /\ pc'[h] = "tx" => item'[h] <= Len(Group(h, grp'[h])) + 1
    BY DEF WithinRequest
  <1> DEFINE Bound == /\ grp'[h] <= NGroups(h) + 1
                      /\ pc'[h] = "tx" => item'[h] <= Len(Group(h, grp'[h])) + 1
  <1>1. /\ grp[h] <= NGroups(h) + 1 /\ grp[h] \in Nat \ {0} /\ item[h] \in Nat \ {0}
        /\ pc[h] = "tx" => item[h] <= Len(Group(h, grp[h])) + 1
        /\ pc[h] = "tx" => grp[h] \in Groups(h)
    BY DEF WithinRequest, TypeOK, TxInv
  <1>2. ASSUME grp'[h] = grp[h], pc'[h] = "tx" => pc[h] = "tx" /\ item'[h] = item[h]
        PROVE  Bound
    BY <1>1, <1>2
  <1>3. CASE Outside
    <2>1. CASE \E i \in Attempts : SkipEmptyGroup(i)
      <3>1. PICK i \in Attempts : SkipEmptyGroup(i)
        BY <2>1
      <3>2. CASE i = h
        <4>1. pc'[h] = "walk" /\ grp[h] \in Groups(h) /\ grp'[h] = grp[h] + 1
          BY <3>1, <3>2 DEF SkipEmptyGroup, InGroup, TypeOK
        <4> QED BY <1>1, <4>1, AttemptFacts
      <3>3. CASE i # h
        BY <1>2, <3>1, <3>3 DEF SkipEmptyGroup, TypeOK
      <3> QED BY <3>2, <3>3
    <2>2. CASE ~ \E i \in Attempts : SkipEmptyGroup(i)
      <3>1. grp' = grp
        BY <1>3, <2>2 DEF Outside, Send, Deliver, GiveUp, Decode, Reject, BeginFails,
                          Respond, Restart, Quiescent, Answer, vars, handlerVars
      <3> QED BY <1>2, <1>3, <3>1, OutsideShape
    <2> QED BY <2>1, <2>2
  <1>4. ASSUME NEW i \in Attempts, Inside(i)
        PROVE  Bound
    <2>1. CASE i # h
      <3>1. Handler(i)
        BY <1>4 DEF Inside, Handler
      <3>2. grp'[h] = grp[h] /\ pc'[h] = pc[h] /\ item'[h] = item[h]
        BY <2>1, <3>1, HandlerShape DEF TypeOK
      <3> QED BY <1>2, <3>2
    <2>2. CASE i = h /\ Begin(h)
      <3>1. /\ grp'[h] = grp[h] /\ item'[h] = 1 /\ grp[h] \in Groups(h)
        BY <2>2 DEF Begin, InGroup, TypeOK
      <3> QED BY <1>1, <3>1, GroupFacts
    <2>3. CASE i = h /\ (InsertRow(h) \/ SkipUnsupported(h))
      <3>1. /\ pc[h] = "tx" /\ item[h] \in DOMAIN Group(h, grp[h])
            /\ grp'[h] = grp[h] /\ item'[h] = item[h] + 1
        BY <2>3 DEF InsertRow, SkipUnsupported, AtRow, AtRecord, TypeOK
      <3> QED BY <1>1, <3>1, GroupFacts
    <2>4. CASE i = h /\ CommitGroup(h)
      <3>1. /\ pc[h] = "tx" /\ pc'[h] = "walk" /\ grp'[h] = grp[h] + 1
        BY <2>4 DEF CommitGroup, TypeOK
      <3> QED BY <1>1, <3>1, AttemptFacts
    <2>5. CASE i = h /\ (InsertFails(h) \/ TxFails(h))
      <3>1. grp'[h] = grp[h] /\ pc'[h] = "failed"
        BY <2>5 DEF InsertFails, TxFails, Answer, TypeOK
      <3> QED BY <1>2, <3>1
    <2> QED BY <1>4, <2>1, <2>2, <2>3, <2>4, <2>5 DEF Inside
  <1>5. CASE Crash \/ PowerLoss
    <2>1. grp'[h] = grp[h] /\ item'[h] = item[h] /\ pc'[h] # "tx"
      BY <1>5 DEF Crash, PowerLoss, HandlersDie, Active
    <2> QED BY <1>2, <2>1
  <1>6. CASE Sync
    BY <1>2, <1>6 DEF Sync, handlerVars
  <1> QED BY <1>3, <1>4, <1>5, <1>6, StepKinds

(* A walk and a transaction stay within their request.                     *)
THEOREM Bounded == Spec => []WithinRequest
  <1>1. Init => WithinRequest
    BY AttemptFacts DEF Init, WithinRequest
  <1>2. IndInv /\ WithinRequest /\ [Next]_vars => WithinRequest'
    BY WithinNext DEF IndInv
  <1> QED BY <1>1, <1>2, Invariance, PTL DEF Spec

-----------------------------------------------------------------------------
(* Whoever holds the lock can go on.                                       *)
LEMMA HolderGoes ==
    ASSUME TypeOK, TxInv, writer # Nobody
    PROVE  writer \in Attempts /\ Goes(writer)
  <1>1. /\ writer \in Attempts /\ pc[writer] = "tx"
        /\ grp[writer] \in Groups(writer) /\ item[writer] \in Nat \ {0}
    BY DEF TypeOK, StoreTypeOK, TxInv, WriterInTx
  <1>2. \/ item[writer] \in DOMAIN Group(writer, grp[writer])
        \/ item[writer] > Len(Group(writer, grp[writer]))
    BY <1>1, GroupFacts
  <1> QED BY <1>1, <1>2 DEF Goes, AtRecord

LEMMA WaitingEnds == TypeOK /\ TxInv => NobodyStuck
  <1> SUFFICES ASSUME TypeOK, TxInv, NEW h \in Attempts, pc[h] \in Active
               PROVE  Goes(h) \/ (writer \in Attempts \ {h} /\ Goes(writer))
    BY DEF NobodyStuck
  <1>1. CASE writer # Nobody
    BY <1>1, HolderGoes
  <1>2. CASE writer = Nobody
    <2>1. grp[h] \in Groups(h) \/ grp[h] > NGroups(h)
      BY AttemptFacts DEF TypeOK
    <2>2. CASE pc[h] \in {"sent", "walk"}
      BY <1>2, <2>1, <2>2 DEF Goes, InGroup
    <2>3. CASE pc[h] = "tx"
      <3>1. grp[h] \in Groups(h) /\ item[h] \in Nat \ {0}
        BY <2>3 DEF TypeOK, TxInv
      <3>2. item[h] \in DOMAIN Group(h, grp[h]) \/ item[h] > Len(Group(h, grp[h]))
        BY <3>1, GroupFacts
      <3> QED BY <1>2, <2>3, <3>2 DEF Goes, AtRecord
    <2> QED BY <2>2, <2>3 DEF Active
  <1> QED BY <1>1, <1>2

(* No ring of handlers that wait for each other, whatever they store.      *)
THEOREM NoRing == Spec => []NobodyStuck
  BY WaitingEnds, Invariance, PTL DEF IndInv
=============================================================================
