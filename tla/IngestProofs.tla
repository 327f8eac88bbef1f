----------------------------- MODULE IngestProofs -----------------------------
(***************************************************************************)
(* Proofs about Ingest, for any requests, any groups in them, any number   *)
(* of attempts, crashes and power failures, with a file or in memory.      *)
(* The inductive invariant of IngestInv is established layer by layer,     *)
(* each layer resting on the ones before.                                  *)
(***************************************************************************)
EXTENDS IngestInv, TLAPS

-----------------------------------------------------------------------------
(* Facts about requests and rows.                                          *)

(* An attempt is a request and a number; its groups are numbered 1, 2, ... *)
LEMMA AttemptFacts ==
    ASSUME NEW h \in Attempts
    PROVE  /\ h[1] \in Requests
           /\ h[2] \in 1 .. MaxAttempts
           /\ h = <<h[1], h[2]>>
           /\ Content[h[1]] \in Seq(Seq(Records))
           /\ NGroups(h) \in Nat
           /\ Groups(h) = 1 .. NGroups(h)
  BY ContentAssumption DEF Attempts, NGroups, Groups

(* A group is a sequence of records.                                       *)
LEMMA GroupFacts ==
    ASSUME NEW h \in Attempts, NEW g \in Groups(h)
    PROVE  /\ g \in Nat \ {0}
           /\ Group(h, g) \in Seq(Records)
           /\ DOMAIN Group(h, g) = 1 .. Len(Group(h, g))
           /\ Len(Group(h, g)) \in Nat
  BY AttemptFacts DEF Group, Groups, NGroups

(* A row of a group carries its attempt and its group in its name.         *)
LEMMA RowFacts ==
    ASSUME NEW h \in Attempts, NEW g \in Groups(h), NEW r \in RowsOf(h, g)
    PROVE  /\ r \in Row
           /\ r.by = h
           /\ r.grp = g
           /\ r.idx \in DOMAIN Group(h, g)
           /\ Group(h, g)[r.idx] \notin Unsupported
           /\ r = [by |-> h, grp |-> g, idx |-> r.idx]
  BY GroupFacts DEF RowsOf, Row

(* The number of an attempt that a client makes is in range.               *)
LEMMA SendFacts ==
    ASSUME TypeOK, NEW q \in Requests, tries[q] < MaxAttempts
    PROVE  /\ <<q, tries[q] + 1>> \in Attempts
           /\ tries[q] + 1 \in 0 .. MaxAttempts
  BY MaxAttemptsAssumption DEF TypeOK, Attempts

-----------------------------------------------------------------------------
(* Type correctness.                                                       *)

LEMMA TypeInit == Init => TypeOK
  BY StoreAssumption, CrashAssumption, MaxAttemptsAssumption
     DEF Init, StoreInit, TypeOK, StoreTypeOK, PC, Active, Answered

LEMMA TypeNext == TypeOK /\ [Next]_vars => TypeOK'
  <1> SUFFICES ASSUME TypeOK, [Next]_vars PROVE TypeOK'
    OBVIOUS
  <1> USE DEF TypeOK, StoreTypeOK
  <1>1. ASSUME NEW q \in Requests, Send(q) PROVE TypeOK'
    BY <1>1, SendFacts DEF Send, storeVars, serverVars, PC, Active
  <1>2. ASSUME NEW q \in Requests, Deliver(q) PROVE TypeOK'
    BY <1>2 DEF Deliver, storeVars, handlerVars, serverVars, Answered
  <1>3. ASSUME NEW q \in Requests, GiveUp(q) PROVE TypeOK'
    BY <1>3 DEF GiveUp, storeVars, handlerVars, serverVars
  <1>4. ASSUME NEW h \in Attempts, Handler(h) PROVE TypeOK'
    <2> USE DEF clientVars, serverVars, storeVars, PC, Active, Answered
    <2>1. CASE Decode(h)
      BY <2>1 DEF Decode
    <2>2. CASE Reject(h)
      BY <2>2 DEF Reject, Answer
    <2>3. CASE SkipEmptyGroup(h)
      BY <2>3 DEF SkipEmptyGroup
    <2>4. CASE Begin(h)
      BY <2>4 DEF Begin, BeginTx
    <2>5. CASE BeginFails(h)
      BY <2>5 DEF BeginFails, Answer
    <2>6. CASE InsertRow(h)
      <3>1. NextRow(h) \in Row
        BY DEF NextRow, Row
      <3>2. QED
        BY <2>6, <3>1 DEF InsertRow, ExecInsert
    <2>7. CASE SkipUnsupported(h)
      BY <2>7 DEF SkipUnsupported
    <2>8. CASE InsertFails(h)
      BY <2>8 DEF InsertFails, Rollback, Release, Answer
    <2>9. CASE TxFails(h)
      BY <2>9 DEF TxFails, Rollback, Release, Answer
    <2>10. CASE CommitGroup(h)
      BY <2>10 DEF CommitGroup, Commit, Release
    <2>11. CASE Respond(h)
      BY <2>11 DEF Respond, Answer
    <2>12. QED
      BY <1>4, <2>1, <2>2, <2>3, <2>4, <2>5, <2>6, <2>7, <2>8, <2>9, <2>10,
         <2>11 DEF Handler
  <1>5. CASE Crash
    <2>1. crashes' \in 0 .. MaxCrashes /\ powerLosses' \in 0 .. MaxPowerLosses
      BY <1>5, CrashAssumption DEF Crash
    <2>2. pc' \in [Attempts -> PC]
      BY <1>5 DEF Crash, HandlersDie, PC
    <2>3. StoreTypeOK'
      BY <1>5 DEF Crash, StoreCrash
    <2>4. QED
      BY <1>5, <2>1, <2>2, <2>3 DEF Crash, HandlersDie, clientVars
  <1>6. CASE PowerLoss
    <2>1. powerLosses' \in 0 .. MaxPowerLosses /\ crashes' \in 0 .. MaxCrashes
      BY <1>6, CrashAssumption DEF PowerLoss
    <2>2. pc' \in [Attempts -> PC]
      BY <1>6 DEF PowerLoss, HandlersDie, PC
    <2>3. StoreTypeOK'
      BY <1>6 DEF PowerLoss, StorePowerLoss
    <2>4. QED
      BY <1>6, <2>1, <2>2, <2>3 DEF PowerLoss, HandlersDie, clientVars
  <1>7. CASE Restart
    BY <1>7 DEF Restart, Reopen, storeVars, handlerVars, clientVars
  <1>8. CASE Sync
    BY <1>8 DEF Sync, Checkpoint, handlerVars, clientVars, serverVars
  <1>9. CASE Quiescent \/ UNCHANGED vars
    BY <1>9
       DEF Quiescent, vars, storeVars, handlerVars, clientVars, serverVars
  <1>10. QED
    BY <1>1, <1>2, <1>3, <1>4, <1>5, <1>6, <1>7, <1>8, <1>9 DEF Next

(* The state has the shape the modules declare, in every reachable state.  *)
THEOREM TypeCorrect == Spec => []TypeOK
  BY TypeInit, TypeNext, PTL DEF Spec

-----------------------------------------------------------------------------
(* What every handler step has in common.                                  *)

LEMMA HandlerShape ==
    ASSUME TypeOK, NEW h \in Attempts, Handler(h)
    PROVE  /\ pc[h] \in Active
           /\ pc' = [pc EXCEPT ![h] = pc'[h]]
           /\ grp' = [grp EXCEPT ![h] = grp'[h]]
           /\ item' = [item EXCEPT ![h] = item'[h]]
           /\ pc'[h] \in {"walk", "tx"} \cup Answered
           /\ pc'[h] = "rejected" => pc[h] = "sent" /\ grp'[h] = grp[h]
           /\ UNCHANGED <<clientVars, serverVars>>
  <1> USE DEF TypeOK, Active, Answered
  <1>1. CASE Decode(h) \/ Reject(h)
    BY <1>1 DEF Decode, Reject, Answer
  <1>2. CASE SkipEmptyGroup(h) \/ Begin(h) \/ BeginFails(h)
    BY <1>2 DEF SkipEmptyGroup, Begin, BeginFails, InGroup, Answer
  <1>3. CASE InsertRow(h) \/ SkipUnsupported(h) \/ InsertFails(h)
    BY <1>3 DEF InsertRow, SkipUnsupported, InsertFails, AtRow, AtRecord, Answer
  <1>4. CASE TxFails(h) \/ CommitGroup(h) \/ Respond(h)
    BY <1>4 DEF TxFails, CommitGroup, Respond, Answer
  <1>5. QED
    BY <1>1, <1>2, <1>3, <1>4 DEF Handler

(* The steps that leave the store alone, and the handlers in transactions  *)
(* where they are.                                                         *)
Outside ==
    \/ \E q \in Requests : Send(q) \/ Deliver(q) \/ GiveUp(q)
    \/ \E h \in Attempts : \/ Decode(h) \/ Reject(h) \/ SkipEmptyGroup(h)
                           \/ BeginFails(h) \/ Respond(h)
    \/ Restart \/ Quiescent \/ UNCHANGED vars

(* The steps of an open transaction.                                       *)
Inside(h) == \/ Begin(h) \/ InsertRow(h) \/ SkipUnsupported(h)
             \/ InsertFails(h) \/ TxFails(h) \/ CommitGroup(h)

LEMMA StepKinds ==
    ASSUME [Next]_vars
    PROVE  \/ Outside
           \/ \E h \in Attempts : Inside(h)
           \/ Crash \/ PowerLoss \/ Sync
  BY DEF Next, Handler, Outside, Inside

LEMMA OutsideShape ==
    ASSUME TypeOK, ControlInv, Outside
    PROVE  /\ UNCHANGED storeVars
           /\ \A h \in Attempts : pc'[h] = "tx" <=> pc[h] = "tx"
           /\ \A h \in Attempts : pc[h] = "tx" =>
                  grp'[h] = grp[h] /\ item'[h] = item[h]
  <1> USE DEF TypeOK
  <1>1. ASSUME NEW q \in Requests, Send(q) \/ Deliver(q) \/ GiveUp(q)
        PROVE  /\ UNCHANGED <<storeVars, grp, item>>
               /\ \A h \in Attempts : pc'[h] = "tx" <=> pc[h] = "tx"
    <2>1. CASE Send(q)
      <3>1. <<q, tries[q] + 1>> \in Attempts
        BY <2>1, SendFacts DEF Send
      <3>2. pc[<<q, tries[q] + 1>>] = "idle"
        BY <3>1 DEF ControlInv
      <3>3. QED
        BY <2>1, <3>1, <3>2 DEF Send
    <2>2. CASE Deliver(q) \/ GiveUp(q)
      BY <2>2 DEF Deliver, GiveUp, handlerVars
    <2>3. QED
      BY <1>1, <2>1, <2>2
  <1>2. ASSUME NEW h \in Attempts,
               \/ Decode(h) \/ Reject(h) \/ SkipEmptyGroup(h)
               \/ BeginFails(h) \/ Respond(h)
        PROVE  /\ UNCHANGED storeVars
               /\ \A i \in Attempts : pc'[i] = "tx" <=> pc[i] = "tx"
               /\ \A i \in Attempts : pc[i] = "tx" =>
                      grp'[i] = grp[i] /\ item'[i] = item[i]
    BY <1>2 DEF Decode, Reject, SkipEmptyGroup, BeginFails, Respond, InGroup,
                Answer
  <1>3. CASE Restart \/ Quiescent \/ UNCHANGED vars
    BY <1>3 DEF Restart, Reopen, Quiescent, vars, storeVars, handlerVars
  <1>4. QED
    BY <1>1, <1>2, <1>3 DEF Outside, storeVars

-----------------------------------------------------------------------------
(* Control.                                                                *)

LEMMA ControlNext == TypeOK /\ ControlInv /\ [Next]_vars => ControlInv'
  <1> SUFFICES ASSUME TypeOK, ControlInv, [Next]_vars PROVE ControlInv'
    OBVIOUS
  <1> USE DEF TypeOK, ControlInv, Current
  <1>1. ASSUME NEW q \in Requests, Send(q) PROVE ControlInv'
    <2> DEFINE n == <<q, tries[q] + 1>>
    <2>1. n \in Attempts /\ tries[q] \in Nat
      BY <1>1, SendFacts DEF Send
    <2>2. pc[n] = "idle" /\ grp[n] = 1
      BY <2>1
    <2>3. /\ tries' = [tries EXCEPT ![q] = tries[q] + 1]
          /\ client' = [client EXCEPT ![q] = "waiting"]
          /\ pc' = [pc EXCEPT ![n] = "sent"]
          /\ grp' = grp
      BY <1>1 DEF Send
    <2>4. \A h \in Attempts : pc'[h] \in {"idle", "sent", "rejected"}
              => grp'[h] = 1
      BY <2>1, <2>2, <2>3
    <2>5. ASSUME NEW h \in Attempts, h[2] > tries'[h[1]]
          PROVE  pc'[h] = "idle"
      <3>1. h[1] \in Requests /\ h[2] \in Nat /\ tries[h[1]] \in Nat
        BY AttemptFacts, MaxAttemptsAssumption
      <3>2. h # n
        BY <2>1, <2>3, <2>5
      <3>3. h[2] > tries[h[1]]
        BY <2>1, <2>3, <2>5, <3>1
      <3>4. QED
        BY <2>3, <3>2, <3>3
    <2>6. \A p \in Requests :
              client'[p] \in {"waiting", "acked"} => tries'[p] # 0
      BY <2>1, <2>3
    <2>7. ASSUME NEW p \in Requests, client'[p] = "acked"
          PROVE  pc'[<<p, tries'[p]>>] = "ok"
      <3>1. p # q
        BY <2>3, <2>7
      <3>2. client[p] = "acked" /\ tries'[p] = tries[p]
        BY <2>3, <2>7, <3>1
      <3>3. <<p, tries[p]>> # n
        BY <3>1
      <3>4. QED
        BY <2>3, <3>2, <3>3
    <2>8. QED
      BY <2>4, <2>5, <2>6, <2>7
  <1>2. ASSUME NEW q \in Requests, Deliver(q) PROVE ControlInv'
    BY <1>2 DEF Deliver, handlerVars, Answered
  <1>3. ASSUME NEW q \in Requests, GiveUp(q) PROVE ControlInv'
    BY <1>3 DEF GiveUp, handlerVars
  <1>4. ASSUME NEW h \in Attempts, Handler(h) PROVE ControlInv'
    <2>1. /\ pc[h] \in {"sent", "walk", "tx"}
          /\ pc' = [pc EXCEPT ![h] = pc'[h]]
          /\ grp' = [grp EXCEPT ![h] = grp'[h]]
          /\ pc'[h] \in {"walk", "tx", "ok", "failed", "rejected"}
          /\ pc'[h] = "rejected" => pc[h] = "sent" /\ grp'[h] = grp[h]
          /\ tries' = tries /\ client' = client
      BY <1>4, HandlerShape DEF clientVars, Active, Answered
    <2>2. \A i \in Attempts : i # h => pc'[i] = pc[i] /\ grp'[i] = grp[i]
      BY <2>1
    <2>3. \A i \in Attempts : pc'[i] \in {"idle", "sent", "rejected"}
              => grp'[i] = 1
      BY <2>1, <2>2
    <2>4. \A i \in Attempts : i[2] > tries'[i[1]] => pc'[i] = "idle"
      BY <2>1, <2>2
    <2>5. ASSUME NEW q \in Requests, client'[q] = "acked"
          PROVE  pc'[<<q, tries'[q]>>] = "ok"
      <3>1. tries[q] \in 1 .. MaxAttempts
        BY <2>1, <2>5, MaxAttemptsAssumption
      <3>2. <<q, tries[q]>> \in Attempts /\ pc[<<q, tries[q]>>] = "ok"
        BY <2>1, <2>5, <3>1 DEF Attempts
      <3>3. <<q, tries[q]>> # h
        BY <2>1, <3>2
      <3>4. QED
        BY <2>1, <2>2, <3>2, <3>3
    <2>6. QED
      BY <2>1, <2>3, <2>4, <2>5
  <1>5. CASE Crash \/ PowerLoss
    <2> DEFINE Dead(i) == IF pc[i] \in Active THEN "dead" ELSE pc[i]
    <2>1. /\ pc' = [i \in Attempts |-> Dead(i)]
          /\ grp' = grp /\ client' = client /\ tries' = tries
      BY <1>5 DEF Crash, PowerLoss, HandlersDie, clientVars
    <2>2. ASSUME NEW q \in Requests, client'[q] = "acked"
          PROVE  pc'[<<q, tries'[q]>>] = "ok"
      <3>1. tries[q] \in 1 .. MaxAttempts
        BY <2>1, <2>2, MaxAttemptsAssumption
      <3>2. <<q, tries[q]>> \in Attempts /\ pc[<<q, tries[q]>>] = "ok"
        BY <2>1, <2>2, <3>1 DEF Attempts
      <3>3. QED
        BY <2>1, <3>2 DEF Active
    <2>3. QED
      BY <2>1, <2>2 DEF Active
  <1>6. CASE Restart \/ Sync
    BY <1>6 DEF Restart, Sync, handlerVars, clientVars
  <1>7. CASE Quiescent \/ UNCHANGED vars
    BY <1>7 DEF Quiescent, vars, handlerVars, clientVars
  <1>8. QED
    BY <1>1, <1>2, <1>3, <1>4, <1>5, <1>6, <1>7 DEF Next

-----------------------------------------------------------------------------
(* Transactions.                                                           *)

(* The rows before a record, and the row it becomes.                       *)
LEMMA StepFacts ==
    ASSUME TypeOK, NEW h \in Attempts, AtRecord(h), grp[h] \in Groups(h)
    PROVE  LET Below(k) == { r \in RowsOf(h, grp[h]) : r.idx < k } IN
           /\ Group(h, grp[h])[item[h]] \notin Unsupported =>
                  /\ NextRow(h) \in RowsOf(h, grp[h])
                  /\ Below(item[h] + 1) = Below(item[h]) \cup {NextRow(h)}
           /\ Group(h, grp[h])[item[h]] \in Unsupported =>
                  Below(item[h] + 1) = Below(item[h])
  <1> DEFINE rows == RowsOf(h, grp[h])
             Below(k) == { r \in rows : r.idx < k }
  <1>1. item[h] \in DOMAIN Group(h, grp[h]) /\ item[h] \in Nat
    BY DEF AtRecord, TypeOK
  <1>2. \A r \in rows : /\ r.idx \in Nat
                        /\ Group(h, grp[h])[r.idx] \notin Unsupported
                        /\ r = [by |-> h, grp |-> grp[h], idx |-> r.idx]
    BY RowFacts, GroupFacts
  <1>3. \A r \in rows : r.idx < item[h] + 1 <=> r.idx < item[h] \/ r.idx = item[h]
    BY <1>1, <1>2
  <1>4. ASSUME Group(h, grp[h])[item[h]] \notin Unsupported
        PROVE  NextRow(h) \in rows /\ Below(item[h] + 1) = Below(item[h]) \cup {NextRow(h)}
    <2>1. NextRow(h) \in rows /\ NextRow(h).idx = item[h]
      BY <1>1, <1>4 DEF RowsOf, NextRow
    <2>2. \A r \in rows : r.idx = item[h] => r = NextRow(h)
      BY <1>2 DEF NextRow
    <2>3. QED
      BY <1>3, <2>1, <2>2
  <1>5. ASSUME Group(h, grp[h])[item[h]] \in Unsupported
        PROVE  Below(item[h] + 1) = Below(item[h])
    BY <1>2, <1>3, <1>5
  <1>6. QED
    BY <1>4, <1>5

LEMMA TxNext ==
    TypeOK /\ ControlInv /\ TxInv /\ [Next]_vars => TxInv'
  <1> SUFFICES ASSUME TypeOK, ControlInv, TxInv, [Next]_vars PROVE TxInv'
    OBVIOUS
  <1> DEFINE Below(h, k) == { r \in RowsOf(h, grp[h]) : r.idx < k }
  <1>1. CASE Outside
    BY <1>1, OutsideShape DEF TypeOK, StoreTypeOK, TxInv, WriterInTx, storeVars
  <1>2. ASSUME NEW h \in Attempts, Inside(h) PROVE TxInv'
    <2>1. /\ pending[h] # {} => writer = h
          /\ writer # Nobody => writer \in Attempts /\ pc[writer] = "tx"
          /\ pc \in [Attempts -> PC]
          /\ grp \in [Attempts -> Nat \ {0}]
          /\ item \in [Attempts -> Nat \ {0}]
          /\ pending \in [Attempts -> SUBSET Row]
      BY DEF TypeOK, StoreTypeOK, TxInv, WriterInTx
    (* It is enough to look at h and at the lock. *)
    <2>2. SUFFICES /\ \A i \in Attempts : i # h =>
                          /\ pc'[i] = pc[i] /\ grp'[i] = grp[i]
                          /\ item'[i] = item[i] /\ pending'[i] = pending[i]
                   /\ \/ writer' = writer
                      \/ writer = Nobody /\ writer' = h
                      \/ writer = h /\ writer' = Nobody
                   /\ writer' = h => pc'[h] = "tx"
                   /\ pending'[h] # {} => writer' = h
                   /\ pc'[h] = "tx" => /\ grp'[h] \in Groups(h)
                                       /\ grp'[h] = grp[h]
                                       /\ pending'[h] = Below(h, item'[h])
                   /\ pc'[h] # "tx" => pending'[h] = {}
      <3>1. Nobody # h
        BY StoreAssumption
      <3>2. WriterInTx'
        BY <2>1, <2>2, <3>1 DEF WriterInTx
      <3>3. ASSUME NEW i \in Attempts, pending'[i] # {} PROVE writer' = i
        <4>1. CASE i = h
          BY <2>2, <3>3, <4>1
        <4>2. CASE i # h
          <5>1. pending[i] # {} /\ i # Nobody
            BY <2>2, <3>3, <4>2, StoreAssumption
          <5>2. writer = i
            BY <5>1 DEF TxInv
          <5>3. QED
            BY <2>2, <4>2, <5>1, <5>2
        <4>3. QED
          BY <4>1, <4>2
      <3>4. \A i \in Attempts : pc'[i] = "tx" =>
                /\ grp'[i] \in Groups(i)
                /\ pending'[i] = { r \in RowsOf(i, grp'[i]) : r.idx < item'[i] }
        BY <2>2 DEF TxInv
      <3>5. \A i \in Attempts : pc'[i] # "tx" => pending'[i] = {}
        BY <2>2 DEF TxInv
      <3>6. QED
        BY <3>2, <3>3, <3>4, <3>5 DEF TxInv
    <2>3. CASE Begin(h)
      <3>1. grp[h] \in Groups(h) /\ pending[h] = {}
        BY <2>3 DEF Begin, InGroup, TxInv
      <3>2. \A r \in RowsOf(h, grp[h]) : r.idx \in Nat \ {0}
        BY <3>1, RowFacts, GroupFacts
      <3>3. Below(h, 1) = {}
        BY <3>2
      <3>4. /\ pc' = [pc EXCEPT ![h] = "tx"]
            /\ item' = [item EXCEPT ![h] = 1]
            /\ grp' = grp /\ pending' = pending
            /\ \/ writer' = writer
               \/ writer = Nobody /\ writer' = h
        BY <2>3 DEF Begin, BeginTx
      <3>5. writer' = h => pc'[h] = "tx"
        BY <2>1, <3>4
      <3>6. pc'[h] = "tx" => /\ grp'[h] \in Groups(h)
                             /\ grp'[h] = grp[h]
                             /\ pending'[h] = Below(h, item'[h])
        BY <2>1, <3>1, <3>3, <3>4
      <3>7. pc'[h] = "tx" /\ pending'[h] = {}
        BY <2>1, <3>1, <3>4
      <3>8. QED
        BY <2>1, <3>4, <3>5, <3>6, <3>7
    <2>4. CASE InsertRow(h)
      <3>1. grp[h] \in Groups(h) /\ pending[h] = Below(h, item[h])
        BY <2>4 DEF InsertRow, AtRow, AtRecord, TxInv
      <3>2. Below(h, item[h] + 1) = Below(h, item[h]) \cup {NextRow(h)}
        BY <2>4, <3>1, StepFacts DEF InsertRow, AtRow
      <3>3. /\ pc' = pc /\ grp' = grp /\ pc[h] = "tx"
            /\ item' = [item EXCEPT ![h] = item[h] + 1]
            /\ pending' = [pending EXCEPT ![h] = pending[h] \cup {NextRow(h)}]
            /\ writer \in {Nobody, h} /\ writer' = h
        BY <2>4 DEF InsertRow, ExecInsert, AtRow, AtRecord
      <3>4. /\ grp'[h] \in Groups(h)
            /\ grp'[h] = grp[h]
            /\ pending'[h] = Below(h, item'[h])
        BY <2>1, <3>1, <3>2, <3>3
      <3>5. QED
        BY <2>1, <3>3, <3>4
    <2>5. CASE SkipUnsupported(h)
      <3>1. grp[h] \in Groups(h) /\ pending[h] = Below(h, item[h])
        BY <2>5 DEF SkipUnsupported, AtRecord, TxInv
      <3>2. Below(h, item[h] + 1) = Below(h, item[h])
        BY <2>5, <3>1, StepFacts DEF SkipUnsupported
      <3>3. /\ pc' = pc /\ grp' = grp /\ pc[h] = "tx"
            /\ item' = [item EXCEPT ![h] = item[h] + 1]
            /\ pending' = pending /\ writer' = writer
        BY <2>5 DEF SkipUnsupported, AtRecord, storeVars
      <3>4. /\ grp'[h] \in Groups(h)
            /\ grp'[h] = grp[h]
            /\ pending'[h] = Below(h, item'[h])
        BY <2>1, <3>1, <3>2, <3>3
      <3>5. QED
        BY <2>1, <3>3, <3>4
    <2>6. CASE InsertFails(h) \/ TxFails(h) \/ CommitGroup(h)
      <3>1. /\ pending' = [pending EXCEPT ![h] = {}]
            /\ writer' = IF writer = h THEN Nobody ELSE writer
            /\ item' = item
            /\ grp' = [grp EXCEPT ![h] = grp'[h]]
            /\ pc' = [pc EXCEPT ![h] = pc'[h]]
            /\ pc'[h] # "tx"
        BY <2>1, <2>6 DEF InsertFails, TxFails, CommitGroup, Rollback, Commit,
                          Release, Answer
      <3>2. writer' # h
        BY <3>1, StoreAssumption
      <3>3. pending'[h] = {}
        BY <2>1, <3>1
      <3>4. QED
        BY <2>1, <3>1, <3>2, <3>3
    <2>8. QED
      BY <1>2, <2>3, <2>4, <2>5, <2>6 DEF Inside
  <1>3. CASE Crash \/ PowerLoss
    <2>1. /\ pending' = [h \in Attempts |-> {}]
          /\ writer' = Nobody
          /\ \A h \in Attempts : pc'[h] # "tx"
      BY <1>3 DEF Crash, StoreCrash, PowerLoss, StorePowerLoss, HandlersDie,
                  Active
    <2>2. QED
      BY <2>1 DEF TxInv, WriterInTx
  <1>4. CASE Sync
    BY <1>4 DEF Sync, Checkpoint, handlerVars, TxInv, WriterInTx
  <1>5. QED
    BY <1>1, <1>2, <1>3, <1>4, StepKinds

(* A group that is committed is committed whole.                           *)
LEMMA CommitFacts ==
    ASSUME TypeOK, TxInv, NEW h \in Attempts, CommitGroup(h)
    PROVE  /\ grp[h] \in Groups(h)
           /\ pending[h] = RowsOf(h, grp[h])
           /\ db' = db \cup RowsOf(h, grp[h])
           /\ synced' = synced
           /\ pc' = [pc EXCEPT ![h] = "walk"]
           /\ grp' = [grp EXCEPT ![h] = grp[h] + 1]
  <1>1. /\ grp[h] \in Groups(h)
        /\ pending[h] = { r \in RowsOf(h, grp[h]) : r.idx < item[h] }
        /\ item[h] > Len(Group(h, grp[h])) /\ item[h] \in Nat
    BY DEF CommitGroup, TxInv, TypeOK
  <1>2. \A r \in RowsOf(h, grp[h]) : r.idx < item[h]
    BY <1>1, RowFacts, GroupFacts
  <1>3. pending[h] = RowsOf(h, grp[h])
    BY <1>1, <1>2
  <1>4. QED
    BY <1>1, <1>3 DEF CommitGroup, Commit

-----------------------------------------------------------------------------
(* The walk against the database.                                          *)

(* Rows of different groups are different rows.                            *)
LEMMA GroupsApart ==
    ASSUME NEW h \in Attempts, NEW g \in Groups(h),
           NEW i \in Attempts, NEW f \in Groups(i), i # h \/ f # g
    PROVE  RowsOf(i, f) \cap RowsOf(h, g) = {}
  <1>1. \A r \in RowsOf(h, g) : r.by = h /\ r.grp = g
    BY RowFacts
  <1>2. \A r \in RowsOf(i, f) : r.by = i /\ r.grp = f
    BY RowFacts
  <1>3. QED
    BY <1>1, <1>2

(* What the steps do to the database and to a walk, seen from one attempt. *)
LEMMA StoreSteps ==
    ASSUME TypeOK, ControlInv, TxInv, [Next]_vars
    PROVE  \/ UNCHANGED <<db, synced>>
           \/ \E h \in Attempts : CommitGroup(h)
           \/ Crash \/ PowerLoss \/ Sync
  <1>1. CASE Outside
    BY <1>1, OutsideShape DEF storeVars
  <1>2. ASSUME NEW h \in Attempts, Inside(h)
        PROVE  UNCHANGED <<db, synced>> \/ CommitGroup(h)
    BY <1>2 DEF Inside, Begin, BeginTx, InsertRow, ExecInsert, SkipUnsupported,
                storeVars, InsertFails, TxFails, Rollback
  <1>3. QED
    BY <1>1, <1>2, StepKinds

(* A walk moves on only past a group that is empty or that it commits, and *)
(* ends with "ok" only past the last group.                                *)
LEMMA WalkSteps ==
    ASSUME TypeOK, ControlInv, [Next]_vars, NEW h \in Attempts
    PROVE  \/ /\ grp'[h] = grp[h]
              /\ \/ pc'[h] = pc[h]
                 \/ pc'[h] \in {"walk", "tx"} /\ pc[h] \in {"walk", "tx"}
                 \/ pc'[h] = "walk" /\ grp[h] = 1
                 \/ pc'[h] \in {"sent", "failed", "rejected", "dead"}
                 \/ pc'[h] = "ok" /\ pc[h] = "walk" /\ grp[h] > NGroups(h)
           \/ /\ grp'[h] = grp[h] + 1
              /\ pc'[h] = "walk" /\ pc[h] = "walk"
              /\ grp[h] \in Groups(h)
              /\ Group(h, grp[h]) = <<>>
           \/ CommitGroup(h)
  <1> USE DEF TypeOK
  <1>1. ASSUME NEW q \in Requests, Send(q) \/ Deliver(q) \/ GiveUp(q)
        PROVE  grp'[h] = grp[h] /\ (pc'[h] = pc[h] \/ pc'[h] = "sent")
    BY <1>1 DEF Send, Deliver, GiveUp, handlerVars
  <1>2. ASSUME NEW i \in Attempts, Handler(i), i # h
        PROVE  grp'[h] = grp[h] /\ pc'[h] = pc[h]
    BY <1>2, HandlerShape
  <1>3. CASE Decode(h) \/ Reject(h) \/ BeginFails(h) \/ Respond(h)
    BY <1>3 DEF Decode, Reject, BeginFails, Respond, Answer, ControlInv
  <1>4. CASE SkipEmptyGroup(h)
    BY <1>4 DEF SkipEmptyGroup, InGroup
  <1>5. CASE Begin(h)
    BY <1>5 DEF Begin, InGroup
  <1>6. CASE InsertRow(h) \/ SkipUnsupported(h)
    BY <1>6 DEF InsertRow, SkipUnsupported
  <1>7. CASE InsertFails(h) \/ TxFails(h)
    BY <1>7 DEF InsertFails, TxFails, Answer
  <1>8. CASE Crash \/ PowerLoss
    BY <1>8 DEF Crash, PowerLoss, HandlersDie
  <1>9. CASE Restart \/ Sync \/ Quiescent \/ UNCHANGED vars
    BY <1>9 DEF Restart, Sync, Quiescent, vars, handlerVars
  <1>10. QED
    BY <1>1, <1>2, <1>3, <1>4, <1>5, <1>6, <1>7, <1>8, <1>9 DEF Next, Handler

LEMMA EmptyGroup ==
    ASSUME NEW h \in Attempts, NEW g \in Groups(h), Group(h, g) = <<>>
    PROVE  RowsOf(h, g) = {}
  BY DEF RowsOf

(* Promises already kept are broken only by the crashes Durable excludes.  *)
LEMMA DurableSteps ==
    ASSUME TypeOK, ControlInv, TxInv, DataInv, [Next]_vars
    PROVE  /\ Durable' => Durable
           /\ Durable' => db \subseteq db'
  <1> USE DEF Durable
  <1>1. CASE Crash
    BY <1>1 DEF TypeOK, Crash, StoreCrash
  <1>2. CASE PowerLoss
    BY <1>2 DEF TypeOK, PowerLoss
  <1>3. CASE ~Crash /\ ~PowerLoss
    <2>1. crashes' = crashes /\ powerLosses' = powerLosses
      <3>1. ASSUME NEW h \in Attempts, Handler(h) PROVE UNCHANGED serverVars
        BY <3>1, HandlerShape
      <3>2. ASSUME NEW q \in Requests, Send(q) \/ Deliver(q) \/ GiveUp(q)
            PROVE  UNCHANGED serverVars
        BY <3>2 DEF Send, Deliver, GiveUp
      <3>3. CASE Restart \/ Sync \/ Quiescent \/ UNCHANGED vars
        BY <3>3 DEF Restart, Sync, Quiescent, vars, serverVars
      <3>4. QED
        BY <1>3, <3>1, <3>2, <3>3 DEF Next, serverVars
    <2>2. db \subseteq db'
      BY <1>3, StoreSteps DEF CommitGroup, Commit, Sync, Checkpoint
    <2>3. QED
      BY <2>1, <2>2
  <1>4. QED
    BY <1>1, <1>2, <1>3

(* Nothing is stored of a group that a walk has not passed.                *)
LEMMA FreshNext ==
    ASSUME TypeOK, ControlInv, TxInv, synced \subseteq db, [Next]_vars,
           \A h \in Attempts : \A g \in Groups(h) : g >= grp[h] => Lacks(db, h, g)
    PROVE  \A h \in Attempts : \A g \in Groups(h) : g >= grp'[h] => Lacks(db', h, g)
  <1> SUFFICES ASSUME NEW h \in Attempts, NEW g \in Groups(h), g >= grp'[h]
               PROVE  Lacks(db', h, g)
    OBVIOUS
  <1>1. g \in Nat /\ grp[h] \in Nat
    BY GroupFacts DEF TypeOK
  <1>2. g >= grp[h] /\ (CommitGroup(h) => g # grp[h])
    <2>1. CASE CommitGroup(h)
      <3>1. grp'[h] = grp[h] + 1
        BY <2>1, CommitFacts DEF TypeOK
      <3>2. QED
        BY <1>1, <3>1
    <2>2. CASE ~CommitGroup(h)
      <3>1. grp'[h] = grp[h] \/ grp'[h] = grp[h] + 1
        BY <2>2, WalkSteps
      <3>2. QED
        BY <1>1, <2>2, <3>1
    <2>3. QED
      BY <2>1, <2>2
  <1>3. Lacks(db, h, g)
    BY <1>2
  <1>4. ASSUME NEW i \in Attempts, CommitGroup(i) PROVE Lacks(db', h, g)
    <2>1. grp[i] \in Groups(i) /\ db' = db \cup RowsOf(i, grp[i])
      BY <1>4, CommitFacts
    <2>2. i # h \/ grp[i] # g
      BY <1>2, <1>4
    <2>3. QED
      BY <1>3, <2>1, <2>2, GroupsApart DEF Lacks
  <1>5. CASE Crash \/ PowerLoss \/ Sync \/ UNCHANGED <<db, synced>>
    BY <1>3, <1>5
       DEF Crash, StoreCrash, PowerLoss, StorePowerLoss, Sync, Checkpoint, Lacks
  <1>6. QED
    BY <1>4, <1>5, StoreSteps

LEMMA WalkNext ==
    TypeOK /\ ControlInv /\ TxInv /\ WalkInv /\ DataInv /\ [Next]_vars
        => WalkInv'
  <1> SUFFICES ASSUME TypeOK, ControlInv, TxInv, WalkInv, DataInv, [Next]_vars
               PROVE  WalkInv'
    OBVIOUS
  <1>1. \A h \in Attempts : \A g \in Groups(h) : g >= grp'[h] => Lacks(db', h, g)
    BY FreshNext DEF WalkInv, DataInv
  <1>2. ASSUME NEW h \in Attempts, pc'[h] \in {"walk", "tx"},
               NEW g \in Groups(h), g < grp'[h]
        PROVE  Holds(db', h, g)
    <2>1. g \in Nat \ {0} /\ grp[h] \in Nat
      BY GroupFacts DEF TypeOK
    <2>2. CASE CommitGroup(h)
      <3>1. /\ grp'[h] = grp[h] + 1
            /\ db' = db \cup RowsOf(h, grp[h])
            /\ pc[h] = "tx"
        BY <2>2, CommitFacts DEF CommitGroup, TypeOK
      <3>2. CASE g = grp[h]
        BY <3>1, <3>2 DEF Holds
      <3>3. CASE g # grp[h]
        BY <1>2, <2>1, <3>1, <3>3 DEF WalkInv, Holds
      <3>4. QED
        BY <3>2, <3>3
    <2>3. CASE ~CommitGroup(h)
      <3>1. \/ pc[h] \in {"walk", "tx"} /\ g < grp[h]
            \/ RowsOf(h, g) = {}
        BY <1>2, <2>1, <2>3, WalkSteps, EmptyGroup
      <3>2. Holds(db, h, g)
        BY <3>1 DEF WalkInv, Holds
      <3>3. ~Crash /\ ~PowerLoss
        BY <1>2 DEF Crash, PowerLoss, HandlersDie, Active
      <3>4. db \subseteq db'
        BY <3>3, StoreSteps DEF CommitGroup, Commit, Sync, Checkpoint
      <3>5. QED
        BY <3>2, <3>4 DEF Holds
    <2>4. QED
      BY <2>2, <2>3
  <1>3. ASSUME Durable', NEW h \in Attempts, pc'[h] = "ok"
        PROVE  AllRows(h) \subseteq db'
    <2>1. db \subseteq db' /\ Durable
      BY <1>3, DurableSteps
    <2>2. CASE pc[h] = "ok"
      BY <2>1, <2>2 DEF WalkInv
    <2>3. CASE pc[h] # "ok"
      <3>1. pc[h] = "walk" /\ grp[h] > NGroups(h)
        BY <1>3, <2>3, WalkSteps, CommitFacts DEF TypeOK
      <3>2. \A g \in Groups(h) : g < grp[h]
        BY <3>1, AttemptFacts DEF TypeOK
      <3>3. \A g \in Groups(h) : Holds(db, h, g)
        BY <3>1, <3>2 DEF WalkInv
      <3>4. QED
        BY <2>1, <3>3 DEF AllRows, Holds
    <2>4. QED
      BY <2>2, <2>3
  <1>4. QED
    BY <1>1, <1>2, <1>3 DEF WalkInv

-----------------------------------------------------------------------------
(* The database.                                                           *)

(* A database in memory that is gone still holds whole groups in order.    *)
LEMMA NoRows == WholeGroups({}) /\ InOrder({})
  BY DEF WholeGroups, InOrder, Lacks

LEMMA DataNext ==
    TypeOK /\ ControlInv /\ TxInv /\ WalkInv /\ DataInv /\ [Next]_vars
        => DataInv'
  <1> SUFFICES ASSUME TypeOK, ControlInv, TxInv, WalkInv, DataInv, [Next]_vars
               PROVE  DataInv'
    OBVIOUS
  <1>1. ASSUME NEW h \in Attempts, CommitGroup(h) PROVE DataInv'
    <2> DEFINE k == grp[h]
    <2>1. /\ k \in Groups(h) /\ db' = db \cup RowsOf(h, k) /\ synced' = synced
          /\ pc[h] = "tx"
      BY <1>1, CommitFacts DEF CommitGroup
    <2>2. \A r \in RowsOf(h, k) : r.by = h /\ r.grp = k
      BY <2>1, RowFacts
    <2>3. \A i \in Attempts : \A g \in Groups(i) :
              i # h \/ g # k => RowsOf(i, g) \cap RowsOf(h, k) = {}
      BY <2>1, GroupsApart
    <2>4. ASSUME NEW i \in Attempts, NEW g \in Groups(i)
          PROVE  Holds(db', i, g) \/ Lacks(db', i, g)
      <3>1. CASE i = h /\ g = k
        BY <2>1, <3>1 DEF Holds
      <3>2. CASE i # h \/ g # k
        <4>1. RowsOf(i, g) \cap RowsOf(h, k) = {}
          BY <2>3, <3>2
        <4>2. Holds(db, i, g) \/ Lacks(db, i, g)
          BY DEF DataInv, WholeGroups
        <4>3. QED
          BY <2>1, <4>1, <4>2 DEF Holds, Lacks
      <3>3. QED
        BY <3>1, <3>2
    <2>5. ASSUME NEW i \in Attempts, NEW f \in Groups(i), NEW g \in Groups(i),
                 f < g, ~Lacks(db', i, g)
          PROVE  Holds(db', i, f)
      <3>1. CASE i = h /\ g = k
        <4>1. Holds(db, h, f)
          BY <2>1, <2>5, <3>1 DEF WalkInv
        <4>2. QED
          BY <2>1, <3>1, <4>1 DEF Holds
      <3>2. CASE i # h \/ g # k
        <4>1. RowsOf(i, g) \cap RowsOf(h, k) = {}
          BY <2>3, <3>2
        <4>2. ~Lacks(db, i, g)
          BY <2>1, <2>5, <4>1 DEF Lacks
        <4>3. Holds(db, i, f)
          BY <2>5, <4>2 DEF DataInv, InOrder
        <4>4. QED
          BY <2>1, <4>3 DEF Holds
      <3>3. QED
        BY <3>1, <3>2
    <2>6. QED
      BY <2>1, <2>2, <2>4, <2>5 DEF DataInv, WholeGroups, InOrder
  <1>2. CASE Crash
    BY <1>2, NoRows DEF Crash, StoreCrash, DataInv
  <1>3. CASE PowerLoss
    BY <1>3 DEF PowerLoss, StorePowerLoss, DataInv
  <1>4. CASE Sync
    BY <1>4 DEF Sync, Checkpoint, DataInv
  <1>5. CASE UNCHANGED <<db, synced>>
    BY <1>5 DEF DataInv
  <1>6. QED
    BY <1>1, <1>2, <1>3, <1>4, <1>5, StoreSteps

-----------------------------------------------------------------------------
(* Keys.                                                                   *)

LEMMA KeyNext ==
    TypeOK /\ ControlInv /\ TxInv /\ synced \subseteq db /\ KeyInv /\ [Next]_vars
        => KeyInv'
  <1> SUFFICES ASSUME TypeOK, ControlInv, TxInv, synced \subseteq db, KeyInv,
                      [Next]_vars
               PROVE  KeyInv'
    OBVIOUS
  <1> DEFINE Clash(r, s) == RowKey(r) = RowKey(s) /\ RowKey(r) # NoKey
  <1>1. /\ \A r, s \in db : Clash(r, s) => r = s
        /\ \A h \in Attempts : \A r \in pending[h], s \in db \cup pending[h] :
               Clash(r, s) => r = s
        /\ \A h \in Attempts : pending[h] # {} => writer = h
        /\ pending \in [Attempts -> SUBSET Row]
    BY DEF KeyInv, SpanKeyUnique, TxInv, TypeOK, StoreTypeOK
  <1>2. SUFFICES
          /\ \A r, s \in db' : Clash(r, s) => r = s
          /\ \A h \in Attempts : \A r \in pending'[h], s \in db' \cup pending'[h] :
                 Clash(r, s) => r = s
    BY <1>2 DEF KeyInv, SpanKeyUnique
  <1> HIDE DEF Clash
  <1>3. CASE UNCHANGED <<db, pending>>
    BY <1>1, <1>3
  <1>4. ASSUME NEW h \in Attempts, InsertRow(h)
        PROVE  /\ \A r, s \in db' : Clash(r, s) => r = s
               /\ \A i \in Attempts :
                      \A r \in pending'[i], s \in db' \cup pending'[i] :
                          Clash(r, s) => r = s
    <2> DEFINE new == NextRow(h)
    <2>1. /\ writer \in {Nobody, h}
          /\ \A s \in db \cup pending[h] : ~Clash(s, new) /\ ~Clash(new, s)
          /\ pending' = [pending EXCEPT ![h] = pending[h] \cup {new}]
          /\ db' = db
      BY <1>4 DEF InsertRow, ExecInsert, Conflicts, Clash
    <2>2. \A i \in Attempts : i # h => pending'[i] = {}
      BY <1>1, <2>1, StoreAssumption
    <2>3. pending'[h] = pending[h] \cup {new}
      BY <1>1, <2>1
    <2>4. QED
      BY <1>1, <2>1, <2>2, <2>3
  <1>5. ASSUME NEW h \in Attempts, InsertFails(h) \/ TxFails(h)
        PROVE  /\ db' = db
               /\ \A i \in Attempts : pending'[i] \subseteq pending[i]
    BY <1>1, <1>5 DEF InsertFails, TxFails, Rollback
  <1>6. ASSUME NEW h \in Attempts, CommitGroup(h)
        PROVE  /\ \A r, s \in db' : Clash(r, s) => r = s
               /\ \A i \in Attempts :
                      \A r \in pending'[i], s \in db' \cup pending'[i] :
                          Clash(r, s) => r = s
    <2>1. /\ db' = db \cup pending[h]
          /\ pending' = [pending EXCEPT ![h] = {}]
      BY <1>6 DEF CommitGroup, Commit
    <2>2. \A r, s : Clash(r, s) => Clash(s, r)
      BY DEF Clash
    <2>3. \A r, s \in db' : Clash(r, s) => r = s
      BY <1>1, <2>1, <2>2
    <2>4. pending'[h] = {} /\ \A i \in Attempts : i # h => pending'[i] = pending[i]
      BY <1>1, <2>1
    <2>5. CASE pending[h] = {}
      BY <1>1, <2>1, <2>3, <2>4, <2>5
    <2>6. CASE pending[h] # {}
      <3>1. \A i \in Attempts : pending'[i] = {}
        BY <1>1, <2>4, <2>6
      <3>2. QED
        BY <2>3, <3>1
    <2>7. QED
      BY <2>5, <2>6
  <1>7. CASE Crash \/ PowerLoss
    <2>1. db' \subseteq db /\ \A i \in Attempts : pending'[i] = {}
      BY <1>7 DEF Crash, StoreCrash, PowerLoss, StorePowerLoss
    <2>2. QED
      BY <1>1, <2>1
  <1>8. CASE Outside \/ Sync
    BY <1>3, <1>8, OutsideShape DEF storeVars, Sync, Checkpoint
  <1>9. ASSUME NEW h \in Attempts, Begin(h) \/ SkipUnsupported(h)
        PROVE  UNCHANGED <<db, pending>>
    BY <1>9 DEF Begin, BeginTx, SkipUnsupported, storeVars
  <1>10. ASSUME NEW h \in Attempts, Inside(h)
         PROVE  /\ \A r, s \in db' : Clash(r, s) => r = s
                /\ \A i \in Attempts :
                       \A r \in pending'[i], s \in db' \cup pending'[i] :
                           Clash(r, s) => r = s
    <2>1. CASE InsertFails(h) \/ TxFails(h)
      <3>1. db' = db /\ \A i \in Attempts : pending'[i] \subseteq pending[i]
        BY <1>5, <2>1
      <3>2. QED
        BY <1>1, <3>1
    <2>2. CASE Begin(h) \/ SkipUnsupported(h)
      BY <1>3, <1>9, <2>2
    <2>3. CASE InsertRow(h)
      BY <1>4, <2>3
    <2>4. CASE CommitGroup(h)
      BY <1>6, <2>4
    <2>5. QED
      BY <1>10, <2>1, <2>2, <2>3, <2>4 DEF Inside
  <1>11. QED
    BY <1>7, <1>8, <1>10, StepKinds

-----------------------------------------------------------------------------
(* The invariant, and what follows from it.                                *)

LEMMA IndInit == Init => IndInv
  <1> SUFFICES ASSUME Init PROVE IndInv
    OBVIOUS
  <1>1. TypeOK
    BY TypeInit
  <1>2. \A q \in Requests : tries[q] = 0 /\ client[q] = "idle"
    BY DEF Init
  <1>3. \A h \in Attempts : /\ pc[h] = "idle" /\ grp[h] = 1
                            /\ pending[h] = {}
    BY DEF Init, StoreInit
  <1>4. db = {} /\ synced = {} /\ writer = Nobody
    BY DEF Init, StoreInit
  <1>5. ControlInv
    BY <1>2, <1>3 DEF ControlInv
  <1>6. TxInv /\ KeyInv
    BY <1>3, <1>4 DEF TxInv, WriterInTx, KeyInv, SpanKeyUnique
  <1>7. WalkInv
    <2>1. \A h \in Attempts : \A g \in Groups(h) : Lacks(db, h, g)
      BY <1>4 DEF Lacks
    <2>2. QED
      BY <1>3, <2>1 DEF WalkInv
  <1>8. DataInv
    BY <1>4, NoRows DEF DataInv
  <1>9. QED
    BY <1>1, <1>5, <1>6, <1>7, <1>8 DEF IndInv

(* The inductive invariant holds in every reachable state.                 *)
THEOREM Invariance == Spec => []IndInv
  <1>1. IndInv /\ [Next]_vars => IndInv'
    <2>1. IndInv => synced \subseteq db
      BY DEF IndInv, DataInv
    <2>2. QED
      BY <2>1, TypeNext, ControlNext, TxNext, WalkNext, DataNext, KeyNext DEF IndInv
  <1>2. QED
    BY IndInit, <1>1, PTL DEF Spec

(* A request whose sender was told 200 is stored, row for row, as long as  *)
(* neither the machine lost power nor a database in memory its process.    *)
THEOREM AckedStored == Spec => []AckedIsStored
  <1>1. IndInv => AckedIsStored
    <2> SUFFICES ASSUME IndInv, Durable, NEW q \in Requests, client[q] = "acked"
                 PROVE  AllRows(Current(q)) \subseteq db
      BY DEF AckedIsStored
    <2>1. tries[q] \in 1 .. MaxAttempts
      BY MaxAttemptsAssumption DEF IndInv, TypeOK, ControlInv
    <2>2. Current(q) \in Attempts
      BY <2>1 DEF Current, Attempts
    <2>3. pc[Current(q)] = "ok"
      BY DEF IndInv, ControlInv
    <2>4. QED
      BY <2>2, <2>3 DEF IndInv, WalkInv
  <1>2. QED
    BY Invariance, <1>1, PTL

(* No crash, error or cancellation leaves part of a group in the database. *)
THEOREM Atomicity == Spec => []GroupAtomic
  <1>1. IndInv => GroupAtomic
    BY DEF IndInv, DataInv, GroupAtomic
  <1>2. QED
    BY Invariance, <1>1, PTL

(* What is stored of a request is a prefix of its groups, even after a     *)
(* power failure.                                                          *)
THEOREM Prefixes == Spec => []GroupsInOrder
  <1>1. IndInv => GroupsInOrder
    BY DEF IndInv, DataInv, GroupsInOrder
  <1>2. QED
    BY Invariance, <1>1, PTL

(* Concurrent attempts never store two spans with one key.                 *)
THEOREM UniqueKeys == Spec => []SpanKeyUnique
  <1>1. IndInv => SpanKeyUnique
    BY DEF IndInv, KeyInv
  <1>2. QED
    BY Invariance, <1>1, PTL

(* A 4xx means that nothing was stored, a 500 that nothing was stored from *)
(* the failing group on.                                                   *)
THEOREM Refusals == Spec => []RefusedLeavesNothing
  <1>1. IndInv => RefusedLeavesNothing
    <2> SUFFICES ASSUME IndInv PROVE RefusedLeavesNothing
      OBVIOUS
    <2>1. ASSUME NEW h \in Attempts, pc[h] = "rejected"
          PROVE  AllRows(h) \cap db = {}
      <3>1. grp[h] = 1
        BY <2>1 DEF IndInv, ControlInv
      <3>2. \A g \in Groups(h) : g >= grp[h]
        BY <3>1, AttemptFacts
      <3>3. \A g \in Groups(h) : Lacks(db, h, g)
        BY <3>2 DEF IndInv, WalkInv
      <3>4. QED
        BY <3>3 DEF AllRows, Lacks
    <2>2. ASSUME NEW h \in Attempts, NEW g \in Groups(h), g >= grp[h]
          PROVE  RowsOf(h, g) \cap db = {}
      BY <2>2 DEF IndInv, WalkInv, Lacks
    <2>3. QED
      BY <2>1, <2>2 DEF RefusedLeavesNothing
  <1>2. QED
    BY Invariance, <1>1, PTL

(* Neither the write lock nor the connection outlives its transaction.     *)
THEOREM NoLeak == Spec => []WriterInTx
  <1>1. IndInv => WriterInTx
    BY DEF IndInv, TxInv
  <1>2. QED
    BY Invariance, <1>1, PTL

(* A trace request that is acknowledged has its spans from that attempt    *)
(* alone: one that an earlier attempt stored in part never is.             *)
THEOREM SpansOnce == Spec => []AckedSpansStoredOnce
  <1>1. IndInv => AckedSpansStoredOnce
    <2> SUFFICES ASSUME IndInv, Durable, NEW q \in Requests, NEW r \in db,
                        client[q] = "acked", r.by[1] = q, RowKey(r) # NoKey
                 PROVE  r.by = Current(q)
      BY DEF AckedSpansStoredOnce
    <2> DEFINE h == Current(q)
               twin == [by |-> h, grp |-> r.grp, idx |-> r.idx]
    <2>1. h \in Attempts /\ h[1] = q /\ pc[h] = "ok"
      <3>1. tries[q] \in 1 .. MaxAttempts
        BY MaxAttemptsAssumption DEF IndInv, TypeOK, ControlInv
      <3>2. QED
        BY <3>1 DEF Current, Attempts, IndInv, ControlInv
    <2>2. AllRows(h) \subseteq db
      BY <2>1 DEF IndInv, WalkInv
    <2>3. /\ r.by \in Attempts
          /\ r.grp \in Groups(r.by) /\ r \in RowsOf(r.by, r.grp)
      BY DEF IndInv, DataInv, TypeOK, StoreTypeOK, Row
    <2>4. r.grp \in Groups(h) /\ Group(h, r.grp) = Group(r.by, r.grp)
      BY <2>1, <2>3 DEF Groups, Group
    <2>5. twin \in RowsOf(h, r.grp)
      BY <2>3, <2>4, RowFacts DEF RowsOf
    <2>6. twin \in db
      BY <2>2, <2>4, <2>5 DEF AllRows
    <2>7. RowKey(twin) = RowKey(r)
      BY <2>1 DEF RowKey, RecordAt
    <2>8. twin = r
      BY <2>6, <2>7 DEF IndInv, KeyInv, SpanKeyUnique
    <2>9. QED
      BY <2>8
  <1>2. QED
    BY Invariance, <1>1, PTL

-----------------------------------------------------------------------------
(* Refinement.                                                             *)

(* A step that answers nobody and kills nobody is invisible in Outcome.    *)
LEMMA OutcomeShape ==
    ASSUME TypeOK, ControlInv, NEW h \in Attempts, Handler(h)
    PROVE  /\ Outcome[h] = "none"
           /\ pc'[h] \in Answered =>
                  Outcome' = [Outcome EXCEPT ![h] = pc'[h]]
           /\ pc'[h] \notin Answered => Outcome' = Outcome
  <1> DEFINE Seen(c) == IF c \in Answered \cup {"dead"} THEN c ELSE "none"
  <1>1. /\ pc[h] \in Active /\ pc' = [pc EXCEPT ![h] = pc'[h]]
        /\ pc'[h] \in {"walk", "tx"} \cup Answered
    BY HandlerShape
  <1>2. DOMAIN pc = Attempts
    BY DEF TypeOK
  <1>3. \A i \in Attempts \ {h} : pc'[i] = pc[i]
    BY <1>1, <1>2
  <1>4. Seen(pc[h]) = "none"
    BY <1>1 DEF Active, Answered
  <1>5. /\ pc'[h] \in Answered => Seen(pc'[h]) = pc'[h]
        /\ pc'[h] \notin Answered => Seen(pc'[h]) = "none"
    BY <1>1 DEF Answered
  <1>6. /\ Outcome = [i \in Attempts |-> Seen(pc[i])]
        /\ Outcome' = [i \in Attempts |-> Seen(pc'[i])]
    BY DEF Outcome
  <1> HIDE DEF Seen
  <1>7. \A i \in Attempts \ {h} : Seen(pc'[i]) = Seen(pc[i])
    BY <1>3
  <1>8. Outcome[h] = "none"
    BY <1>4, <1>6
  <1>9. ASSUME pc'[h] \in Answered
        PROVE  Outcome' = [Outcome EXCEPT ![h] = pc'[h]]
    <2>1. Seen(pc'[h]) = pc'[h]
      BY <1>5, <1>9
    <2>2. QED
      BY <2>1, <1>6, <1>7
  <1>10. ASSUME pc'[h] \notin Answered
         PROVE  Outcome' = Outcome
    <2>1. Seen(pc'[h]) = Seen(pc[h])
      BY <1>4, <1>5, <1>10
    <2>2. QED
      BY <2>1, <1>6, <1>7
  <1>11. QED
    BY <1>8, <1>9, <1>10

LEMMA PromiseReply ==
    ASSUME IndInv, NEW h \in Attempts, Handler(h), pc'[h] \in Answered,
           ~CommitGroup(h), UNCHANGED db, [Next]_vars
    PROVE  Promise!Reply(h, pc'[h])
  <1>1. /\ Outcome[h] = "none"
        /\ Outcome' = [Outcome EXCEPT ![h] = pc'[h]]
    BY OutcomeShape DEF IndInv
  <1>2. ASSUME pc'[h] = "ok" PROVE AllRows(h) \subseteq db
    <2>1. pc[h] \in Active
      BY HandlerShape DEF IndInv
    <2>2. pc[h] = "walk" /\ grp[h] > NGroups(h)
      BY <1>2, <2>1, WalkSteps DEF IndInv, Active
    <2>3. \A g \in Groups(h) : g < grp[h]
      BY <2>2, AttemptFacts DEF IndInv, TypeOK
    <2>4. \A g \in Groups(h) : Holds(db, h, g)
      BY <2>2, <2>3 DEF IndInv, WalkInv
    <2>5. QED
      BY <2>4 DEF AllRows, Holds
  <1>3. ASSUME pc'[h] = "rejected" PROVE AllRows(h) \cap db = {}
    <2>1. grp[h] = 1
      BY <1>3, HandlerShape DEF IndInv, ControlInv
    <2>2. \A g \in Groups(h) : g >= grp[h]
      BY <2>1, AttemptFacts
    <2>3. \A g \in Groups(h) : Lacks(db, h, g)
      BY <2>2 DEF IndInv, WalkInv
    <2>4. QED
      BY <2>3 DEF AllRows, Lacks
  <1>4. QED
    BY <1>1, <1>2, <1>3
       DEF Promise!Reply, Promise!AllRows, Promise!RowsOf, Promise!Groups,
           Promise!Group, AllRows, RowsOf, Groups, Group

LEMMA PromiseStore ==
    ASSUME IndInv, NEW h \in Attempts, CommitGroup(h), [Next]_vars
    PROVE  Promise!StoreGroup(h, grp[h]) /\ grp[h] \in Promise!Groups(h)
  <1>1. /\ grp[h] \in Groups(h) /\ pending[h] = RowsOf(h, grp[h])
        /\ db' = db \cup RowsOf(h, grp[h]) /\ pc[h] = "tx" /\ pc'[h] = "walk"
    BY CommitFacts DEF IndInv, TypeOK, CommitGroup
  <1>2. Outcome[h] = "none" /\ Outcome' = Outcome
    BY <1>1, OutcomeShape DEF IndInv, Handler, Answered
  <1>3. \A f \in Groups(h) : f < grp[h] => Holds(db, h, f)
    BY <1>1 DEF IndInv, WalkInv
  <1>4. \A f \in Groups(h) : f >= grp[h] => Lacks(db, h, f)
    BY DEF IndInv, WalkInv
  <1>5. \A r \in RowsOf(h, grp[h]), s \in db :
            RowKey(r) = RowKey(s) => RowKey(r) = NoKey
    <2>1. Lacks(db, h, grp[h])
      BY <1>1, <1>4, GroupFacts
    <2>2. \A r \in pending[h], s \in db :
              RowKey(r) = RowKey(s) /\ RowKey(r) # NoKey => r = s
      BY DEF IndInv, KeyInv
    <2>3. QED
      BY <1>1, <2>1, <2>2 DEF Lacks
  <1>6. QED
    BY <1>1, <1>2, <1>3, <1>4, <1>5
       DEF Promise!StoreGroup, Promise!Holds, Promise!Lacks, Promise!RowsOf,
           Promise!Groups, Promise!Group, Promise!RowKey, Promise!RecordAt,
           Holds, Lacks, RowsOf, Groups, Group, RowKey, RecordAt

LEMMA PromiseDie ==
    ASSUME IndInv, IndInv', Crash \/ PowerLoss
    PROVE  Promise!Die
  <1> DEFINE gone == { h \in Attempts : pc[h] \in Active }
  <1>1. db' \subseteq db
    BY DEF Crash, StoreCrash, PowerLoss, StorePowerLoss, IndInv, DataInv
  <1>2. WholeGroups(db') /\ InOrder(db')
    BY DEF IndInv, DataInv
  <1>3. Outcome' = [h \in Attempts |-> IF h \in gone THEN "dead" ELSE Outcome[h]]
    BY DEF Crash, PowerLoss, HandlersDie, Outcome, Active, Answered
  <1>4. gone \in SUBSET { h \in Attempts : Outcome[h] = "none" }
    BY DEF Outcome, Active, Answered
  <1>5. QED
    BY <1>1, <1>2, <1>3, <1>4
       DEF Promise!Die, Promise!WholeGroups, Promise!InOrder, Promise!Holds,
           Promise!Lacks, Promise!RowsOf, Promise!Groups, Promise!Group,
           Promise!Attempts, WholeGroups, InOrder, Holds, Lacks, RowsOf,
           Groups, Group, Attempts

(* Ingest implements AtomicIngest: whatever the interleaving of attempts,  *)
(* transactions, failures and crashes, a client and a reader see groups    *)
(* appear whole, in order, before the 200, and never after a 4xx.          *)
THEOREM Refinement == Spec => KeepsPromise
  <1>1. Init => Promise!Init
    BY DEF Init, StoreInit, Promise!Init, Outcome, Promise!Attempts, Attempts,
           Answered
  <1>2. IndInv /\ IndInv' /\ [Next]_vars => [Promise!Next]_(Promise!vars)
    <2> SUFFICES ASSUME IndInv, IndInv', [Next]_vars
                 PROVE  Promise!Next \/ UNCHANGED <<db, Outcome>>
      BY DEF Promise!vars
    <2>1. ASSUME NEW h \in Attempts, Handler(h)
          PROVE  Promise!Next \/ UNCHANGED <<db, Outcome>>
      <3>1. CASE CommitGroup(h)
        BY <3>1, PromiseStore DEF Promise!Next, Promise!Attempts, Attempts
      <3>2. CASE ~CommitGroup(h)
        <4>1. db' = db
          BY <2>1, <3>2 DEF Handler, Decode, Reject, SkipEmptyGroup, Begin,
             BeginTx, BeginFails, InsertRow, ExecInsert, SkipUnsupported,
             InsertFails, TxFails, Rollback, Respond, storeVars
        <4>2. CASE pc'[h] \in Answered
          BY <2>1, <3>2, <4>1, <4>2, PromiseReply
             DEF Promise!Next, Promise!Attempts, Attempts, Answered
        <4>3. CASE pc'[h] \notin Answered
          BY <2>1, <4>1, <4>3, OutcomeShape DEF IndInv
        <4>4. QED
          BY <4>2, <4>3
      <3>3. QED
        BY <3>1, <3>2
    <2>2. CASE Crash \/ PowerLoss
      BY <2>2, PromiseDie DEF Promise!Next
    <2>3. ASSUME NEW q \in Requests, Send(q)
          PROVE  UNCHANGED <<db, Outcome>>
      <3>1. <<q, tries[q] + 1>> \in Attempts /\ tries[q] \in Nat
        BY <2>3, SendFacts DEF Send, IndInv, TypeOK
      <3>2. pc[<<q, tries[q] + 1>>] = "idle"
        BY <3>1 DEF IndInv, ControlInv
      <3>3. pc' = [pc EXCEPT ![<<q, tries[q] + 1>>] = "sent"] /\ db' = db
        BY <2>3 DEF Send, storeVars
      <3>4. Outcome' = Outcome
        BY <3>1, <3>2, <3>3 DEF Outcome, Answered, IndInv, TypeOK
      <3>5. QED
        BY <3>3, <3>4
    <2>4. ASSUME NEW q \in Requests, Deliver(q) \/ GiveUp(q)
          PROVE  UNCHANGED <<db, Outcome>>
      BY <2>4 DEF Deliver, GiveUp, storeVars, handlerVars, Outcome
    <2>5. CASE Restart \/ Sync \/ Quiescent \/ UNCHANGED vars
      BY <2>5 DEF Restart, Reopen, Sync, Checkpoint, Quiescent, vars,
                  storeVars, handlerVars, Outcome
    <2>6. QED
      BY <2>1, <2>2, <2>3, <2>4, <2>5 DEF Next
  <1>3. QED
    BY Invariance, <1>1, <1>2, PTL DEF Spec, KeepsPromise, Promise!Spec
=============================================================================
