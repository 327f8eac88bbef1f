----------------------------- MODULE DaemonProofs -----------------------------
(***************************************************************************)
(* Proofs about Daemon, for any requests, records, stamps, window, cap and *)
(* batch.  Of the inductive invariant of Ingest those parts are kept that  *)
(* rows may vanish under (MineInv); what a walk has stored is either there *)
(* or expired (KeptInv), because a statement of the sweeper never runs     *)
(* without its cause (SweepInv).  That every step of the ingest path is,   *)
(* to the sweeper, the arrival of a whole group of new rows or nothing, is *)
(* the refinement.  No proof needs fairness: all are of DaemonSafe, so     *)
(* that they hold of any process that only adds to Daemon (System).        *)
(***************************************************************************)
EXTENDS Daemon, ProgressProofs, FiniteSetTheorems

Fresh == \A h \in Attempts : \A g \in Groups(h) : g >= grp[h] => Lacks(db, h, g)

OwnRows == \A r \in db : r.grp \in Groups(r.by) /\ r \in RowsOf(r.by, r.grp)

MineInv ==
    /\ TypeOK /\ ControlInv /\ TxInv /\ KeyInv /\ Fresh /\ OwnRows
    /\ synced = {}
    /\ IsFiniteSet(db)

SweepInv ==
    /\ pages \in Nat /\ now \in Nat /\ cutoff \in Int
    /\ sweep = "age" => Window > 0 /\ cutoff <= now - Window
    /\ sweep \in {"size", "evict"} => Cap > 0
    /\ sweep = "evict" => pages > Cap

Kept(r) == r \in db \/ Expired(r)

KeptInv ==
    Calm => \A h \in Attempts, g \in Nat :
        /\ g \in Groups(h)
        /\ \/ pc[h] \in {"walk", "tx"} /\ g < grp[h]
           \/ pc[h] = "ok"
        => \A r \in RowsOf(h, g) : Kept(r)

(* A database is as large as its rows, at least.                           *)
Fits == EmptyPages + Cardinality(db) <= pages

DInv == MineInv /\ SweepInv /\ KeptInv /\ Fits

-----------------------------------------------------------------------------
(* Three kinds of step: of a client or a handler, of the clock, of the     *)
(* sweeper.                                                                *)
IngestStep ==
    /\ \/ \E q \in Requests : Send(q) \/ Deliver(q) \/ GiveUp(q)
       \/ \E h \in Attempts : Handler(h)
    /\ Grow

LEMMA DaemonKinds ==
    ASSUME [DaemonNext]_daemonVars
    PROVE  IngestStep \/ Tick \/ SweeperStep \/ UNCHANGED daemonVars
  BY DEF DaemonNext, ClientStep, HandlerStep, IngestStep

LEMMA IngestShape ==
    ASSUME TypeOK, ControlInv, TxInv, IngestStep
    PROVE  /\ Next /\ [Next]_vars
           /\ synced' = synced
           /\ \/ db' = db
              \/ \E h \in Attempts : CommitGroup(h)
           /\ UNCHANGED <<up, crashes, powerLosses>>
  <1>1. Next
    BY DEF IngestStep, Next
  <1>2. UNCHANGED serverVars
    BY HandlerShape DEF IngestStep, Send, Deliver, GiveUp
  <1>3. ~ Crash /\ ~ PowerLoss
    BY <1>2 DEF Crash, PowerLoss, HandlersDie, serverVars, TypeOK
  <1>4. UNCHANGED <<db, synced>> \/ \E h \in Attempts : CommitGroup(h)
    <2>1. CASE \E q \in Requests : Send(q) \/ Deliver(q) \/ GiveUp(q)
      BY <2>1 DEF Send, Deliver, GiveUp, storeVars
    <2>2. ASSUME NEW h \in Attempts, Handler(h)
          PROVE  UNCHANGED <<db, synced>> \/ CommitGroup(h)
      BY <2>2 DEF Handler, Decode, Reject, SkipEmptyGroup, Begin, BeginTx, BeginFails,
                  InsertRow, ExecInsert, SkipUnsupported, InsertFails, TxFails,
                  Rollback, Respond, storeVars
    <2> QED BY <2>1, <2>2 DEF IngestStep
  <1>5. synced' = synced
    BY <1>4, CommitFacts
  <1> QED BY <1>1, <1>2, <1>4, <1>5 DEF serverVars

(* What the sweeper does to the database, and to nothing else of Ingest.   *)
LEMMA SweeperShape ==
    ASSUME SweeperStep
    PROVE  /\ UNCHANGED <<synced, pending, writer, pc, grp, item, client, tries,
                          abandoned, up, crashes, powerLosses>>
           /\ db' \subseteq db
           /\ now' = now /\ pages' = pages
  BY DEF SweeperStep, Beside, handlerVars, clientVars, serverVars,
         Retention!StartSweep, Retention!DeleteBefore, Retention!DeleteBeforeFails,
         Retention!CheckSize, Retention!Evict, Retention!EnforceFails

(* A group that is committed is finite, and new.                           *)
LEMMA FiniteGroup ==
    ASSUME NEW h \in Attempts, NEW g \in Groups(h)
    PROVE  IsFiniteSet(RowsOf(h, g))
  <1> DEFINE S == { j \in DOMAIN Group(h, g) : Group(h, g)[j] \notin Unsupported }
             Name(i) == [by |-> h, grp |-> g, idx |-> i]
  <1>1. IsFiniteSet(1 .. Len(Group(h, g)))
    BY GroupFacts, FS_Interval
  <1>2. IsFiniteSet(S)
    BY <1>1, GroupFacts, FS_Subset
  <1> DEFINE f == [i \in S |-> Name(i)]
  <1>3. f \in Surjection(S, RowsOf(h, g))
    BY DEF Surjection, RowsOf
  <1> QED BY <1>2, <1>3, FS_Surjection

LEMMA CommitIsNew ==
    ASSUME MineInv, NEW h \in Attempts, CommitGroup(h)
    PROVE  /\ grp[h] \in Groups(h)
           /\ db' = db \cup RowsOf(h, grp[h])
           /\ RowsOf(h, grp[h]) \cap db = {}
           /\ IsFiniteSet(db')
  <1>1. grp[h] \in Groups(h) /\ db' = db \cup RowsOf(h, grp[h])
    BY CommitFacts DEF MineInv
  <1>2. RowsOf(h, grp[h]) \cap db = {}
    <2>1. grp[h] >= grp[h]
      BY DEF MineInv, TypeOK
    <2> QED BY <1>1, <2>1 DEF MineInv, Fresh, Lacks
  <1>3. IsFiniteSet(db')
    BY <1>1, FiniteGroup, FS_Union DEF MineInv
  <1> QED BY <1>1, <1>2, <1>3

-----------------------------------------------------------------------------
LEMMA MineIngest ==
    ASSUME MineInv, IngestStep
    PROVE  MineInv'
  <1>1. /\ [Next]_vars /\ synced' = synced
        /\ db' = db \/ \E h \in Attempts : CommitGroup(h)
    BY IngestShape DEF MineInv
  <1>2. TypeOK' /\ ControlInv' /\ TxInv' /\ KeyInv' /\ Fresh'
    <2>1. synced \subseteq db
      BY DEF MineInv
    <2>2. TypeOK' /\ ControlInv' /\ TxInv' /\ KeyInv'
      BY <1>1, <2>1, TypeNext, ControlNext, TxNext, KeyNext DEF MineInv
    <2>3. Fresh'
      BY <1>1, <2>1, FreshNext DEF MineInv, Fresh
    <2> QED BY <2>2, <2>3
  <1>3. OwnRows' /\ IsFiniteSet(db')
    <2>1. CASE db' = db
      BY <2>1 DEF MineInv, OwnRows
    <2>2. ASSUME NEW h \in Attempts, CommitGroup(h)
          PROVE  OwnRows' /\ IsFiniteSet(db')
      <3>1. /\ grp[h] \in Groups(h)
            /\ db' = db \cup RowsOf(h, grp[h]) /\ IsFiniteSet(db')
        BY <2>2, CommitIsNew
      <3>2. \A r \in RowsOf(h, grp[h]) : r.by = h /\ r.grp = grp[h]
        BY <3>1, RowFacts
      <3> QED BY <3>1, <3>2 DEF MineInv, OwnRows
    <2> QED BY <1>1, <2>1, <2>2
  <1> QED BY <1>1, <1>2, <1>3 DEF MineInv

LEMMA MineSweeper ==
    ASSUME MineInv, SweeperStep
    PROVE  MineInv'
  <1>1. /\ UNCHANGED <<synced, pending, writer, pc, grp, item, client, tries,
                       abandoned, up, crashes, powerLosses>>
        /\ db' \subseteq db
    BY SweeperShape
  <1>2. TypeOK' /\ ControlInv'
    BY <1>1 DEF MineInv, TypeOK, StoreTypeOK, ControlInv, Current
  <1>3. TxInv'
    BY <1>1 DEF MineInv, TxInv, WriterInTx
  <1>4. KeyInv'
    BY <1>1 DEF MineInv, KeyInv, SpanKeyUnique
  <1>5. Fresh' /\ OwnRows'
    BY <1>1 DEF MineInv, Fresh, OwnRows, Lacks
  <1>6. IsFiniteSet(db')
    BY <1>1, FS_Subset DEF MineInv
  <1> QED BY <1>1, <1>2, <1>3, <1>4, <1>5, <1>6 DEF MineInv

LEMMA MineSame ==
    ASSUME MineInv, UNCHANGED vars
    PROVE  MineInv'
  <1>1. UNCHANGED <<db, synced, pending, writer, pc, grp, item, client, tries,
                    abandoned, up, crashes, powerLosses>>
    BY DEF vars, storeVars, handlerVars, clientVars, serverVars
  <1> QED BY <1>1 DEF MineInv, TypeOK, StoreTypeOK, ControlInv, Current, TxInv, WriterInTx,
                      KeyInv, SpanKeyUnique, Fresh, OwnRows

LEMMA MineNext == MineInv /\ [DaemonNext]_daemonVars => MineInv'
  BY DaemonKinds, MineIngest, MineSweeper, MineSame DEF Tick, daemonVars

-----------------------------------------------------------------------------
(* The size never falls.                                                   *)
LEMMA GrowOnly ==
    ASSUME MineInv, SweepInv, IngestStep
    PROVE  /\ pages' \in Nat /\ pages' >= pages
           /\ UNCHANGED <<now, sweeperVars>>
           /\ Fits'
           /\ db' = db /\ Fits => pages' = pages
  <1>1. Cardinality(db') \in Nat
    BY MineIngest, FS_CardinalityType DEF MineInv
  <1>2. pages' = Retention!PagesOf(db', pages) /\ UNCHANGED <<now, sweeperVars>>
    BY DEF IngestStep, Grow
  <1>3. pages' = IF EmptyPages + Cardinality(db') > pages
                   THEN EmptyPages + Cardinality(db') ELSE pages
    <2>1. \A S : Retention!Cardinality(S) = Cardinality(S)
      BY DEF Retention!Cardinality, Cardinality
    <2> QED BY <1>2, <2>1 DEF Retention!PagesOf
  <1> QED BY <1>1, <1>2, <1>3, DaemonAssumption DEF SweepInv, Fits

LEMMA SweepNext == MineInv /\ SweepInv /\ [DaemonNext]_daemonVars => SweepInv'
  <1> SUFFICES ASSUME MineInv, SweepInv, [DaemonNext]_daemonVars
               PROVE  SweepInv'
    OBVIOUS
  <1> USE DaemonAssumption
  <1>1. CASE IngestStep
    BY <1>1, GrowOnly DEF SweepInv, sweeperVars
  <1>2. CASE Tick
    BY <1>2 DEF Tick, Retention!Tick, Retention!sweepVars, SweepInv
  <1>3. CASE SweeperStep
    <2>1. CASE Retention!StartSweep
      BY <2>1 DEF Retention!StartSweep, SweepInv
    <2>2. CASE Retention!DeleteBefore
      BY <2>2 DEF Retention!DeleteBefore, Retention!AfterAge, SweepInv
    <2>3. CASE Retention!DeleteBeforeFails
      BY <2>3 DEF Retention!DeleteBeforeFails, Retention!AfterAge, SweepInv
    <2>4. CASE Retention!CheckSize
      BY <2>4 DEF Retention!CheckSize, SweepInv
    <2>5. CASE Retention!Evict
      <3>1. /\ sweep = "evict" /\ UNCHANGED <<pages, now, cutoff>>
            /\ sweep' \in {"idle", "size", "evict"}
        BY <2>5 DEF Retention!Evict
      <3> QED BY <3>1 DEF SweepInv
    <2>6. CASE Retention!EnforceFails
      BY <2>6 DEF Retention!EnforceFails, SweepInv
    <2> QED BY <1>3, <2>1, <2>2, <2>3, <2>4, <2>5, <2>6 DEF SweeperStep
  <1>4. CASE UNCHANGED daemonVars
    BY <1>4 DEF daemonVars, sweeperVars, SweepInv
  <1> QED BY <1>1, <1>2, <1>3, <1>4, DaemonKinds

-----------------------------------------------------------------------------
(* A row of an attempt has the stamp of its record.                        *)
LEMMA StampFacts ==
    ASSUME NEW h \in Attempts, NEW g \in Groups(h), NEW r \in RowsOf(h, g)
    PROVE  /\ r \in Storable /\ RecordAt(r) \in Records
           /\ Stamp[r] = StampOf[RecordAt(r)] /\ Stamp[r] \in Nat
  <1>1. r \in Storable
    BY DEF Storable, AllRows
  <1>2. /\ r.by = h /\ r.grp = g /\ r.idx \in DOMAIN Group(h, g)
    BY RowFacts
  <1>3. RecordAt(r) \in Records
    <2>1. RecordAt(r) = Group(h, g)[r.idx]
      BY <1>2 DEF RecordAt, Group
    <2> QED BY <1>2, <2>1, GroupFacts
  <1>4. StampOf[RecordAt(r)] \in 0 .. MaxNow /\ MaxNow \in Nat
    BY <1>3, DaemonAssumption
  <1> QED BY <1>1, <1>3, <1>4 DEF Stamp

(* A step takes a row away only when it has expired, or over the cap.       *)
LEMMA LossHasCause ==
    ASSUME MineInv, SweepInv, [DaemonNext]_daemonVars, NEW r \in db, r \notin db'
    PROVE  Expired(r) \/ (Cap > 0 /\ pages > Cap)
  <1> USE DaemonAssumption
  <1>1. CASE IngestStep
    <2>1. db \subseteq db'
      BY <1>1, IngestShape, CommitFacts DEF MineInv
    <2> QED BY <2>1
  <1>2. CASE Tick \/ UNCHANGED daemonVars
    BY <1>2 DEF Tick, daemonVars, vars, storeVars
  <1>3. CASE SweeperStep
    <2>1. Retention!DeleteBefore \/ Retention!Evict
      BY <1>3 DEF SweeperStep, Retention!StartSweep, Retention!DeleteBeforeFails,
                  Retention!CheckSize, Retention!EnforceFails
    <2>2. CASE Retention!Evict
      BY <2>2 DEF Retention!Evict, SweepInv
    <2>3. CASE Retention!DeleteBefore
      <3>1. Window > 0 /\ cutoff <= now - Window /\ Stamp[r] < cutoff
        BY <2>3 DEF Retention!DeleteBefore, SweepInv
      <3>2. Stamp[r] \in Nat
        <4>1. r.by \in Attempts /\ r.grp \in Groups(r.by) /\ r \in RowsOf(r.by, r.grp)
          BY DEF MineInv, OwnRows, TypeOK, StoreTypeOK, Row
        <4> QED BY <4>1, StampFacts
      <3> QED BY <3>1, <3>2 DEF Expired, SweepInv
    <2> QED BY <2>1, <2>2, <2>3
  <1> QED BY <1>1, <1>2, <1>3, DaemonKinds

(* What is kept stays kept, in a database that is not over its cap.        *)
LEMMA KeptStays ==
    ASSUME MineInv, SweepInv, [DaemonNext]_daemonVars, Calm',
           NEW h \in Attempts, NEW g \in Groups(h), NEW r \in RowsOf(h, g), Kept(r)
    PROVE  Kept(r)'
  <1> USE DaemonAssumption
  <1>1. CASE IngestStep
    <2>1. db \subseteq db' /\ now' = now
      BY <1>1, IngestShape, CommitFacts, GrowOnly DEF MineInv
    <2> QED BY <2>1 DEF Kept, Expired
  <1>2. CASE Tick
    <2>1. db' = db /\ now' = now + 1
      BY <1>2 DEF Tick, Retention!Tick, vars, storeVars
    <2> QED BY <2>1, StampFacts DEF Kept, Expired, SweepInv
  <1>3. CASE SweeperStep
    <2>1. now' = now /\ pages' = pages
      BY <1>3, SweeperShape
    <2>2. CASE Expired(r)
      BY <2>1, <2>2 DEF Kept, Expired
    <2>3. CASE r \in db /\ r \in db'
      BY <2>3 DEF Kept
    <2>4. CASE r \in db /\ r \notin db'
      <3>1. ~ (Cap > 0 /\ pages > Cap)
        BY <2>1 DEF Calm, SweepInv
      <3>2. Expired(r)
        BY <2>4, <3>1, LossHasCause
      <3> QED BY <2>1, <3>2 DEF Kept, Expired
    <2> QED BY <2>2, <2>3, <2>4 DEF Kept
  <1>4. CASE UNCHANGED daemonVars
    BY <1>4 DEF daemonVars, vars, storeVars, Kept, Expired
  <1> QED BY <1>1, <1>2, <1>3, <1>4, DaemonKinds

LEMMA KeptNext == MineInv /\ SweepInv /\ KeptInv /\ [DaemonNext]_daemonVars => KeptInv'
  <1> SUFFICES ASSUME MineInv, SweepInv, KeptInv, [DaemonNext]_daemonVars, Calm',
                      NEW h \in Attempts, NEW g \in Groups(h),
                      \/ pc'[h] \in {"walk", "tx"} /\ g < grp'[h]
                      \/ pc'[h] = "ok",
                      NEW r \in RowsOf(h, g)
               PROVE  Kept(r)'
    BY DEF KeptInv
  <1>1. Calm
    <2>1. pages' >= pages
      BY DaemonKinds, GrowOnly, SweeperShape
         DEF Tick, Retention!Tick, daemonVars, SweepInv
    <2> QED BY <2>1, DaemonAssumption, SweepNext DEF Calm, SweepInv
  <1>2. g \in Nat \ {0} /\ grp[h] \in Nat
    BY GroupFacts DEF MineInv, TypeOK
  <1>3. ASSUME \/ pc[h] \in {"walk", "tx"} /\ g < grp[h]
               \/ pc[h] = "ok"
        PROVE  Kept(r)'
    <2>1. Kept(r)
      BY <1>1, <1>2, <1>3 DEF KeptInv
    <2> QED BY <2>1, KeptStays
  <1>4. CASE IngestStep
    <2>1. [Next]_vars /\ TypeOK /\ ControlInv /\ TxInv
      BY <1>4, IngestShape DEF MineInv
    <2>2. CASE CommitGroup(h)
      <3>1. /\ grp'[h] = grp[h] + 1 /\ pc[h] = "tx" /\ pc'[h] = "walk"
            /\ db' = db \cup RowsOf(h, grp[h])
        BY <2>1, <2>2, CommitFacts DEF CommitGroup, TypeOK
      <3>2. CASE g = grp[h]
        BY <3>1, <3>2 DEF Kept
      <3>3. CASE g # grp[h]
        <4>1. g < grp[h]
          BY <1>2, <3>1, <3>3
        <4> QED BY <1>3, <3>1, <4>1
      <3> QED BY <3>2, <3>3
    <2>3. CASE ~ CommitGroup(h)
      <3>1. \/ pc[h] \in {"walk", "tx"} /\ g < grp[h]
            \/ pc[h] = "ok"
            \/ RowsOf(h, g) = {}
        <4>1. CASE pc'[h] \in {"walk", "tx"} /\ g < grp'[h]
          BY <1>2, <2>1, <2>3, <4>1, WalkSteps, EmptyGroup
        <4>2. CASE pc'[h] = "ok"
          <5>1. pc[h] = "ok" \/ (pc[h] = "walk" /\ grp[h] > NGroups(h))
            BY <2>1, <2>3, <4>2, WalkSteps
          <5>2. g <= NGroups(h) /\ NGroups(h) \in Nat
            BY AttemptFacts
          <5> QED BY <1>2, <5>1, <5>2
        <4> QED BY <4>1, <4>2
      <3> QED BY <1>3, <3>1
    <2> QED BY <2>2, <2>3
  <1>5. CASE SweeperStep
    <2>1. UNCHANGED <<pc, grp>>
      BY <1>5, SweeperShape
    <2> QED BY <2>1, <1>3
  <1>6. CASE Tick \/ UNCHANGED daemonVars
    <2>1. UNCHANGED <<pc, grp>>
      BY <1>6 DEF Tick, daemonVars, vars, handlerVars
    <2> QED BY <2>1, <1>3
  <1> QED BY <1>4, <1>5, <1>6, DaemonKinds

LEMMA FitsNext == MineInv /\ SweepInv /\ Fits /\ [DaemonNext]_daemonVars => Fits'
  <1> SUFFICES ASSUME MineInv, SweepInv, Fits, [DaemonNext]_daemonVars
               PROVE  Fits'
    OBVIOUS
  <1>1. CASE IngestStep
    BY <1>1, GrowOnly
  <1>2. CASE SweeperStep
    <2>1. db' \subseteq db /\ pages' = pages
      BY <1>2, SweeperShape
    <2>2. /\ Cardinality(db') <= Cardinality(db)
          /\ Cardinality(db') \in Nat /\ Cardinality(db) \in Nat
      BY <2>1, MineSweeper, <1>2, FS_Subset, FS_CardinalityType DEF MineInv
    <2> QED BY <2>1, <2>2, DaemonAssumption DEF Fits, SweepInv
  <1>3. CASE Tick \/ UNCHANGED daemonVars
    BY <1>3 DEF Tick, Retention!Tick, daemonVars, vars, storeVars, Fits
  <1> QED BY <1>1, <1>2, <1>3, DaemonKinds

LEMMA DaemonStart == DaemonInit => DInv
  <1> SUFFICES ASSUME DaemonInit
               PROVE  DInv
    OBVIOUS
  <1>1. IndInv
    BY IndInit DEF DaemonInit
  <1>2. db = {} /\ synced = {}
    BY DEF DaemonInit, Init, StoreInit
  <1>3. MineInv
    BY <1>1, <1>2, FS_EmptySet DEF MineInv, IndInv, WalkInv, Fresh, OwnRows
  <1>4. SweepInv
    BY DaemonAssumption DEF DaemonInit, Retention!Init, SweepInv
  <1>5. KeptInv
    <2>1. \A h \in Attempts : pc[h] = "idle"
      BY DEF DaemonInit, Init
    <2> QED BY <2>1 DEF KeptInv
  <1>6. Fits
    BY <1>2, FS_EmptySet, DaemonAssumption DEF DaemonInit, Retention!Init, Fits
  <1> QED BY <1>3, <1>4, <1>5, <1>6 DEF DInv

(* The invariant of a process whose sweeper deletes what handlers store.   *)
THEOREM DaemonInvariant == DaemonSafe => []DInv
  <1>1. DInv /\ [DaemonNext]_daemonVars => DInv'
    BY MineNext, SweepNext, KeptNext, FitsNext DEF DInv
  <1> QED BY <1>1, DaemonStart, PTL DEF DaemonSafe

(* An acknowledged row of a database under its cap is there until the      *)
(* window has passed over it.                                              *)
THEOREM AckedKept == DaemonSafe => []AckedUntilSwept
  <1>1. DInv => AckedUntilSwept
    <2> SUFFICES ASSUME DInv, Calm, NEW q \in Requests, client[q] = "acked",
                        NEW r \in AllRows(Current(q))
                 PROVE  r \in db \/ Expired(r)
      BY DEF AckedUntilSwept
    <2>1. Current(q) \in Attempts /\ pc[Current(q)] = "ok"
      <3>1. tries[q] \in 1 .. MaxAttempts
        BY MaxAttemptsAssumption DEF DInv, MineInv, TypeOK, ControlInv
      <3> QED BY <3>1 DEF Current, Attempts, DInv, MineInv, ControlInv
    <2>2. PICK g \in Groups(Current(q)) : r \in RowsOf(Current(q), g)
      BY DEF AllRows
    <2>3. g \in Nat
      BY <2>1, GroupFacts
    <2> QED BY <2>1, <2>2, <2>3 DEF DInv, KeptInv, Kept
  <1> QED BY <1>1, DaemonInvariant, PTL

(* A retry is acknowledged beside rows of an earlier attempt only when one *)
(* of the two has expired.                                                 *)
THEOREM OthersExpired == DaemonSafe => []OthersSpansExpired
  <1>1. DInv /\ AckedUntilSwept => OthersSpansExpired
    <2> SUFFICES ASSUME DInv, AckedUntilSwept, Calm, NEW q \in Requests, NEW r \in db,
                        client[q] = "acked", r.by[1] = q, RowKey(r) # NoKey
                 PROVE  r.by = Current(q) \/ Expired(r)
      BY DEF OthersSpansExpired
    <2> DEFINE h == Current(q)
               twin == [by |-> h, grp |-> r.grp, idx |-> r.idx]
    <2>1. h \in Attempts /\ h[1] = q
      <3>1. tries[q] \in 1 .. MaxAttempts
        BY MaxAttemptsAssumption DEF DInv, MineInv, TypeOK, ControlInv
      <3> QED BY <3>1 DEF Current, Attempts
    <2>2. /\ r.by \in Attempts
          /\ r.grp \in Groups(r.by) /\ r \in RowsOf(r.by, r.grp)
      BY DEF DInv, MineInv, OwnRows, TypeOK, StoreTypeOK, Row
    <2>3. r.grp \in Groups(h) /\ Group(h, r.grp) = Group(r.by, r.grp)
      BY <2>1, <2>2 DEF Groups, Group
    <2>4. twin \in RowsOf(h, r.grp)
      BY <2>2, <2>3, RowFacts DEF RowsOf
    <2>5. RecordAt(twin) = RecordAt(r)
      BY <2>1 DEF RecordAt
    <2>6. twin \in db \/ Expired(twin)
      BY <2>3, <2>4 DEF AckedUntilSwept, AllRows
    <2>7. CASE twin \in db
      <3>1. RowKey(twin) = RowKey(r)
        BY <2>5 DEF RowKey
      <3>2. twin = r
        BY <2>7, <3>1 DEF DInv, MineInv, KeyInv, SpanKeyUnique
      <3> QED BY <3>2
    <2>8. CASE Expired(twin)
      <3>1. Stamp[twin] = Stamp[r]
        BY <2>1, <2>2, <2>3, <2>4, <2>5, StampFacts
      <3> QED BY <2>8, <3>1 DEF Expired
    <2> QED BY <2>6, <2>7, <2>8
  <1> QED BY <1>1, DaemonInvariant, AckedKept, PTL

(* Nothing of a refused group is stored, sweeper or not.                   *)
THEOREM DaemonRefusals == DaemonSafe => []RefusedLeavesNothing
  <1>1. DInv => RefusedLeavesNothing
    <2> SUFFICES ASSUME DInv
                 PROVE  RefusedLeavesNothing
      OBVIOUS
    <2>1. ASSUME NEW h \in Attempts, pc[h] = "rejected"
          PROVE  AllRows(h) \cap db = {}
      <3>1. grp[h] = 1
        BY <2>1 DEF DInv, MineInv, ControlInv
      <3>2. \A g \in Groups(h) : g >= grp[h]
        BY <3>1, AttemptFacts
      <3>3. \A g \in Groups(h) : Lacks(db, h, g)
        BY <3>2 DEF DInv, MineInv, Fresh
      <3> QED BY <3>3 DEF AllRows, Lacks
    <2>2. ASSUME NEW h \in Attempts, NEW g \in Groups(h), g >= grp[h]
          PROVE  RowsOf(h, g) \cap db = {}
      BY <2>2 DEF DInv, MineInv, Fresh, Lacks
    <2> QED BY <2>1, <2>2 DEF RefusedLeavesNothing
  <1> QED BY <1>1, DaemonInvariant, PTL

(* While handlers store and the sweeper deletes, a row is lost only to its   *)
(* window or to the cap: no step of a handler, and no statement that a       *)
(* handler slips in front of, takes one away.                                *)
THEOREM DaemonLoss == DaemonSafe => Retention!DeletedForCause
  <1>1. DInv /\ [DaemonNext]_daemonVars =>
          [ \A r \in db \ db' :
              \/ Window > 0 /\ Stamp[r] + Window < now
              \/ Cap > 0 /\ pages > Cap ]_(Retention!vars)
    BY LossHasCause DEF DInv, Expired
  <1> QED BY <1>1, DaemonInvariant, PTL DEF DaemonSafe, Retention!DeletedForCause

(* The sweeper is one more who waits for the lock, and it waits for a        *)
(* transaction that can go on without it.                                    *)
SweeperNotStuck == sweep # "idle" => Turn \/ (writer \in Attempts /\ Goes(writer))

(* With the sweeper in the queue too nobody waits in a ring ...              *)
THEOREM DaemonNoRing == DaemonSafe => [](NobodyStuck /\ SweeperNotStuck)
  <1>1. DInv => NobodyStuck /\ SweeperNotStuck
    BY WaitingEnds, HolderGoes DEF DInv, MineInv, SweeperNotStuck, Turn
  <1> QED BY <1>1, DaemonInvariant, PTL

(* ... and no handler is set back by what the sweeper deletes.               *)
THEOREM DaemonOnward == DaemonSafe => NeverBack
  <1>1. DInv /\ [DaemonNext]_daemonVars =>
          [\A h \in Attempts : UNCHANGED <<pc[h], grp[h], item[h]>> \/ Onward(h)]_vars
    <2> SUFFICES ASSUME DInv, [DaemonNext]_daemonVars, NEW h \in Attempts
                 PROVE  UNCHANGED <<pc[h], grp[h], item[h]>> \/ Onward(h)
      OBVIOUS
    <2>1. CASE IngestStep
      BY <2>1, IngestShape, StepsOnward DEF DInv, MineInv
    <2>2. CASE SweeperStep
      BY <2>2, SweeperShape
    <2>3. CASE Tick \/ UNCHANGED daemonVars
      BY <2>3 DEF Tick, daemonVars, vars, handlerVars
    <2> QED BY <2>1, <2>2, <2>3, DaemonKinds
  <1> QED BY <1>1, DaemonInvariant, PTL DEF DaemonSafe, NeverBack

-----------------------------------------------------------------------------
(* To the sweeper a step of the ingest path is a group of new rows or      *)
(* nothing.                                                                *)
LEMMA IngestRefines ==
    ASSUME DInv, IngestStep
    PROVE  [Retention!Next]_(Retention!vars)
  <1>1. pages' = Retention!PagesOf(db', pages) /\ UNCHANGED <<now, sweeperVars>>
    BY DEF IngestStep, Grow
  <1>2. db' = db \/ \E h \in Attempts : CommitGroup(h)
    BY IngestShape DEF DInv, MineInv
  <1>3. ASSUME NEW h \in Attempts, CommitGroup(h), RowsOf(h, grp[h]) # {}
        PROVE  Retention!Next
    <2> DEFINE group == RowsOf(h, grp[h])
    <2>1. grp[h] \in Groups(h) /\ db' = db \cup group /\ group \cap db = {}
      BY <1>3, CommitIsNew DEF DInv
    <2>2. group \in Batches
      BY <1>3, <2>1 DEF Batches
    <2>3. Retention!Ingest(group)
      BY <1>1, <2>1 DEF Retention!Ingest, Retention!sweepVars, sweeperVars
    <2> QED BY <2>2, <2>3 DEF Retention!Next
  <1>4. ASSUME db' = db
        PROVE  UNCHANGED Retention!vars
    <2>1. pages' = pages
      BY <1>4, GrowOnly DEF DInv
    <2> QED BY <1>1, <1>4, <2>1 DEF Retention!vars, Retention!sweepVars, sweeperVars
  <1>5. ASSUME NEW h \in Attempts, CommitGroup(h), RowsOf(h, grp[h]) = {}
        PROVE  db' = db
    BY <1>5, CommitIsNew DEF DInv
  <1> QED BY <1>2, <1>3, <1>4, <1>5

(* The ingest path and the sweeper together implement what Retention says  *)
(* of one database: rows come in whole groups, and only the sweeper takes  *)
(* them away.                                                              *)
THEOREM DaemonRefinement == DaemonSafe => KeepsRetention
  <1>1. DaemonInit => Retention!Init
    BY DEF DaemonInit
  <1>2. DInv /\ [DaemonNext]_daemonVars => [Retention!Next]_(Retention!vars)
    <2> SUFFICES ASSUME DInv, [DaemonNext]_daemonVars
                 PROVE  [Retention!Next]_(Retention!vars)
      OBVIOUS
    <2>1. CASE IngestStep
      BY <2>1, IngestRefines
    <2>2. CASE Tick
      BY <2>2 DEF Tick, Retention!Next
    <2>3. CASE SweeperStep
      BY <2>3 DEF SweeperStep, Retention!Next, Retention!Sweeper
    <2>4. CASE UNCHANGED daemonVars
      BY <2>4 DEF daemonVars, vars, storeVars, sweeperVars, Retention!vars,
                  Retention!sweepVars
    <2> QED BY <2>1, <2>2, <2>3, <2>4, DaemonKinds
  <1> QED BY <1>1, <1>2, DaemonInvariant, PTL DEF DaemonSafe, KeepsRetention, Retention!SafeSpec

-----------------------------------------------------------------------------
(* What RetentionProofs proves holds of the database of Daemon.            *)
Sw == INSTANCE RetentionProofs WITH
    Rows <- Storable, Commits <- Batches,
    Endless <- TRUE, used <- {},
    rows <- db, pc <- sweep

(* The database of the handlers is one that Retention is about.            *)
LEMMA DatabaseFits == Sw!RetentionAssumption
  <1>1. /\ TableOf \in [Storable -> {"spans", "logs", "metrics"}]
        /\ Stamp \in [Storable -> 0 .. MaxNow]
    <2>1. \A r \in Storable : RecordAt(r) \in Records
      BY StampFacts DEF Storable, AllRows
    <2> QED BY <2>1, DaemonAssumption DEF TableOf, Stamp
  <1>2. ASSUME NEW group \in Batches
        PROVE  /\ group \subseteq Storable /\ group # {}
               /\ Sw!IsFiniteSet(group)
    <2>1. PICK h \in Attempts : \E g \in Groups(h) : group = RowsOf(h, g)
      BY DEF Batches
    <2>2. PICK g \in Groups(h) : group = RowsOf(h, g)
      BY <2>1
    <2>3. group \subseteq Storable /\ group # {}
      BY <2>2 DEF Batches, Storable, AllRows
    <2>4. \A S : IsFiniteSet(S) <=> Sw!IsFiniteSet(S)
      BY DEF IsFiniteSet, Sw!IsFiniteSet
    <2> QED BY <2>2, <2>3, <2>4, FiniteGroup
  <1>3. /\ Window \in Nat /\ Cap \in Nat /\ Batch \in Nat \ {0} /\ EmptyPages \in Nat
        /\ MaxNow \in Nat /\ MaxErrors \in Nat
        /\ Window > 0 \/ Cap > 0
    BY DaemonAssumption
  <1> QED BY <1>1, <1>2, <1>3 DEF Sw!RetentionAssumption

(* Two names of one thing: Retention in Daemon, and Retention as its        *)
(* proofs have it.                                                         *)
LEMMA SameCount == \A S : Retention!Cardinality(S) = Sw!Cardinality(S)
  BY DEF Retention!Cardinality, Sw!Cardinality

LEMMA SameSweeper ==
    /\ Retention!Init <=> Sw!Init
    /\ Retention!Next <=> Sw!Next
    /\ Retention!vars = Sw!vars
  <1>1. /\ Retention!vars = Sw!vars /\ Retention!sweepVars = Sw!sweepVars
        /\ Retention!Init <=> Sw!Init
    BY DEF Retention!vars, Sw!vars, Retention!sweepVars, Sw!sweepVars,
           Retention!Init, Sw!Init
  <1>2. /\ \A S, n : Retention!PagesOf(S, n) = Sw!PagesOf(S, n)
        /\ \A S, n, f : Retention!OldestOf(S, n, f) = Sw!OldestOf(S, n, f)
    BY SameCount DEF Retention!PagesOf, Sw!PagesOf, Retention!OldestOf, Sw!OldestOf
  <1>3. \A t : Retention!In(t) = Sw!In(t)
    BY DEF Retention!In, Sw!In, Retention!Tables, Sw!Tables
  <1>4. /\ Retention!Tick <=> Sw!Tick
        /\ Retention!StartSweep <=> Sw!StartSweep
        /\ Retention!EnforceFails <=> Sw!EnforceFails
        /\ Retention!CheckSize <=> Sw!CheckSize
    BY DEF Retention!Tick, Sw!Tick, Retention!StartSweep, Sw!StartSweep,
           Retention!EnforceFails, Sw!EnforceFails, Retention!CheckSize,
           Sw!CheckSize, Retention!sweepVars, Sw!sweepVars
  <1>5. /\ Retention!DeleteBeforeFails <=> Sw!DeleteBeforeFails
        /\ Retention!DeleteBefore <=> Sw!DeleteBefore
    BY <1>3 DEF Retention!DeleteBefore, Sw!DeleteBefore, Retention!AfterAge,
                Sw!AfterAge, Retention!DeleteBeforeFails, Sw!DeleteBeforeFails
  <1>6. Retention!Evict <=> Sw!Evict
    BY <1>2, <1>3, SameCount DEF Retention!Evict, Sw!Evict
  <1>7. ASSUME NEW group
        PROVE  Retention!Ingest(group) <=> Sw!Ingest(group)
    <2>1. Retention!PagesOf(db', pages) = Sw!PagesOf(db', pages)
      BY <1>2
    <2>2. UNCHANGED Retention!sweepVars <=> UNCHANGED Sw!sweepVars
      BY DEF Retention!sweepVars, Sw!sweepVars
    <2> QED BY <2>1, <2>2 DEF Retention!Ingest, Sw!Ingest
  <1> QED BY <1>1, <1>4, <1>5, <1>6, <1>7
          DEF Retention!Next, Sw!Next, Retention!Sweeper, Sw!Sweeper

(* So Daemon implements Retention as its proofs have it.                   *)
LEMMA DaemonIsSwept == DaemonSafe => Sw!SafeSpec
  <1>1. Retention!Init => Sw!Init
    BY SameSweeper
  <1>2. [Retention!Next]_(Retention!vars) => [Sw!Next]_(Sw!vars)
    BY SameSweeper DEF Retention!vars, Sw!vars, Retention!sweepVars, Sw!sweepVars
  <1> QED BY <1>1, <1>2, DaemonRefinement, PTL
          DEF KeepsRetention, Retention!SafeSpec, Sw!SafeSpec

(* Beside the handlers, too, a sweep runs down, and the handlers prolong   *)
(* it by no more than a pass for each row they store meanwhile.            *)
THEOREM DaemonRunsDown == DaemonSafe => Sw!SweepRunsDown
  <1>1. Sw!SafeSpec => Sw!SweepRunsDown
    BY DatabaseFits, Sw!RunsDownAlways DEF Sw!RetentionAssumption
  <1> QED BY <1>1, DaemonIsSwept, PTL

(* Whoever reads the database beside the handlers and the sweeper sees     *)
(* whole groups come and the oldest rows of a table go, and nothing else.  *)
THEOREM DaemonOldestFirst ==
    DaemonSafe => [][Sw!GroupComes \/ Sw!OldestGo]_db
  <1>1. Sw!SafeSpec => [][Sw!GroupComes \/ Sw!OldestGo]_db
    BY DatabaseFits, Sw!OldestFirst DEF Sw!RetentionAssumption
  <1> QED BY <1>1, DaemonIsSwept, PTL
=============================================================================
