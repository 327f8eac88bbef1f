----------------------------- MODULE SystemProofs -----------------------------
(***************************************************************************)
(* Proofs about System.  Each of its steps is a step of Daemon or none     *)
(* (SystemIsDaemon), and a step of Query or none (SystemIsQuery): what is  *)
(* proved of handlers and sweeper holds beside readers, and what is proved *)
(* of readers holds of the transactions and deletions there really are.    *)
(* From both together follows what neither can say: whoever asks for a row *)
(* that was acknowledged finds it.                                         *)
(***************************************************************************)
EXTENDS System, DaemonProofs

(* The database and the requests are such as Query is about.               *)
LEMMA QueryFits == ReadersFit => Q!QueryAssumption /\ Q!AsksAssumption
  <1> SUFFICES ASSUME ReadersFit
               PROVE  Q!QueryAssumption /\ Q!AsksAssumption
    OBVIOUS
  <1>1. Stamp \in [Storable -> Int]
    BY DatabaseFits DEF Sw!RetentionAssumption
  <1>2. Batches \in SUBSET (SUBSET Storable)
    BY DEF Batches, Storable, AllRows
  <1> QED BY <1>1, <1>2 DEF ReadersFit, Q!QueryAssumption, Q!AsksAssumption

-----------------------------------------------------------------------------
(* To handlers and sweeper, readers are nothing.                           *)
LEMMA ReadersOnlyRead == [SystemNext]_systemVars => [DaemonNext]_daemonVars
  BY DEF SystemNext, AskStep, ReaderStep, WriterStep, DeleterStep, DaemonNext, systemVars

(* System only adds readers to Daemon, so every theorem of DaemonProofs    *)
(* holds of it.                                                            *)
THEOREM SystemIsDaemon == SystemSpec => DaemonSafe
  <1>1. SystemInit => DaemonInit
    BY DEF SystemInit
  <1> QED BY <1>1, ReadersOnlyRead, PTL DEF SystemSpec, DaemonSafe

-----------------------------------------------------------------------------
(* One connection, one of them has it; and nobody remembers a row that is  *)
(* not in the database.                                                    *)
OneHolder == InMemory => conn = Nobody \/ writer = Nobody

HistoryInv ==
    /\ stable \in [Readers -> SUBSET db]
    /\ snap \in [Readers -> SUBSET db]

(* The steps of Daemon, seen from the readers.                             *)
BesideReaders ==
    \/ \E h \in Attempts : WriterStep(h)
    \/ DeleterStep
    \/ \E q \in Requests : ClientStep(q) /\ Forget
    \/ Tick /\ Forget

LEMMA SystemKinds ==
    ASSUME [SystemNext]_systemVars
    PROVE  \/ \E r \in Readers : AskStep(r) \/ ReaderStep(r)
           \/ BesideReaders
           \/ UNCHANGED systemVars
  BY DEF SystemNext, BesideReaders

LEMMA BesideFacts == BesideReaders => Forget
  BY DEF BesideReaders, WriterStep, DeleterStep

LEMMA OneHolderNext == OneHolder /\ [SystemNext]_systemVars => OneHolder'
  <1> SUFFICES ASSUME OneHolder, [SystemNext]_systemVars
               PROVE  OneHolder'
    OBVIOUS
  <1>1. ASSUME NEW r \in Readers, AskStep(r)
        PROVE  OneHolder'
    BY <1>1 DEF AskStep, Q!Ask, OneHolder, daemonVars, vars, storeVars
  <1>2. ASSUME NEW r \in Readers, ReaderStep(r)
        PROVE  OneHolder'
    BY <1>2 DEF ReaderStep, OneHolder, Turn, daemonVars, vars, storeVars
  <1>3. ASSUME NEW h \in Attempts, WriterStep(h)
        PROVE  OneHolder'
    BY <1>3 DEF WriterStep, Forget, readerVars, OneHolder, Q!ConnFree
  <1>4. CASE DeleterStep
    BY <1>4, SweeperShape DEF DeleterStep, Forget, readerVars, OneHolder
  <1>5. ASSUME NEW q \in Requests, ClientStep(q), Forget
        PROVE  OneHolder'
    BY <1>5 DEF ClientStep, Send, Deliver, GiveUp, storeVars, Forget, readerVars, OneHolder
  <1>6. CASE Tick /\ Forget
    BY <1>6 DEF Tick, vars, storeVars, Forget, readerVars, OneHolder
  <1>7. CASE UNCHANGED systemVars
    BY <1>7 DEF systemVars, readerVars, daemonVars, vars, storeVars, OneHolder
  <1> QED BY <1>1, <1>2, <1>3, <1>4, <1>5, <1>6, <1>7 DEF SystemNext

LEMMA HistoryNext == HistoryInv /\ [SystemNext]_systemVars => HistoryInv'
  <1> SUFFICES ASSUME HistoryInv, [SystemNext]_systemVars
               PROVE  HistoryInv'
    OBVIOUS
  <1>1. ASSUME NEW r \in Readers, AskStep(r)
        PROVE  HistoryInv'
    <2>1. db' = db /\ snap' = snap
      BY <1>1 DEF AskStep, Q!Ask, daemonVars, vars, storeVars
    <2>2. PICK S \in SUBSET db : stable' = [stable EXCEPT ![r] = S]
      <3>1. PICK a \in Asks[r] :
              stable' = [stable EXCEPT ![r] =
                           IF Q!Accepted(a) THEN { x \in db : Data[x].table \in Q!Tables(a) }
                                            ELSE {}]
        BY <1>1 DEF AskStep, Q!Ask
      <3> QED BY <3>1
    <2> QED BY <2>1, <2>2 DEF HistoryInv
  <1>2. ASSUME NEW r \in Readers, ReaderStep(r)
        PROVE  HistoryInv'
    <2>1. db' = db
      BY <1>2 DEF ReaderStep, daemonVars, vars, storeVars
    <2>2. \/ UNCHANGED <<stable, snap>>
          \/ UNCHANGED stable /\ \E S \in SUBSET db : snap' = [snap EXCEPT ![r] = S]
          \/ stable' = [stable EXCEPT ![r] = {}] /\ snap' = [snap EXCEPT ![r] = {}]
      <3>1. CASE Q!Select(r)
        <4>1. Q!InTable(db, "logs") \in SUBSET db
          BY DEF Q!InTable
        <4> QED BY <3>1, <4>1 DEF Q!Select
      <3>2. CASE Q!Scan(r) \/ Q!Respond(r)
        BY <3>2 DEF Q!Scan, Q!Respond
      <3>3. CASE Q!Fails(r)
        BY <3>3 DEF Q!Fails
      <3> QED BY <1>2, <3>1, <3>2, <3>3 DEF ReaderStep, Q!Serve
    <2> QED BY <2>1, <2>2 DEF HistoryInv
  <1>3. CASE BesideReaders
    BY <1>3, BesideFacts DEF Forget, HistoryInv
  <1>4. CASE UNCHANGED systemVars
    BY <1>4 DEF systemVars, daemonVars, vars, storeVars, HistoryInv
  <1> QED BY <1>1, <1>2, <1>3, <1>4, SystemKinds

(* What the composition adds to the invariants of its parts.               *)
LEMMA SystemStart == SystemInit => OneHolder /\ HistoryInv
  BY DEF SystemInit, Q!Init, OneHolder, HistoryInv

LEMMA Composed == SystemSpec => [](OneHolder /\ HistoryInv)
  BY SystemStart, OneHolderNext, HistoryNext, PTL DEF SystemSpec

-----------------------------------------------------------------------------
(* To readers, a step of a handler is a commit or nothing, a step of the   *)
(* sweeper a deletion or nothing.                                          *)

(* Query and Retention have the same tables and the same oldest rows.      *)
LEMMA SameTables ==
    ASSUME ReadersFit, MineInv, NEW t \in 1 .. 3
    PROVE  Sw!In(t) = Q!InTable(db, Sw!Tables[t])
  <1>1. ASSUME NEW x \in db
        PROVE  TableOf[x] = Data[x].table
    <2>1. x.by \in Attempts /\ x.grp \in Groups(x.by) /\ x \in RowsOf(x.by, x.grp)
      BY DEF MineInv, OwnRows, TypeOK, StoreTypeOK, Row
    <2>2. x \in Storable /\ RecordAt(x) \in Records
      BY <2>1, StampFacts
    <2> QED BY <2>2 DEF TableOf, Data, ReadersFit
  <1> QED BY <1>1 DEF Sw!In, Q!InTable

LEMMA SameOldestRows ==
    \A S, n : Sw!OldestOf(S, n, Stamp) = Q!OldestOf(S, n, Stamp)
  <1>1. \A S : Sw!Cardinality(S) = Q!Cardinality(S)
    BY DEF Sw!Cardinality, Q!Cardinality
  <1> QED BY <1>1 DEF Sw!OldestOf, Q!OldestOf

(* Whoever changes the database has the connection.                        *)
LEMMA ChangersHold ==
    ASSUME DInv, BesideReaders, db' # db
    PROVE  Q!ConnFree
  <1>1. ASSUME NEW h \in Attempts, WriterStep(h)
        PROVE  Q!ConnFree
    <2>1. IngestStep
      BY <1>1 DEF WriterStep, HandlerStep, IngestStep
    <2>2. PICK k \in Attempts : CommitGroup(k)
      BY <2>1, IngestShape DEF DInv, MineInv
    <2>3. Commit(k)
      BY <2>2 DEF CommitGroup
    <2>4. pending[k] # {}
      BY <2>3 DEF Commit
    <2>5. writer = k /\ writer' = Nobody
      BY <2>3, <2>4 DEF Commit, Release, DInv, MineInv, TxInv
    <2>6. Nobody \notin Attempts
      BY StoreAssumption
    <2> QED BY <1>1, <2>5, <2>6 DEF WriterStep
  <1>2. CASE DeleterStep
    <2>1. Statement
      BY <1>2 DEF DeleterStep, SweeperStep, Statement, Retention!StartSweep,
                  Retention!DeleteBeforeFails, Retention!EnforceFails
    <2> QED BY <1>2, <2>1 DEF DeleterStep
  <1>3. ASSUME NEW q \in Requests, ClientStep(q)
        PROVE  db' = db
    BY <1>3 DEF ClientStep, Send, Deliver, GiveUp, storeVars
  <1>4. CASE Tick
    BY <1>4 DEF Tick, vars, storeVars
  <1> QED BY <1>1, <1>2, <1>3, <1>4 DEF BesideReaders

LEMMA BesideIsQuery ==
    ASSUME ReadersFit, DInv, HistoryInv, BesideReaders,
           [Sw!GroupComes \/ Sw!OldestGo]_db
    PROVE  [Q!Next]_(Q!vars)
  <1>1. /\ stable' = [r \in Readers |-> stable[r] \ (db \ db')]
        /\ snap' = [r \in Readers |-> snap[r] \ (db \ db')]
        /\ UNCHANGED <<conn, asking, ask, part, answer, listed>>
    BY BesideFacts DEF Forget, readerVars
  <1>2. UNCHANGED <<conn, Q!readVars>>
    BY <1>1 DEF Q!readVars
  <1>3. ASSUME db \subseteq db'
        PROVE  stable' = stable /\ snap' = snap
    <2>1. db \ db' = {}
      BY <1>3
    <2> QED BY <1>1, <2>1 DEF HistoryInv
  <1>4. CASE db' = db
    BY <1>2, <1>3, <1>4 DEF Q!vars
  <1>5. CASE db' # db /\ Sw!GroupComes
    <2>1. Q!ConnFree
      BY <1>5, ChangersHold
    <2>2. PICK group \in Batches : group \cap db = {} /\ db' = db \cup group
      BY <1>5 DEF Sw!GroupComes
    <2>3. Q!Commit(group)
      BY <1>2, <1>3, <2>1, <2>2 DEF Q!Commit
    <2> QED BY <2>2, <2>3 DEF Q!Next
  <1>6. CASE db' # db /\ Sw!OldestGo
    <2>1. Q!ConnFree
      BY <1>6, ChangersHold
    <2>2. PICK t \in 1 .. 3 :
            \E n \in 1 .. Sw!Cardinality(Sw!In(t)) :
                \E V \in Sw!OldestOf(Sw!In(t), n, Stamp) : db' = db \ V
      BY <1>6 DEF Sw!OldestGo
    <2>3. PICK n \in 1 .. Sw!Cardinality(Sw!In(t)) :
             \E V \in Sw!OldestOf(Sw!In(t), n, Stamp) : db' = db \ V
      BY <2>2
    <2>4. PICK V \in Sw!OldestOf(Sw!In(t), n, Stamp) : db' = db \ V
      BY <2>3
    <2> DEFINE name == Sw!Tables[t]
    <2>5. name \in {"spans", "logs", "metrics"}
      BY DEF Sw!Tables
    <2>6. /\ Sw!In(t) = Q!InTable(db, name)
          /\ Sw!Cardinality(Sw!In(t)) = Q!Cardinality(Q!InTable(db, name))
      <3>1. Sw!In(t) = Q!InTable(db, name)
        BY SameTables DEF DInv
      <3> QED BY <3>1 DEF Sw!Cardinality, Q!Cardinality
    <2>7. V \in Q!OldestOf(Q!InTable(db, name), n, Stamp)
      BY <2>6, SameOldestRows
    <2>8. db \ db' = V
      <3>1. V \subseteq db
        BY DEF Sw!OldestOf, Sw!In
      <3> QED BY <2>4, <3>1
    <2>9. /\ stable' = [r \in Readers |-> stable[r] \ V]
          /\ snap' = [r \in Readers |-> snap[r] \ V]
      BY <1>1, <2>8
    <2> HIDE DEF name
    <2>10. Q!Retire
      BY <1>2, <2>1, <2>4, <2>5, <2>6, <2>7, <2>9 DEF Q!Retire
    <2> QED BY <2>10 DEF Q!Next
  <1> QED BY <1>4, <1>5, <1>6

(* Readers beside the handlers and the sweeper of a process are what Query *)
(* says of them: what is committed comes in groups it knows and goes in    *)
(* the order it knows.  So all that QueryProofs proves holds of them.      *)
THEOREM SystemIsQuery == ASSUME ReadersFit PROVE SystemSpec => Q!Spec
  <1>1. SystemInit => Q!Init
    BY DEF SystemInit
  <1>2. /\ DInv /\ HistoryInv /\ [SystemNext]_systemVars
        /\ [Sw!GroupComes \/ Sw!OldestGo]_db
        => [Q!Next]_(Q!vars)
    <2> SUFFICES ASSUME DInv, HistoryInv, [SystemNext]_systemVars,
                        [Sw!GroupComes \/ Sw!OldestGo]_db
                 PROVE  [Q!Next]_(Q!vars)
      OBVIOUS
    <2>1. ASSUME NEW r \in Readers, AskStep(r) \/ ReaderStep(r)
          PROVE  Q!Next
      BY <2>1 DEF AskStep, ReaderStep, Q!Next
    <2>2. CASE BesideReaders
      BY <2>2, BesideIsQuery
    <2>3. CASE UNCHANGED systemVars
      BY <2>3 DEF systemVars, readerVars, daemonVars, vars, storeVars, Q!vars, Q!readVars
    <2> QED BY <2>1, <2>2, <2>3, SystemKinds
  <1> QED BY <1>1, <1>2, SystemIsDaemon, DaemonInvariant, DaemonOldestFirst, Composed, PTL
          DEF SystemSpec, Q!Spec

(* With it, the invariant of the readers.                                  *)
LEMMA ReadersInvariance == ASSUME ReadersFit PROVE SystemSpec => []Q!QueryInv
  <1>1. Q!Spec => []Q!QueryInv
    BY QueryFits, Q!QueryInvariance DEF Q!QueryAssumption, Q!AsksAssumption
  <1> QED BY <1>1, SystemIsQuery, PTL

-----------------------------------------------------------------------------
(* What is owed to a reader that is being served, or was.                  *)
Met(r, x) == x \in stable[r] \/ Expired(x)

OwedInv ==
    /\ owed \in [Readers -> SUBSET Storable]
    /\ Calm => \A r \in Readers : asking[r] \in {"select", "scan", "done"} =>
          \A x \in owed[r] : Data[x].table \in Q!Tables(ask[r]) => Met(r, x)

LEMMA AckedRows == DInv => Acked \in SUBSET Storable
  <1> SUFFICES ASSUME DInv, NEW q \in Requests, client[q] = "acked"
               PROVE  AllRows(Current(q)) \subseteq Storable
    BY DEF Acked
  <1>1. tries[q] \in 1 .. MaxAttempts
    BY MaxAttemptsAssumption DEF DInv, MineInv, TypeOK, ControlInv
  <1>2. Current(q) \in Attempts
    BY <1>1 DEF Current, Attempts
  <1> QED BY <1>2 DEF Storable

(* Neither the clock nor the size of the database goes back.               *)
LEMMA ClockAndSize ==
    ASSUME DInv, [DaemonNext]_daemonVars
    PROVE  /\ now' >= now
           /\ Calm' => Calm
           /\ \A x \in Storable : Expired(x) => Expired(x)'
  <1>1. pages' >= pages /\ now' >= now
    BY DaemonKinds, GrowOnly, SweeperShape
       DEF DInv, Tick, Retention!Tick, daemonVars, sweeperVars, SweepInv
  <1>2. /\ pages \in Nat /\ now \in Nat /\ pages' \in Nat /\ now' \in Nat
        /\ Cap \in Nat /\ Window \in Nat
    BY SweepNext, DaemonAssumption DEF DInv, SweepInv
  <1>3. \A x \in Storable : Stamp[x] \in Int
    BY DatabaseFits DEF Sw!RetentionAssumption
  <1> QED BY <1>1, <1>2, <1>3 DEF Calm, Expired

LEMMA OwedByAsk ==
    ASSUME DInv, AckedUntilSwept, Q!QueryInv, OwedInv, NEW s \in Readers, AskStep(s)
    PROVE  OwedInv'
  <1>1. /\ UNCHANGED <<db, now, pages, client, tries>>
        /\ owed' = [owed EXCEPT ![s] = Acked]
    BY DEF AskStep, daemonVars, vars, storeVars, clientVars
  <1>2. PICK a \in Asks[s] :
          /\ ask' = [ask EXCEPT ![s] = a]
          /\ asking' = [asking EXCEPT ![s] = IF Q!Accepted(a) THEN "select" ELSE "refused"]
          /\ stable' = [stable EXCEPT ![s] =
                           IF Q!Accepted(a) THEN { x \in db : Data[x].table \in Q!Tables(a) }
                                            ELSE {}]
    BY DEF AskStep, Q!Ask
  <1>3. /\ ask = [r \in Readers |-> ask[r]]
        /\ asking = [r \in Readers |-> asking[r]]
        /\ stable = [r \in Readers |-> stable[r]]
    BY DEF Q!QueryInv, Q!TypeOK
  <1>4. owed' \in [Readers -> SUBSET Storable]
    BY <1>1, AckedRows DEF OwedInv
  <1>5. ASSUME Calm', NEW r \in Readers, asking'[r] \in {"select", "scan", "done"},
               NEW x \in owed'[r], Data[x].table \in Q!Tables(ask'[r])
        PROVE  Met(r, x)'
    <2>1. Calm /\ (Expired(x) => Expired(x)')
      BY <1>1, <1>5 DEF Calm, Expired
    <2>2. CASE r # s
      <3>1. /\ ask'[r] = ask[r] /\ asking'[r] = asking[r]
            /\ stable'[r] = stable[r] /\ owed'[r] = owed[r]
        BY <1>1, <1>2, <1>3, <2>2 DEF OwedInv
      <3>2. Met(r, x)
        BY <1>5, <2>1, <3>1 DEF OwedInv
      <3> QED BY <2>1, <3>1, <3>2 DEF Met
    <2>3. CASE r = s
      <3>1. ask'[s] = a /\ Q!Accepted(a) /\ x \in Acked
        BY <1>1, <1>2, <1>3, <1>5, <2>3 DEF OwedInv
      <3>2. stable'[s] = { y \in db : Data[y].table \in Q!Tables(a) }
        BY <1>2, <1>3, <3>1
      <3>3. x \in db \/ Expired(x)
        BY <2>1, <3>1 DEF AckedUntilSwept, Acked
      <3> QED BY <1>5, <2>1, <2>3, <3>1, <3>2, <3>3 DEF Met
    <2> QED BY <2>2, <2>3
  <1> QED BY <1>4, <1>5 DEF OwedInv

LEMMA OwedByRead ==
    ASSUME Q!QueryInv, OwedInv, NEW s \in Readers, ReaderStep(s)
    PROVE  OwedInv'
  <1>1. UNCHANGED <<now, pages, owed, ask>>
    BY DEF ReaderStep, daemonVars, Q!Serve, Q!Select, Q!Scan, Q!Respond, Q!Fails
  <1>2. ASSUME NEW r \in Readers, asking'[r] \in {"select", "scan", "done"}
        PROVE  asking[r] \in {"select", "scan", "done"} /\ stable'[r] = stable[r]
    <2>1. /\ asking = [t \in Readers |-> asking[t]]
          /\ stable = [t \in Readers |-> stable[t]]
      BY DEF Q!QueryInv, Q!TypeOK
    <2>2. CASE Q!Serve(s)
      BY <1>2, <2>1, <2>2 DEF Q!Serve, Q!Select, Q!Scan, Q!Respond
    <2>3. CASE Q!Fails(s)
      BY <1>2, <2>1, <2>3 DEF Q!Fails
    <2> QED BY <2>2, <2>3 DEF ReaderStep
  <1> QED BY <1>1, <1>2 DEF OwedInv, Met, Calm, Expired

LEMMA OwedBeside ==
    ASSUME DInv, HistoryInv, OwedInv, BesideReaders, [DaemonNext]_daemonVars
    PROVE  OwedInv'
  <1>1. /\ stable' = [r \in Readers |-> stable[r] \ (db \ db')]
        /\ UNCHANGED <<asking, ask, owed>>
    BY BesideFacts DEF Forget, readerVars
  <1>2. ASSUME Calm', NEW r \in Readers, NEW x \in owed[r], Met(r, x)
        PROVE  Met(r, x)'
    <2>1. Calm /\ (Expired(x) => Expired(x)')
      BY <1>2, ClockAndSize DEF OwedInv
    <2>2. CASE Expired(x)
      BY <2>1, <2>2 DEF Met
    <2>3. CASE x \in stable[r] /\ x \in db'
      BY <1>1, <2>3 DEF Met
    <2>4. CASE x \in stable[r] /\ x \notin db'
      <3>1. x \in db
        BY <2>4 DEF HistoryInv
      <3>2. Expired(x) \/ (Cap > 0 /\ pages > Cap)
        BY <2>4, <3>1, LossHasCause DEF DInv
      <3>3. ~ (Cap > 0 /\ pages > Cap)
        BY <2>1, DaemonAssumption DEF Calm, DInv, SweepInv
      <3> QED BY <2>1, <3>2, <3>3 DEF Met
    <2> QED BY <1>2, <2>2, <2>3, <2>4 DEF Met
  <1>3. Calm' => Calm
    BY ClockAndSize
  <1> QED BY <1>1, <1>2, <1>3 DEF OwedInv

LEMMA OwedNext ==
    /\ DInv /\ AckedUntilSwept /\ HistoryInv /\ Q!QueryInv /\ OwedInv
    /\ [SystemNext]_systemVars
    => OwedInv'
  <1> SUFFICES ASSUME DInv, AckedUntilSwept, HistoryInv, Q!QueryInv, OwedInv,
                      [SystemNext]_systemVars
               PROVE  OwedInv'
    OBVIOUS
  <1>1. CASE \E r \in Readers : AskStep(r) \/ ReaderStep(r)
    BY <1>1, OwedByAsk, OwedByRead
  <1>2. CASE BesideReaders
    BY <1>2, OwedBeside, ReadersOnlyRead
  <1>3. CASE UNCHANGED systemVars
    BY <1>3 DEF systemVars, readerVars, daemonVars, OwedInv, Met, Calm, Expired
  <1> QED BY <1>1, <1>2, <1>3, SystemKinds

(* A row that was acknowledged before a request asked for its table is in  *)
(* the database for as long as the request is served, or expires.          *)
LEMMA OwedInvariance == ASSUME ReadersFit PROVE SystemSpec => []OwedInv
  <1>1. SystemInit => OwedInv
    BY DEF SystemInit, Q!Init, OwedInv
  <1> QED BY <1>1, OwedNext, SystemIsDaemon, DaemonInvariant, AckedKept, Composed,
             ReadersInvariance, PTL DEF SystemSpec

(* An acknowledged row is found by who asks for it afterwards, through     *)
(* commits, sweeps and other readers: from the answer to the exporter to   *)
(* the answer to the reader.                                               *)
THEOREM AckedIsFound == ASSUME ReadersFit PROVE SystemSpec => []AckedFound
  <1>1. Q!Spec => []Q!StableRowsFound
    BY QueryFits, Q!StableFound DEF Q!QueryAssumption, Q!AsksAssumption
  <1>2. OwedInv /\ Q!StableRowsFound => AckedFound
    <2> SUFFICES ASSUME OwedInv, Q!StableRowsFound, Calm,
                        NEW r \in Readers, asking[r] = "done",
                        NEW x \in owed[r] \cap Q!AskedFor(r)
                 PROVE  Q!Told(r, x, Q!StatedLimit(ask[r])) \/ Expired(x)
      BY DEF AckedFound
    <2>1. Data[x].table \in Q!Tables(ask[r])
      BY DEF Q!AskedFor, Q!Tables, Q!InTable
    <2>2. Met(r, x)
      BY <2>1 DEF OwedInv
    <2> QED BY <2>2 DEF Met, Q!StableRowsFound
  <1> QED BY <1>1, <1>2, OwedInvariance, SystemIsQuery, PTL

-----------------------------------------------------------------------------
(* What an answer may show.                                                *)
LEMMA InDatabaseCommitted ==
    ASSUME DInv, NEW x \in db
    PROVE  x.by \in Attempts /\ x.grp \in Nat /\ x.grp < grp[x.by]
  <1>1. x.by \in Attempts /\ x.grp \in Groups(x.by) /\ x \in RowsOf(x.by, x.grp)
    BY DEF DInv, MineInv, OwnRows, TypeOK, StoreTypeOK, Row
  <1>2. ~ (x.grp >= grp[x.by])
    BY <1>1 DEF DInv, MineInv, Fresh, Lacks
  <1>3. x.grp \in Nat /\ grp[x.by] \in Nat
    BY <1>1, GroupFacts DEF DInv, MineInv, TypeOK
  <1> QED BY <1>1, <1>2, <1>3

(* A walk goes on to the next group, and never back.                       *)
LEMMA WalkOnward ==
    ASSUME DInv, [DaemonNext]_daemonVars, NEW h \in Attempts
    PROVE  grp[h] \in Nat /\ grp'[h] \in Nat /\ grp'[h] >= grp[h]
  <1>1. grp \in [Attempts -> Nat \ {0}] /\ grp' \in [Attempts -> Nat \ {0}]
    BY MineNext DEF DInv, MineInv, TypeOK
  <1>2. CASE IngestStep
    <2>1. [Next]_vars /\ TypeOK /\ ControlInv /\ TxInv
      BY <1>2, IngestShape DEF DInv, MineInv
    <2>2. grp'[h] = grp[h] \/ grp'[h] = grp[h] + 1
      <3>1. CASE CommitGroup(h)
        BY <1>1, <3>1 DEF CommitGroup
      <3>2. CASE ~ CommitGroup(h)
        BY <2>1, <3>2, WalkSteps
      <3> QED BY <3>1, <3>2
    <2> QED BY <1>1, <2>2
  <1>3. CASE SweeperStep
    BY <1>1, <1>3, SweeperShape
  <1>4. CASE Tick \/ UNCHANGED daemonVars
    BY <1>1, <1>4 DEF Tick, daemonVars, vars, handlerVars
  <1> QED BY <1>1, <1>2, <1>3, <1>4, DaemonKinds

ShownInv ==
    \A r \in Readers : \A x \in answer[r] :
        x.by \in Attempts /\ x.grp \in Nat /\ x.grp < grp[x.by]

LEMMA ShownNext == DInv /\ ShownInv /\ [SystemNext]_systemVars => ShownInv'
  <1> SUFFICES ASSUME DInv, ShownInv, [SystemNext]_systemVars,
                      NEW r \in Readers, NEW x \in answer'[r]
               PROVE  x.by \in Attempts /\ x.grp \in Nat /\ x.grp < grp'[x.by]
    BY DEF ShownInv
  <1>1. x \in answer[r] \/ x \in db
    <2>1. ASSUME NEW s \in Readers, Q!Select(s)
          PROVE  x \in answer[r] \/ x \in db
      <3>1. PICK V \in SUBSET db : answer' = [answer EXCEPT ![s] = @ \cup V]
        BY <2>1 DEF Q!Select, Q!OldestOf, Q!InTable
      <3> QED BY <3>1
    <2>2. ASSUME NEW s \in Readers, Q!Fails(s)
          PROVE  x \in answer[r]
      BY <2>2 DEF Q!Fails
    <2>3. ASSUME NEW s \in Readers, Q!Ask(s) \/ Q!Scan(s) \/ Q!Respond(s)
          PROVE  x \in answer[r]
      BY <2>3 DEF Q!Ask, Q!Scan, Q!Respond
    <2>4. CASE BesideReaders \/ UNCHANGED systemVars
      BY <2>4, BesideFacts DEF Forget, systemVars, readerVars
    <2> QED BY <2>1, <2>2, <2>3, <2>4, SystemKinds DEF AskStep, ReaderStep, Q!Serve
  <1>2. x.by \in Attempts /\ x.grp \in Nat /\ x.grp < grp[x.by]
    BY <1>1, InDatabaseCommitted DEF ShownInv
  <1>3. grp[x.by] \in Nat /\ grp'[x.by] \in Nat /\ grp'[x.by] >= grp[x.by]
    BY <1>2, ReadersOnlyRead, WalkOnward
  <1> QED BY <1>2, <1>3

(* No reader is shown what was rolled back, or what is not committed yet.  *)
THEOREM OnlyCommitted == SystemSpec => []CommittedShown
  <1>1. SystemInit => ShownInv
    BY DEF SystemInit, Q!Init, ShownInv
  <1>2. ShownInv => CommittedShown
    BY DEF ShownInv, CommittedShown
  <1> QED BY <1>1, <1>2, ShownNext, SystemIsDaemon, DaemonInvariant, PTL DEF SystemSpec

-----------------------------------------------------------------------------
(* The only connection of a database in memory is with a handler that has  *)
(* a step, with a reader that scans, or free: handlers, sweeper and        *)
(* readers do not wait in a ring.                                          *)
THEOREM NoRingAtAll == ASSUME ReadersFit PROVE SystemSpec => []HolderGoesOn
  <1>1. DInv /\ OneHolder /\ Q!QueryInv => HolderGoesOn
    BY HolderGoes DEF DInv, MineInv, OneHolder, Q!QueryInv, Q!OneCursor, HolderGoesOn
  <1> QED BY <1>1, SystemIsDaemon, DaemonInvariant, Composed, ReadersInvariance, PTL
=============================================================================
