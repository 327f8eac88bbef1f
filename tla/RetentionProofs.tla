---------------------------- MODULE RetentionProofs ----------------------------
(***************************************************************************)
(* Proofs about Retention, for any rows, stamps, window, cap and batch.    *)
(*                                                                         *)
(* CauseInv is what a statement of the sweeper relies on: the cutoff was   *)
(* read before now, the database was over its cap and its size never       *)
(* falls.  HistoryInv holds when a row does not come back (~ Endless): the *)
(* two sweeps have dealt with the tables behind them.                      *)
(***************************************************************************)
EXTENDS Retention, FiniteSetTheorems, TLAPS

CauseInv ==
    /\ pc = "age" => Window > 0 /\ cutoff <= now - Window
    /\ pc \in {"size", "evict"} => Cap > 0
    /\ pc = "evict" => pages > Cap

(* A pass that has deleted nothing yet has found the tables behind it      *)
(* empty of what the sweep is after.                                       *)
PassClean ==
    pc = "evict" /\ passDeleted = 0 =>
        \A r \in doomed \cap rows : \E t \in at .. 3 : r \in In(t)

HistoryInv ==
    /\ rows \subseteq used /\ due \subseteq used /\ doomed \subseteq used
    /\ pc = "age" => \A r \in due : Stamp[r] < cutoff
    /\ pc = "age" => doomed = {}
    /\ doomed # {} => pages > Cap
    /\ AgeSweepComplete
    /\ PassClean
    /\ OverCapWipesAll

LEMMA FiniteRows ==
    ASSUME NEW S, IsFiniteSet(S)
    PROVE  Cardinality(S) \in Nat /\ (Cardinality(S) = 0 <=> S = {})
  BY FS_CardinalityType, FS_EmptySet

LEMMA PagesNeverFall ==
    ASSUME NEW S, IsFiniteSet(S), NEW n \in Nat
    PROVE  PagesOf(S, n) \in Nat /\ PagesOf(S, n) >= n
  BY FiniteRows, RetentionAssumption DEF PagesOf

(* What one statement of a pass takes.                                     *)
LEMMA EvictTakes ==
    ASSUME TypeOK, NEW V \in OldestOf(In(at), Batch, Stamp)
    PROVE  /\ V \in SUBSET rows /\ Cardinality(V) \in Nat
           /\ Cardinality(V) = 0 => In(at) = {}
           /\ IsFiniteSet(rows \ V)
  <1>1. V \in SUBSET In(at) /\ In(at) \in SUBSET rows
    BY DEF OldestOf, In
  <1>2. IsFiniteSet(rows) /\ V \in SUBSET rows /\ rows \ V \in SUBSET rows
    BY <1>1 DEF TypeOK
  <1>3. IsFiniteSet(V) /\ IsFiniteSet(rows \ V)
    BY <1>2, FS_Subset
  <1>4. Cardinality(V) \in Nat /\ (Cardinality(V) = 0 <=> V = {})
    BY <1>3, FiniteRows
  <1>5. Cardinality(V) = Batch \/ V = In(at)
    BY DEF OldestOf
  <1> QED BY <1>2, <1>3, <1>4, <1>5, RetentionAssumption

(* The set of rows a commit leaves.                                        *)
LEMMA IngestFinite ==
    ASSUME TypeOK, NEW group \in Commits, Ingest(group)
    PROVE  /\ rows' = rows \cup group
           /\ rows' \in SUBSET Rows /\ IsFiniteSet(rows')
  <1>1. rows' = rows \cup group
    BY DEF Ingest
  <1>2. group \subseteq Rows /\ IsFiniteSet(group) /\ IsFiniteSet(rows)
    BY RetentionAssumption DEF TypeOK
  <1>3. IsFiniteSet(rows \cup group)
    BY <1>2, FS_Union
  <1> QED BY <1>1, <1>2, <1>3 DEF TypeOK

-----------------------------------------------------------------------------
LEMMA RetentionTypeInit == Init => TypeOK
  BY RetentionAssumption, FS_EmptySet DEF Init, TypeOK

LEMMA RetentionTypeNext == TypeOK /\ [Next]_vars => TypeOK'
  <1> SUFFICES ASSUME TypeOK, [Next]_vars
               PROVE  TypeOK'
    OBVIOUS
  <1> USE RetentionAssumption
  <1>1. ASSUME NEW group \in Commits, Ingest(group)
        PROVE  TypeOK'
    <2>1. rows' \in SUBSET Rows /\ IsFiniteSet(rows')
      BY <1>1, IngestFinite
    <2>2. /\ pages' = PagesOf(rows', pages)
          /\ used' \in SUBSET Rows
          /\ UNCHANGED <<now, pc, at, cutoff, passDeleted, errors, due, doomed>>
      BY <1>1 DEF Ingest, TypeOK, sweepVars
    <2>3. pages' \in Nat
      BY <2>1, <2>2, PagesNeverFall DEF TypeOK
    <2> QED BY <2>1, <2>2, <2>3 DEF TypeOK
  <1>2. CASE Tick
    BY <1>2 DEF Tick, TypeOK, sweepVars
  <1>3. CASE StartSweep
    BY <1>3 DEF StartSweep, TypeOK
  <1>4. CASE DeleteBefore
    <2>1. rows' \in SUBSET rows
      BY <1>4 DEF DeleteBefore
    <2>2. rows' \in SUBSET Rows /\ IsFiniteSet(rows')
      BY <2>1, FS_Subset DEF TypeOK
    <2> QED BY <1>4, <2>2 DEF DeleteBefore, AfterAge, TypeOK
  <1>5. CASE DeleteBeforeFails
    BY <1>5 DEF DeleteBeforeFails, AfterAge, TypeOK
  <1>6. CASE CheckSize
    BY <1>6 DEF CheckSize, TypeOK
  <1>7. CASE Evict
    <2>1. PICK V \in OldestOf(In(at), Batch, Stamp) :
            rows' = rows \ V /\ passDeleted' = passDeleted + Cardinality(V)
      BY <1>7 DEF Evict
    <2>2. rows' \in SUBSET Rows /\ IsFiniteSet(rows') /\ passDeleted' \in Nat
      BY <2>1, EvictTakes DEF TypeOK
    <2>3. /\ pc' \in {"idle", "size", "evict"} /\ at' \in 1 .. 3
          /\ UNCHANGED <<pages, now, cutoff, errors, used, due, doomed>>
      BY <1>7 DEF Evict, TypeOK
    <2> QED BY <2>2, <2>3 DEF TypeOK
  <1>8. CASE EnforceFails
    BY <1>8 DEF EnforceFails, TypeOK
  <1>9. CASE UNCHANGED vars
    BY <1>9 DEF vars, sweepVars, TypeOK
  <1> QED BY <1>1, <1>2, <1>3, <1>4, <1>5, <1>6, <1>7, <1>8, <1>9 DEF Next, Sweeper

(* The variables keep their types, however many rows there may be.         *)
THEOREM RetentionType == SafeSpec => []TypeOK
  BY RetentionTypeInit, RetentionTypeNext, PTL DEF SafeSpec

-----------------------------------------------------------------------------
LEMMA CauseNext == TypeOK /\ CauseInv /\ [Next]_vars => CauseInv'
  <1> SUFFICES ASSUME TypeOK, CauseInv, [Next]_vars
               PROVE  CauseInv'
    OBVIOUS
  <1> USE RetentionAssumption
  <1>1. ASSUME NEW group \in Commits, Ingest(group)
        PROVE  CauseInv'
    <2>1. pages' = PagesOf(rows', pages) /\ UNCHANGED <<now, pc, cutoff>>
      BY <1>1 DEF Ingest, sweepVars
    <2>2. pages' \in Nat /\ pages' >= pages
      BY <1>1, <2>1, IngestFinite, PagesNeverFall DEF TypeOK
    <2> QED BY <2>1, <2>2 DEF CauseInv, TypeOK
  <1>2. CASE Tick
    BY <1>2 DEF Tick, CauseInv, TypeOK, sweepVars
  <1>3. CASE StartSweep
    BY <1>3 DEF StartSweep, CauseInv, TypeOK
  <1>4. CASE DeleteBefore
    BY <1>4 DEF DeleteBefore, AfterAge, CauseInv, TypeOK
  <1>5. CASE DeleteBeforeFails
    BY <1>5 DEF DeleteBeforeFails, AfterAge, CauseInv, TypeOK
  <1>6. CASE CheckSize
    BY <1>6 DEF CheckSize, CauseInv, TypeOK
  <1>7. CASE Evict
    <2>1. /\ pc = "evict" /\ UNCHANGED <<pages, now, cutoff>>
          /\ pc' \in {"idle", "size", "evict"}
      BY <1>7 DEF Evict
    <2> QED BY <2>1 DEF CauseInv
  <1>8. CASE EnforceFails
    BY <1>8 DEF EnforceFails, CauseInv
  <1>9. CASE UNCHANGED vars
    BY <1>9 DEF vars, sweepVars, CauseInv
  <1> QED BY <1>1, <1>2, <1>3, <1>4, <1>5, <1>6, <1>7, <1>8, <1>9 DEF Next, Sweeper

(* A statement of the sweeper never runs without its cause.                *)
THEOREM SweeperHasCause == SafeSpec => [](TypeOK /\ CauseInv)
  <1>1. Init => TypeOK /\ CauseInv
    BY RetentionTypeInit DEF Init, CauseInv
  <1>2. TypeOK /\ CauseInv /\ [Next]_vars => TypeOK' /\ CauseInv'
    BY RetentionTypeNext, CauseNext
  <1> QED BY <1>1, <1>2, PTL DEF SafeSpec

LEMMA CauseStep ==
    ASSUME TypeOK, CauseInv, [Next]_vars, NEW r \in rows \ rows'
    PROVE  \/ Window > 0 /\ Stamp[r] + Window < now
           \/ Cap > 0 /\ pages > Cap
  <1>1. CASE DeleteBefore
    <2>1. Window > 0 /\ cutoff <= now - Window /\ Stamp[r] < cutoff
      BY <1>1 DEF DeleteBefore, CauseInv
    <2>2. r \in Rows
      BY DEF TypeOK
    <2> QED BY <2>1, <2>2, RetentionAssumption DEF TypeOK
  <1>2. CASE Evict
    BY <1>2 DEF Evict, CauseInv
  <1>3. CASE ~ DeleteBefore /\ ~ Evict
    BY <1>3 DEF Next, Sweeper, Ingest, Tick, StartSweep, DeleteBeforeFails,
                CheckSize, EnforceFails, vars
  <1> QED BY <1>1, <1>2, <1>3

(* No row is lost to the sweeper before its time, whatever the client's    *)
(* clock says and whatever is inserted between two statements.             *)
THEOREM LostForCause == SafeSpec => DeletedForCause
  <1>1. TypeOK /\ CauseInv /\ [Next]_vars =>
          [ \A r \in rows \ rows' :
              \/ Window > 0 /\ Stamp[r] + Window < now
              \/ Cap > 0 /\ pages > Cap ]_vars
    BY CauseStep
  <1> QED BY <1>1, SweeperHasCause, PTL DEF SafeSpec, DeletedForCause

-----------------------------------------------------------------------------
(* What the tables look like from outside: to the handlers that read them. *)

(* A whole group that was not there comes in.                              *)
GroupComes ==
    \E group \in Commits : group \cap rows = {} /\ rows' = rows \cup group

(* Some rows of one table go, and what stays of it is not older.           *)
OldestGo ==
    \E t \in 1 .. 3 : \E n \in 1 .. Cardinality(In(t)) :
        \E V \in OldestOf(In(t), n, Stamp) : rows' = rows \ V

(* Any oldest rows of a table are as many oldest ones as they are.         *)
LEMMA SomeOldest ==
    ASSUME TypeOK, NEW V \in SUBSET In(at), rows' = rows \ V,
           \A v \in V, w \in In(at) \ V : Stamp[v] <= Stamp[w]
    PROVE  rows' = rows \/ OldestGo
  <1>1. /\ IsFiniteSet(In(at)) /\ IsFiniteSet(V)
        /\ Cardinality(V) <= Cardinality(In(at))
    <2>1. In(at) \in SUBSET rows /\ IsFiniteSet(rows)
      BY DEF In, TypeOK
    <2>2. IsFiniteSet(In(at))
      BY <2>1, FS_Subset
    <2> QED BY <2>2, FS_Subset
  <1>2. /\ Cardinality(V) \in Nat /\ (Cardinality(V) = 0 <=> V = {})
        /\ Cardinality(In(at)) \in Nat
    BY <1>1, FiniteRows
  <1>3. V \in OldestOf(In(at), Cardinality(V), Stamp)
    BY DEF OldestOf
  <1>4. CASE V = {}
    BY <1>4
  <1>5. CASE V # {}
    <2>1. Cardinality(V) \in 1 .. Cardinality(In(at)) /\ at \in 1 .. 3
      BY <1>1, <1>2, <1>5 DEF TypeOK
    <2> QED BY <2>1, <1>3 DEF OldestGo
  <1> QED BY <1>4, <1>5

LEMMA OutsideStep ==
    ASSUME TypeOK, [Next]_vars
    PROVE  rows' = rows \/ GroupComes \/ OldestGo
  <1>1. ASSUME NEW group \in Commits, Ingest(group)
        PROVE  GroupComes
    BY <1>1 DEF Ingest, GroupComes
  <1>2. CASE DeleteBefore
    <2> DEFINE V == { r \in In(at) : Stamp[r] < cutoff }
    <2>1. rows' = rows \ V /\ V \in SUBSET In(at)
      BY <1>2 DEF DeleteBefore
    <2>2. \A r \in In(at) : Stamp[r] \in Int /\ cutoff \in Int
      BY RetentionAssumption DEF In, TypeOK
    <2>3. \A v \in V, w \in In(at) \ V : Stamp[v] <= Stamp[w]
      BY <2>2
    <2> HIDE DEF V
    <2> QED BY <2>1, <2>3, SomeOldest
  <1>3. CASE Evict
    <2>1. PICK V \in OldestOf(In(at), Batch, Stamp) : rows' = rows \ V
      BY <1>3 DEF Evict
    <2>2. /\ V \in SUBSET In(at)
          /\ \A v \in V, w \in In(at) \ V : Stamp[v] <= Stamp[w]
      BY DEF OldestOf
    <2> QED BY <2>1, <2>2, SomeOldest
  <1>4. CASE \/ Tick \/ StartSweep \/ DeleteBeforeFails \/ CheckSize
             \/ EnforceFails \/ UNCHANGED vars
    BY <1>4 DEF Tick, StartSweep, DeleteBeforeFails, CheckSize, EnforceFails, vars
  <1> QED BY <1>1, <1>2, <1>3, <1>4 DEF Next, Sweeper

(* Whatever its stamps, its window and its cap, and wherever a sweep was   *)
(* interrupted: what is deleted is the oldest of one table, at every       *)
(* statement.  This is what Query assumes of the database it reads.        *)
THEOREM OldestFirst == SafeSpec => [][GroupComes \/ OldestGo]_rows
  <1>1. TypeOK /\ [Next]_vars => [GroupComes \/ OldestGo]_rows
    BY OutsideStep
  <1> QED BY <1>1, RetentionType, PTL DEF SafeSpec

-----------------------------------------------------------------------------
(* What is left of a sweep.                                                *)

(* The numbers of rows before and after a DELETE or an INSERT.             *)
LEMMA CountRows ==
    ASSUME NEW S, IsFiniteSet(S), NEW T \in SUBSET S
    PROVE  /\ Cardinality(S) \in Nat /\ Cardinality(T) \in Nat
           /\ Cardinality(S \ T) \in Nat
           /\ Cardinality(S \ T) = Cardinality(S) - Cardinality(T)
  <1>1. S \cap T = T /\ IsFiniteSet(T) /\ IsFiniteSet(S \ T)
    BY FS_Subset
  <1>2. Cardinality(S \ T) = Cardinality(S) - Cardinality(S \cap T)
    BY <1>1, FS_Difference
  <1> QED BY <1>1, <1>2, FiniteRows

(* A number of statements, and at least one while the sweep is under way.  *)
LEMMA LeftIsNat ==
    ASSUME TypeOK
    PROVE  /\ LeftOfSize \in Nat /\ LeftOfSweep \in Nat
           /\ pc \in {"age", "evict"} => LeftOfSweep > 0
           /\ pc = "size" /\ Cap > 0 => LeftOfSweep > 0
  <1>1. Cardinality(rows) \in Nat /\ Cap \in Nat
    BY FiniteRows, RetentionAssumption DEF TypeOK
  <1>2. LeftOfSize \in Nat /\ (Cap > 0 => LeftOfSize > 0)
    BY <1>1 DEF LeftOfSize
  <1>3. 4 - at \in Nat /\ 4 - at > 0
    BY DEF TypeOK
  <1>4. CASE pc = "idle"
    BY <1>2, <1>4 DEF LeftOfSweep
  <1>5. CASE pc = "age"
    BY <1>2, <1>3, <1>5 DEF LeftOfSweep
  <1>6. CASE pc = "size"
    BY <1>2, <1>6 DEF LeftOfSweep
  <1>7. CASE pc = "evict"
    BY <1>1, <1>2, <1>3, <1>7 DEF LeftOfSweep
  <1> QED BY <1>4, <1>5, <1>6, <1>7 DEF TypeOK

(* A DELETE of the age sweep is followed by one statement less.            *)
LEMMA DeleteRunsDown ==
    ASSUME TypeOK, DeleteBefore
    PROVE  LeftOfSweep' < LeftOfSweep
  <1> DEFINE gone == { r \in In(at) : Stamp[r] < cutoff }
             n == Cardinality(rows)
             m == Cardinality(rows')
  <1>1. gone \in SUBSET rows /\ IsFiniteSet(rows) /\ rows' = rows \ gone
    BY DEF In, TypeOK, DeleteBefore
  <1> HIDE DEF gone
  <1>2. n \in Nat /\ m \in Nat /\ m <= n
    <2>1. /\ n \in Nat /\ Cardinality(gone) \in Nat
          /\ Cardinality(rows \ gone) \in Nat
          /\ Cardinality(rows \ gone) = n - Cardinality(gone)
      BY <1>1, CountRows
    <2>2. m = Cardinality(rows \ gone)
      BY <1>1
    <2> HIDE DEF n, m
    <2> QED BY <2>1, <2>2
  <1>3. /\ pc = "age" /\ at \in 1 .. 3
        /\ \/ at < 3 /\ at' = at + 1 /\ pc' = "age"
           \/ at = 3 /\ pc' = IF Cap > 0 THEN "size" ELSE "idle"
    BY DEF DeleteBefore, AfterAge, TypeOK
  <1> HIDE DEF n, m
  <1>4. /\ LeftOfSize = IF Cap > 0 THEN 4 * n + 4 ELSE 0
        /\ LeftOfSize' = IF Cap > 0 THEN 4 * m + 4 ELSE 0
    BY DEF LeftOfSize, n, m
  <1>5. LeftOfSize \in Nat /\ LeftOfSize' \in Nat /\ LeftOfSize' <= LeftOfSize
    BY <1>2, <1>4
  <1>6. LeftOfSweep = (4 - at) + LeftOfSize
    BY <1>3 DEF LeftOfSweep
  <1>7. CASE at < 3
    <2>1. LeftOfSweep' = (4 - at') + LeftOfSize'
      BY <1>3, <1>7 DEF LeftOfSweep
    <2>2. 4 - at' = 3 - at /\ 4 - at \in Nat /\ 3 - at \in Nat /\ 3 - at < 4 - at
      BY <1>3, <1>7
    <2>3. LeftOfSweep' = (3 - at) + LeftOfSize'
      BY <2>1, <2>2
    <2> QED BY <1>5, <1>6, <2>2, <2>3
  <1>8. CASE at = 3
    <2>1. LeftOfSweep' <= LeftOfSize'
      BY <1>3, <1>4, <1>5, <1>8 DEF LeftOfSweep
    <2>2. LeftOfSweep' \in {0, LeftOfSize'}
      BY <1>3, <1>8 DEF LeftOfSweep
    <2> QED BY <1>3, <1>5, <1>6, <1>8, <2>1, <2>2
  <1> QED BY <1>3, <1>7, <1>8

(* The head of the loop opens a pass of three statements or ends the sweep. *)
LEMMA CheckRunsDown ==
    ASSUME TypeOK, CauseInv, CheckSize
    PROVE  LeftOfSweep' < LeftOfSweep
  <1> DEFINE n == Cardinality(rows)
  <1>1. n \in Nat
    BY FiniteRows DEF TypeOK
  <1>2. /\ pc = "size" /\ Cap > 0 /\ rows' = rows
        /\ \/ pc' = "idle"
           \/ pc' = "evict" /\ at' = 1 /\ passDeleted' = 0
    BY DEF CheckSize, CauseInv
  <1>3. n' = n
    BY <1>2
  <1> HIDE DEF n
  <1>4. LeftOfSweep = 4 * n + 4
    BY <1>2 DEF LeftOfSweep, LeftOfSize, n
  <1>5. CASE pc' = "idle"
    <2>1. LeftOfSweep' = 0
      BY <1>5 DEF LeftOfSweep
    <2> QED BY <1>1, <1>4, <2>1
  <1>6. CASE pc' = "evict" /\ at' = 1 /\ passDeleted' = 0
    <2>1. LeftOfSweep' = 3 + 4 * n
      BY <1>3, <1>6 DEF LeftOfSweep, n
    <2> QED BY <1>1, <1>4, <2>1
  <1> QED BY <1>2, <1>5, <1>6

(* One DELETE of a pass: it takes a row, which pays for another pass, or   *)
(* nothing, and then the count of the pass is what it was.                 *)
LEMMA EvictRunsDown ==
    ASSUME TypeOK, CauseInv, Evict
    PROVE  LeftOfSweep' < LeftOfSweep
  <1>1. PICK V \in OldestOf(In(at), Batch, Stamp) :
          rows' = rows \ V /\ passDeleted' = passDeleted + Cardinality(V)
    BY DEF Evict
  <1> DEFINE n == Cardinality(rows)
             m == Cardinality(rows')
             v == Cardinality(V)
  <1>2. V \in SUBSET rows /\ IsFiniteSet(rows)
    BY DEF OldestOf, In, TypeOK
  <1>3. n \in Nat /\ m \in Nat /\ v \in Nat /\ m = n - v
    BY <1>1, <1>2, CountRows
  <1>4. /\ pc = "evict" /\ Cap > 0 /\ at \in 1 .. 3 /\ passDeleted \in Nat
        /\ \/ at < 3 /\ at' = at + 1 /\ pc' = "evict"
           \/ at = 3 /\ at' = 1 /\ pc' = IF passDeleted' = 0 THEN "idle" ELSE "size"
    BY DEF Evict, TypeOK, CauseInv
  <1> HIDE DEF n, m, v
  <1>5. passDeleted' = passDeleted + v
    BY <1>1 DEF v
  <1>6. LeftOfSweep = (4 - at) + IF passDeleted > 0 THEN 4 * n + 4 ELSE 4 * n
    BY <1>4 DEF LeftOfSweep, n
  <1>7. CASE at < 3
    <2>1. LeftOfSweep' = (3 - at) + IF passDeleted' > 0 THEN 4 * m + 4 ELSE 4 * m
      <3>1. LeftOfSweep' = (4 - at') + IF passDeleted' > 0 THEN 4 * m + 4 ELSE 4 * m
        BY <1>4, <1>7 DEF LeftOfSweep, m
      <3>2. 4 - at' = 3 - at
        BY <1>4, <1>7
      <3> QED BY <3>1, <3>2
    <2>2. CASE v = 0
      BY <1>3, <1>4, <1>5, <1>6, <2>1, <2>2
    <2>3. CASE v > 0
      BY <1>3, <1>4, <1>5, <1>6, <2>1, <2>3
    <2> QED BY <1>3, <2>2, <2>3
  <1>8. CASE at = 3
    <2>1. CASE passDeleted' = 0
      <3>1. LeftOfSweep' = 0
        BY <1>4, <1>8, <2>1 DEF LeftOfSweep
      <3> QED BY <1>3, <1>4, <1>6, <1>8, <3>1
    <2>2. CASE passDeleted' # 0
      <3>1. LeftOfSweep' = 4 * m + 4
        BY <1>4, <1>8, <2>2 DEF LeftOfSweep, LeftOfSize, m
      <3>2. passDeleted > 0 \/ v > 0
        BY <1>3, <1>4, <1>5, <2>2
      <3>3. CASE passDeleted > 0
        BY <1>3, <1>4, <1>6, <1>8, <3>1, <3>3
      <3>4. CASE v > 0
        BY <1>3, <1>4, <1>6, <1>8, <3>1, <3>4
      <3> QED BY <3>2, <3>3, <3>4
    <2> QED BY <2>1, <2>2
  <1> QED BY <1>4, <1>7, <1>8

(* A commit prolongs a sweep by at most one pass for each of its rows.     *)
LEMMA IngestProlongs ==
    ASSUME TypeOK, UNCHANGED sweepVars, rows \subseteq rows', IsFiniteSet(rows')
    PROVE  LeftOfSweep' <= LeftOfSweep + 4 * Cardinality(rows' \ rows)
  <1> DEFINE n == Cardinality(rows)
             m == Cardinality(rows')
             v == Cardinality(rows' \ rows)
  <1>1. n \in Nat /\ m \in Nat /\ v \in Nat /\ m = n + v
    BY CountRows
  <1>2. pc' = pc /\ at' = at /\ passDeleted' = passDeleted /\ at \in 1 .. 3
    BY DEF sweepVars, TypeOK
  <1> HIDE DEF n, m, v
  <1>3. /\ LeftOfSize = IF Cap > 0 THEN 4 * n + 4 ELSE 0
        /\ LeftOfSize' = IF Cap > 0 THEN 4 * m + 4 ELSE 0
    BY DEF LeftOfSize, n, m
  <1>4. /\ LeftOfSize \in Nat /\ LeftOfSize' \in Nat
        /\ LeftOfSize' <= LeftOfSize + 4 * v
    BY <1>1, <1>3
  <1>5. CASE pc = "idle"
    BY <1>1, <1>2, <1>5 DEF LeftOfSweep, v
  <1>6. CASE pc = "age"
    <2>1. LeftOfSweep = (4 - at) + LeftOfSize /\ LeftOfSweep' = (4 - at) + LeftOfSize'
      BY <1>2, <1>6 DEF LeftOfSweep
    <2>2. 4 - at \in Nat
      BY <1>2
    <2>3. LeftOfSweep' <= LeftOfSweep + 4 * v
      BY <1>1, <1>4, <2>1, <2>2
    <2> QED BY <2>3 DEF v
  <1>7. CASE pc = "size"
    <2>1. LeftOfSweep = LeftOfSize /\ LeftOfSweep' = LeftOfSize'
      BY <1>2, <1>7 DEF LeftOfSweep
    <2> QED BY <1>4, <2>1 DEF v
  <1>8. CASE pc = "evict"
    <2>1. /\ LeftOfSweep = (4 - at) + IF passDeleted > 0 THEN 4 * n + 4 ELSE 4 * n
          /\ LeftOfSweep' = (4 - at) + IF passDeleted > 0 THEN 4 * m + 4 ELSE 4 * m
      BY <1>2, <1>8 DEF LeftOfSweep, n, m
    <2>2. LeftOfSweep' <= LeftOfSweep + 4 * v
      BY <1>1, <1>2, <2>1
    <2> QED BY <2>2 DEF v
  <1> QED BY <1>5, <1>6, <1>7, <1>8 DEF TypeOK

RunsDown ==
    \/ pc = "idle"
    \/ LeftOfSweep' < LeftOfSweep
    \/ /\ UNCHANGED sweepVars /\ rows \subseteq rows'
       /\ LeftOfSweep' <= LeftOfSweep + 4 * Cardinality(rows' \ rows)

LEMMA RunsDownStep ==
    ASSUME TypeOK, CauseInv, [Next]_vars
    PROVE  RunsDown
  <1>1. CASE StartSweep
    BY <1>1 DEF StartSweep, RunsDown
  <1>2. CASE DeleteBefore
    BY <1>2, DeleteRunsDown DEF RunsDown
  <1>3. CASE CheckSize
    BY <1>3, CheckRunsDown DEF RunsDown
  <1>4. CASE Evict
    BY <1>4, EvictRunsDown DEF RunsDown
  <1>5. CASE EnforceFails
    <2>1. LeftOfSweep' = 0 /\ LeftOfSweep \in Nat /\ LeftOfSweep > 0
      BY <1>5, LeftIsNat DEF EnforceFails, LeftOfSweep, CauseInv
    <2> QED BY <2>1 DEF RunsDown
  <1>6. CASE DeleteBeforeFails
    <2>1. /\ pc = "age" /\ at \in 1 .. 3 /\ rows' = rows
          /\ pc' = IF Cap > 0 THEN "size" ELSE "idle"
      BY <1>6 DEF DeleteBeforeFails, AfterAge, TypeOK
    <2>2. LeftOfSize' = LeftOfSize /\ LeftOfSize \in Nat
      BY <2>1, LeftIsNat DEF LeftOfSize
    <2>3. LeftOfSweep' \in {0, LeftOfSize} /\ LeftOfSweep = (4 - at) + LeftOfSize
      BY <2>1, <2>2 DEF LeftOfSweep
    <2>4. LeftOfSweep' < LeftOfSweep
      BY <2>1, <2>2, <2>3
    <2> QED BY <2>4 DEF RunsDown
  <1>7. CASE Tick \/ UNCHANGED vars \/ \E group \in Commits : Ingest(group)
    <2>1. UNCHANGED sweepVars /\ rows \subseteq rows'
      BY <1>7 DEF Tick, Ingest, vars
    <2>2. IsFiniteSet(rows')
      BY <1>7, IngestFinite DEF Tick, vars, TypeOK
    <2> QED BY <2>1, <2>2, IngestProlongs DEF RunsDown
  <1> QED BY <1>1, <1>2, <1>3, <1>4, <1>5, <1>6, <1>7 DEF Next, Sweeper

(* A sweep is never further from its end than its rows can justify, and    *)
(* only a commit sets it back: why it ends as soon as ingest pauses, and   *)
(* by how much one row more prolongs it.                                   *)
THEOREM RunsDownAlways == SafeSpec => SweepRunsDown
  <1>1. TypeOK /\ CauseInv /\ [Next]_vars => [RunsDown]_vars
    BY RunsDownStep
  <1>2. SweepRunsDown <=> [][RunsDown]_vars
    BY DEF SweepRunsDown, RunsDown
  <1> QED BY <1>1, <1>2, SweeperHasCause, PTL DEF SafeSpec

-----------------------------------------------------------------------------
(* A row that is in one of the tables behind t is in one from t on.        *)
LEMMA SomeTable ==
    ASSUME NEW r \in rows, TypeOK
    PROVE  \E t \in 1 .. 3 : r \in In(t)
  <1>1. /\ 1 \in 1 .. 3 /\ Tables[1] = "spans"
        /\ 2 \in 1 .. 3 /\ Tables[2] = "logs"
        /\ 3 \in 1 .. 3 /\ Tables[3] = "metrics"
    BY DEF Tables
  <1>2. TableOf[r] \in {"spans", "logs", "metrics"}
    BY RetentionAssumption DEF TypeOK
  <1>3. \E t \in 1 .. 3 : TableOf[r] = Tables[t]
    BY <1>1, <1>2
  <1> QED BY <1>3 DEF In

(* What holds of the rows an unfinished sweep is after still holds when    *)
(* other rows come or some go, and nothing else of the sweep changes.      *)
LEMMA HistoryKept ==
    ASSUME TypeOK, HistoryInv,
           UNCHANGED <<pc, at, cutoff, passDeleted, due, doomed>>,
           used \subseteq used', rows' \subseteq used',
           \A r \in rows' : r \in rows \/ r \notin used,
           pages' \in Nat, pages' >= pages
    PROVE  HistoryInv'
  <1>1. \A r \in rows' : r \in due \cup doomed => r \in rows
    BY DEF HistoryInv
  <1>2. \A r \in rows, t \in 1 .. 3 : r \in rows' => (r \in In(t) <=> r \in In(t)')
    BY DEF In
  <1>3. \A t \in at .. 3 : t \in 1 .. 3
    BY DEF TypeOK
  <1>4. AgeSweepComplete'
    BY <1>1, <1>2, <1>3 DEF HistoryInv, AgeSweepComplete
  <1>5. PassClean'
    BY <1>1, <1>2, <1>3 DEF HistoryInv, PassClean
  <1>6. OverCapWipesAll'
    BY <1>1 DEF HistoryInv, OverCapWipesAll
  <1>7. doomed' # {} => pages' > Cap'
    BY RetentionAssumption DEF HistoryInv, TypeOK
  <1>8. /\ rows' \subseteq used' /\ due' \subseteq used' /\ doomed' \subseteq used'
        /\ pc' = "age" => \A r \in due' : Stamp[r] < cutoff'
        /\ pc' = "age" => doomed' = {}
    BY DEF HistoryInv
  <1> QED BY <1>4, <1>5, <1>6, <1>7, <1>8 DEF HistoryInv

(* One DELETE of the age sweep.                                            *)
LEMMA HistoryDelete ==
    ASSUME TypeOK, HistoryInv, DeleteBefore
    PROVE  HistoryInv'
  <1>1. /\ pc = "age" /\ at \in 1 .. 3 /\ doomed = {}
        /\ rows' = rows \ { r \in In(at) : Stamp[r] < cutoff }
        /\ UNCHANGED <<pages, due, used, doomed>>
        /\ \/ at < 3 /\ at' = at + 1 /\ UNCHANGED <<pc, cutoff>>
           \/ at = 3 /\ pc' \in {"size", "idle"}
    BY DEF DeleteBefore, AfterAge, HistoryInv, TypeOK
  <1>2. ASSUME NEW r \in due \cap rows'
        PROVE  r \in rows /\ \E t \in at .. 3 : t # at /\ r \in In(t)
    <2>1. r \in rows /\ r \notin In(at)
      BY <1>1, <1>2 DEF HistoryInv
    <2>2. PICK t \in at .. 3 : r \in In(t)
      BY <1>1, <1>2, <2>1 DEF HistoryInv, AgeSweepComplete
    <2> QED BY <2>1, <2>2
  <1>3. AgeSweepComplete'
    <2>1. CASE at < 3
      <3>1. pc' = "age" /\ at' = at + 1 /\ due' = due
        BY <1>1, <2>1
      <3>2. ASSUME NEW r \in due \cap rows'
            PROVE  \E t \in at' .. 3 : r \in In(t)'
        <4>1. PICK t \in at .. 3 : t # at /\ r \in In(t)
          BY <1>2, <3>2
        <4>2. t \in at' .. 3
          BY <3>1, <4>1, <1>1
        <4>3. r \in In(t)'
          BY <4>1, <3>2 DEF In
        <4> QED BY <4>2, <4>3
      <3> QED BY <3>1, <3>2 DEF AgeSweepComplete
    <2>2. CASE at = 3
      <3>1. pc' # "age"
        BY <1>1, <2>2
      <3>2. due \cap rows' = {}
        BY <1>2, <2>2
      <3> QED BY <3>1, <3>2, <1>1 DEF AgeSweepComplete
    <2> QED BY <2>1, <2>2, <1>1
  <1>4. PassClean' /\ OverCapWipesAll'
    BY <1>1 DEF PassClean, OverCapWipesAll
  <1>5. pc' = "age" => \A r \in due' : Stamp[r] < cutoff'
    BY <1>1 DEF HistoryInv
  <1> QED BY <1>1, <1>3, <1>4, <1>5 DEF HistoryInv

(* One DELETE of the size sweep: a pass that has deleted nothing when it   *)
(* is done has found nothing in any table.                                 *)
LEMMA HistoryEvict ==
    ASSUME TypeOK, HistoryInv, Evict
    PROVE  HistoryInv'
  <1>1. PICK V \in OldestOf(In(at), Batch, Stamp) :
          rows' = rows \ V /\ passDeleted' = passDeleted + Cardinality(V)
    BY DEF Evict
  <1>2. /\ pc = "evict" /\ at \in 1 .. 3 /\ passDeleted \in Nat
        /\ UNCHANGED <<pages, cutoff, due, used, doomed>>
        /\ \/ at < 3 /\ at' = at + 1 /\ pc' = pc
           \/ at = 3 /\ at' = 1 /\ pc' = IF passDeleted' = 0 THEN "idle" ELSE "size"
    BY DEF Evict, TypeOK
  <1>3. /\ Cardinality(V) \in Nat
        /\ Cardinality(V) = 0 => In(at) = {}
    BY <1>1, EvictTakes
  <1>4. passDeleted' = 0 => passDeleted = 0 /\ In(at) = {}
    BY <1>1, <1>2, <1>3
  <1>5. ASSUME passDeleted' = 0, NEW r \in doomed \cap rows'
        PROVE  \E t \in at .. 3 : t # at /\ r \in In(t)
    <2>1. passDeleted = 0 /\ In(at) = {} /\ r \in rows
      BY <1>1, <1>4, <1>5
    <2>2. PICK t \in at .. 3 : r \in In(t)
      BY <1>2, <1>5, <2>1 DEF HistoryInv, PassClean
    <2> QED BY <2>1, <2>2
  <1>6. PassClean'
    <2> SUFFICES ASSUME pc' = "evict", passDeleted' = 0, NEW r \in doomed \cap rows'
                 PROVE  \E t \in at' .. 3 : r \in In(t)'
      BY <1>2 DEF PassClean
    <2>1. PICK t \in at .. 3 : t # at /\ r \in In(t)
      BY <1>5
    <2>2. at' = at + 1
      BY <1>2
    <2>3. t \in at' .. 3
      BY <2>1, <2>2, <1>2
    <2>4. r \in In(t)'
      BY <2>1 DEF In
    <2> QED BY <2>3, <2>4
  <1>7. OverCapWipesAll'
    <2> SUFFICES ASSUME pc' = "idle"
                 PROVE  doomed \cap rows' = {}
      BY <1>2 DEF OverCapWipesAll
    <2>1. at = 3 /\ passDeleted' = 0
      BY <1>2
    <2>2. \A t \in 3 .. 3 : t = 3
      OBVIOUS
    <2> QED BY <1>5, <2>1, <2>2
  <1>8. AgeSweepComplete'
    <2>1. due \cap rows = {} /\ pc' # "age"
      BY <1>2 DEF HistoryInv, AgeSweepComplete
    <2> QED BY <2>1, <1>1, <1>2 DEF AgeSweepComplete
  <1>9. /\ rows' \subseteq used' /\ due' \subseteq used' /\ doomed' \subseteq used'
        /\ pc' # "age"
        /\ doomed' # {} => pages' > Cap
    BY <1>1, <1>2 DEF HistoryInv
  <1> QED BY <1>6, <1>7, <1>8, <1>9 DEF HistoryInv

LEMMA HistoryNext ==
    ASSUME ~ Endless, TypeOK, HistoryInv, [Next]_vars
    PROVE  HistoryInv'
  <1>1. ASSUME NEW group \in Commits, Ingest(group)
        PROVE  HistoryInv'
    <2>1. /\ group \cap (rows \cup used) = {}
          /\ rows' = rows \cup group /\ used' = used \cup group
          /\ pages' = PagesOf(rows', pages)
          /\ UNCHANGED <<pc, at, cutoff, passDeleted, due, doomed>>
      BY <1>1 DEF Ingest, sweepVars
    <2>2. IsFiniteSet(rows')
      BY <1>1, IngestFinite
    <2>3. pages' \in Nat /\ pages' >= pages
      BY <2>1, <2>2, PagesNeverFall DEF TypeOK
    <2>4. /\ used \subseteq used' /\ rows' \subseteq used'
          /\ \A r \in rows' : r \in rows \/ r \notin used
      BY <2>1 DEF HistoryInv
    <2> QED BY <2>1, <2>3, <2>4, HistoryKept
  <1>2. CASE Tick
    <2>1. UNCHANGED <<rows, pages, used, pc, at, cutoff, passDeleted, due, doomed>>
      BY <1>2 DEF Tick, sweepVars
    <2>2. /\ used \subseteq used' /\ rows' \subseteq used'
          /\ \A r \in rows' : r \in rows \/ r \notin used
          /\ pages' \in Nat /\ pages' >= pages
      BY <2>1 DEF HistoryInv, TypeOK
    <2> QED BY <2>1, <2>2, HistoryKept
  <1>3. CASE StartSweep
    <2>1. /\ pc = "idle" /\ doomed' = {} /\ UNCHANGED <<rows, pages, used>>
          /\ \/ /\ pc' = "age" /\ at' = 1 /\ cutoff' = now - Window
                /\ due' = { r \in rows : Stamp[r] < now - Window }
             \/ pc' = "size" /\ due' = due
      BY <1>3 DEF StartSweep
    <2>2. AgeSweepComplete'
      <3>1. CASE pc' = "age"
        <4>1. \A r \in rows' : \E t \in 1 .. 3 : r \in In(t)'
          BY <2>1, SomeTable DEF In
        <4> QED BY <2>1, <3>1, <4>1 DEF AgeSweepComplete
      <3>2. CASE pc' = "size"
        BY <2>1, <3>2 DEF AgeSweepComplete, HistoryInv
      <3> QED BY <2>1, <3>1, <3>2
    <2>3. PassClean' /\ OverCapWipesAll'
      BY <2>1 DEF PassClean, OverCapWipesAll
    <2>4. /\ rows' \subseteq used' /\ due' \subseteq used' /\ doomed' \subseteq used'
          /\ pc' = "age" => \A r \in due' : Stamp[r] < cutoff'
      BY <2>1 DEF HistoryInv
    <2> QED BY <2>1, <2>2, <2>3, <2>4 DEF HistoryInv
  <1>4. CASE DeleteBefore
    BY <1>4, HistoryDelete
  <1>5. CASE DeleteBeforeFails
    <2>1. /\ pc' \in {"size", "idle"} /\ due' = {} /\ doomed = {}
          /\ UNCHANGED <<rows, pages, used, doomed>>
      BY <1>5 DEF DeleteBeforeFails, AfterAge, HistoryInv
    <2> QED BY <2>1 DEF HistoryInv, AgeSweepComplete, PassClean, OverCapWipesAll
  <1>6. CASE CheckSize
    <2>1. /\ pc = "size" /\ UNCHANGED <<rows, pages, used, due>>
          /\ \/ ~ (pages > Cap) /\ pc' = "idle" /\ doomed' = doomed
             \/ /\ pages > Cap /\ pc' = "evict" /\ at' = 1
                /\ doomed' = rows \/ doomed' = doomed
      BY <1>6, RetentionAssumption DEF CheckSize, TypeOK
    <2>2. PassClean'
      <3> SUFFICES ASSUME pc' = "evict", NEW r \in rows
                   PROVE  \E t \in at' .. 3 : r \in In(t)'
        BY <2>1 DEF PassClean
      <3>1. \E t \in 1 .. 3 : r \in In(t)'
        BY <2>1, SomeTable DEF In
      <3> QED BY <2>1, <3>1
    <2>3. OverCapWipesAll'
      BY <2>1 DEF OverCapWipesAll, HistoryInv
    <2>4. AgeSweepComplete'
      BY <2>1 DEF AgeSweepComplete, HistoryInv
    <2>5. /\ rows' \subseteq used' /\ due' \subseteq used' /\ doomed' \subseteq used'
          /\ pc' # "age"
          /\ doomed' # {} => pages' > Cap
      BY <2>1 DEF HistoryInv
    <2> QED BY <2>2, <2>3, <2>4, <2>5 DEF HistoryInv
  <1>7. CASE Evict
    BY <1>7, HistoryEvict
  <1>8. CASE EnforceFails
    <2>1. /\ pc # "age" /\ pc' = "idle" /\ doomed' = {}
          /\ UNCHANGED <<rows, pages, used, due>>
      BY <1>8 DEF EnforceFails
    <2> QED BY <2>1 DEF HistoryInv, AgeSweepComplete, PassClean, OverCapWipesAll
  <1>9. CASE UNCHANGED vars
    <2>1. UNCHANGED <<rows, pages, used, pc, at, cutoff, passDeleted, due, doomed>>
      BY <1>9 DEF vars, sweepVars
    <2>2. /\ used \subseteq used' /\ rows' \subseteq used'
          /\ \A r \in rows' : r \in rows \/ r \notin used
          /\ pages' \in Nat /\ pages' >= pages
      BY <2>1 DEF HistoryInv, TypeOK
    <2> QED BY <2>1, <2>2, HistoryKept
  <1> QED BY <1>1, <1>2, <1>3, <1>4, <1>5, <1>6, <1>7, <1>8, <1>9 DEF Next, Sweeper

(* What a sweep that was not cut short has left behind.                    *)
THEOREM SweepHistory ==
    ASSUME ~ Endless
    PROVE  SafeSpec => [](TypeOK /\ HistoryInv)
  <1>1. Init => TypeOK /\ HistoryInv
    BY RetentionTypeInit
       DEF Init, HistoryInv, AgeSweepComplete, PassClean, OverCapWipesAll
  <1>2. TypeOK /\ HistoryInv /\ [Next]_vars => TypeOK' /\ HistoryInv'
    BY RetentionTypeNext, HistoryNext
  <1> QED BY <1>1, <1>2, PTL DEF SafeSpec

(* The age sweep forgets no table and no row, whatever is inserted while   *)
(* it is under way.                                                        *)
THEOREM AgeSweepIsComplete ==
    ASSUME ~ Endless
    PROVE  SafeSpec => []AgeSweepComplete
  <1>1. TypeOK /\ HistoryInv => AgeSweepComplete
    BY DEF HistoryInv
  <1> QED BY <1>1, SweepHistory, PTL

(* A size sweep that starts over the cap ends with every row it found      *)
(* gone: its only other way out, back under the cap, is never taken.       *)
THEOREM OverCapIsWiped ==
    ASSUME ~ Endless
    PROVE  SafeSpec => []OverCapWipesAll
  <1>1. TypeOK /\ HistoryInv => OverCapWipesAll
    BY DEF HistoryInv
  <1> QED BY <1>1, SweepHistory, PTL
=============================================================================
