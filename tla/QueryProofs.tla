----------------------------- MODULE QueryProofs -----------------------------
(***************************************************************************)
(* Proofs about Query, for any rows, limits and number of requests.        *)
(***************************************************************************)
EXTENDS Query, TLAPS

-----------------------------------------------------------------------------
(* The operators.                                                          *)

(* A request reads a table once, and spans before logs.                    *)
LEMMA ReadsFacts ==
    ASSUME NEW a, a.kind \in Kinds
    PROVE  /\ DOMAIN Reads(a) \in {{1}, {1, 2}}
           /\ Len(Reads(a)) \in {1, 2} /\ DOMAIN Reads(a) = 1 .. Len(Reads(a))
           /\ \A i, j \in DOMAIN Reads(a) : Reads(a)[i] = Reads(a)[j] => i = j
           /\ \A i \in DOMAIN Reads(a) :
                  /\ Reads(a)[i] = "spans" /\ "logs" \in Tables(a)
                  => i = 1 /\ 2 \in DOMAIN Reads(a) /\ Reads(a)[2] = "logs"
  <1>1. \/ Reads(a) = <<"spans", "logs">>
        \/ Reads(a) = <<"spans">>
        \/ Reads(a) = <<"metrics">>
        \/ Reads(a) = <<"logs">>
    BY DEF Reads, Kinds
  <1>2. CASE Reads(a) = <<"spans", "logs">>
    BY <1>2 DEF Tables
  <1>3. CASE Reads(a) = <<"spans">>
    BY <1>3 DEF Tables
  <1>4. CASE Reads(a) = <<"metrics">>
    BY <1>4 DEF Tables
  <1>5. CASE Reads(a) = <<"logs">>
    BY <1>5 DEF Tables
  <1>6. QED
    BY <1>1, <1>2, <1>3, <1>4, <1>5

(* The handler's check of the limit and the store's, one after the other,  *)
(* come to one limit.                                                      *)
LEMMA LimitAsStated ==
    ASSUME NEW a, a.kind \in Kinds, a.limit \in Int
    PROVE  RowLimit(a) = StatedLimit(a)
  <1>1. CASE a.kind \in {"query", "metrics", "logs"}
    BY <1>1, QueryAssumption DEF RowLimit, StatedLimit, StoreLimit, HttpLimit
  <1>2. CASE a.kind \in {"query_job", "query_run"}
    BY <1>2, QueryAssumption DEF RowLimit, StatedLimit, StoreLimit
  <1>3. CASE a.kind = "trace"
    BY <1>3 DEF RowLimit, StatedLimit
  <1>4. QED
    BY <1>1, <1>2, <1>3 DEF Kinds

(* A row that ORDER BY ... LIMIT n leaves out is no older than the n rows  *)
(* it gives.                                                               *)
LEMMA OldestLeavesNewer ==
    ASSUME NEW S, NEW n, NEW V \in OldestOf(S, n, Stamp), NEW x \in S
    PROVE  /\ V \subseteq S
           /\ \/ x \in V
              \/ Cardinality(V) = n /\ \A y \in V : Stamp[y] <= Stamp[x]
  BY DEF OldestOf

-----------------------------------------------------------------------------
(* The invariant.                                                          *)

LEMMA QueryInit == Init => QueryInv
  <1> SUFFICES ASSUME Init PROVE QueryInv
    OBVIOUS
  <1>1. TypeOK
    <2>1. NoFilter \in AskValues
      BY DEF AskValues
    <2>2. QED
      BY <2>1 DEF Init, TypeOK, Finished
  <1>2. OneCursor
    BY DEF Init, OneCursor
  <1>3. \A r \in Readers : ReaderInv(r)
    BY DEF Init, ReaderInv, Known
  <1>4. QED
    BY <1>1, <1>2, <1>3 DEF QueryInv

(* What a step does not touch of request q keeps q's part of the invariant. *)
LEMMA Frame ==
    ASSUME NEW q \in Readers, ReaderInv(q),
           pc'[q] = pc[q], ask'[q] = ask[q], part'[q] = part[q],
           answer'[q] = answer[q], stable'[q] = stable[q], snap'[q] = snap[q],
           db' = db
    PROVE  ReaderInv(q)'
  <1>1. /\ ReadSoFar(q)' = ReadSoFar(q)
        /\ Known(q)' = Known(q)
        /\ AskedFor(q)' = AskedFor(q)
        /\ HasPart(q)' = HasPart(q)
    BY DEF ReadSoFar, Known, AskedFor, HasPart
  <1>2. \A x : Told(q, x, StatedLimit(ask[q]))'
                 = Told(q, x, StatedLimit(ask[q]))
    BY DEF Told
  <1>3. QED
    BY <1>1, <1>2 DEF ReaderInv

LEMMA AskStep ==
    ASSUME QueryInv, NEW r \in Readers, Ask(r)
    PROVE  QueryInv'
  <1>1. PICK a \in Asks[r] :
            /\ ask' = [ask EXCEPT ![r] = a]
            /\ pc' = [pc EXCEPT ![r] = IF Accepted(a) THEN "select" ELSE "refused"]
            /\ stable' = [stable EXCEPT ![r] =
                            IF Accepted(a) THEN { x \in db : Data[x].table \in Tables(a) }
                                           ELSE {}]
    BY DEF Ask
  <1>2. /\ pc[r] = "idle"
        /\ UNCHANGED <<path, db, conn, part, answer, errors, snap>>
    BY DEF Ask
  <1>3. TypeOK'
    <2>1. a \in AskValues
      BY DEF AskValues
    <2>2. ask' \in [Readers -> AskValues]
      BY <1>1, <2>1 DEF QueryInv, TypeOK
    <2>3. pc' \in [Readers -> {"idle", "select", "scan"} \cup Finished]
      BY <1>1 DEF QueryInv, TypeOK, Finished
    <2>4. \A q \in Readers : pc'[q] # "idle" => ask'[q] \in Asks[q]
      BY <1>1 DEF QueryInv, TypeOK
    <2>5. stable' \in [Readers -> SUBSET Rows]
      BY <1>1 DEF QueryInv, TypeOK
    <2>6. QED
      BY <1>2, <2>2, <2>3, <2>4, <2>5 DEF QueryInv, TypeOK
  <1>4. OneCursor'
    BY <1>1, <1>2 DEF QueryInv, OneCursor, TypeOK
  <1>5. ASSUME NEW q \in Readers, q # r
        PROVE  ReaderInv(q)'
    BY <1>1, <1>2, <1>5, Frame DEF QueryInv, TypeOK
  <1>6. ReaderInv(r)'
    <2>1. /\ pc'[r] \in {"select", "refused"} /\ part'[r] = 1
          /\ answer'[r] = {} /\ snap'[r] = {} /\ stable'[r] \subseteq db
          /\ ask'[r] = a
      BY <1>1, <1>2 DEF QueryInv, TypeOK, ReaderInv
    <2>2. Known(r)' \subseteq db'
      BY <1>2, <2>1 DEF Known
    <2>3. pc'[r] = "select" => ReadSoFar(r)' = {}
      <3>1. DOMAIN Reads(a) \in {{1}, {1, 2}}
        BY AsksAssumption, ReadsFacts
      <3>2. QED
        BY <2>1, <3>1 DEF ReadSoFar
    <2>4. QED
      BY <2>1, <2>2, <2>3 DEF ReaderInv
  <1>7. QED
    BY <1>3, <1>4, <1>5, <1>6 DEF QueryInv

LEMMA SelectStep ==
    ASSUME QueryInv, NEW r \in Readers, Select(r)
    PROVE  QueryInv'
  <1> DEFINE a == ask[r]
             t == Reads(a)[part[r]]
             found == { x \in InTable(db, t) : Matches(a, x) }
  <1>1. PICK V \in OldestOf(found, RowLimit(a), Stamp) :
            answer' = [answer EXCEPT ![r] = @ \cup V]
    BY DEF Select
  <1>2. /\ pc[r] = "select" /\ part[r] \in DOMAIN Reads(a)
        /\ ConnFree
        /\ conn' = IF path = "memory" THEN r ELSE conn
        /\ pc' = [pc EXCEPT ![r] = "scan"]
        /\ snap' = IF t = "spans" /\ "logs" \in Tables(a)
                      THEN [snap EXCEPT ![r] = InTable(db, "logs")] ELSE snap
        /\ UNCHANGED <<path, db, ask, part, errors, stable>>
    BY DEF Select, HasPart
  <1>3. V \subseteq found /\ found \subseteq db /\ db \subseteq Rows
    BY <1>1, OldestLeavesNewer DEF QueryInv, TypeOK, InTable, OldestOf
  <1>4. a \in Asks[r] /\ a.kind \in Kinds /\ a.limit \in Int
    BY <1>2, AsksAssumption DEF QueryInv, TypeOK
  <1>5. TypeOK'
    <2>1. answer' \in [Readers -> SUBSET Rows]
      BY <1>1, <1>3 DEF QueryInv, TypeOK
    <2>2. snap' \in [Readers -> SUBSET Rows]
      BY <1>2, <1>3 DEF QueryInv, TypeOK, InTable
    <2>3. /\ pc' \in [Readers -> {"idle", "select", "scan"} \cup Finished]
          /\ \A q \in Readers : pc'[q] # "idle" => pc[q] # "idle"
      BY <1>2 DEF QueryInv, TypeOK
    <2>4. QED
      BY <1>2, <2>1, <2>2, <2>3 DEF QueryInv, TypeOK
  <1>6. OneCursor'
    BY <1>2, QueryAssumption DEF QueryInv, OneCursor, ConnFree, TypeOK
  <1>7. ASSUME NEW q \in Readers, q # r
        PROVE  ReaderInv(q)'
    BY <1>1, <1>2, <1>7, Frame DEF QueryInv, TypeOK
  <1>8. ReaderInv(r)'
    <2>1. /\ pc'[r] = "scan" /\ part'[r] = part[r] /\ ask'[r] = a
          /\ answer'[r] = answer[r] \cup V /\ stable'[r] = stable[r]
          /\ db' = db
      BY <1>1, <1>2 DEF QueryInv, TypeOK
    <2>2. HasPart(r)'
      BY <1>2 DEF HasPart
    <2>3. ReadSoFar(r)' = ReadSoFar(r) \cup {t}
      BY <1>2, <2>1 DEF ReadSoFar
    <2>4. t \notin ReadSoFar(r)
      <3>1. \A i, j \in DOMAIN Reads(a) : Reads(a)[i] = Reads(a)[j] => i = j
        BY <1>4, ReadsFacts
      <3>2. DOMAIN Reads(a) \subseteq Int
        BY <1>4, ReadsFacts
      <3>3. QED
        BY <1>2, <3>1, <3>2 DEF ReadSoFar
    <2>5. \A x \in V : Data[x].table = t
      BY <1>3 DEF InTable
    <2>6. \A x \in answer'[r] : Data[x].table \in ReadSoFar(r)'
      BY <1>2, <2>1, <2>3, <2>5 DEF QueryInv, ReaderInv
    <2>7. InTable(answer'[r], t) = V
      BY <1>2, <2>1, <2>4, <2>5 DEF QueryInv, ReaderInv, InTable
    <2>8. \A s : s # t => InTable(answer'[r], s) = InTable(answer[r], s)
      BY <2>1, <2>5 DEF InTable
    <2>9. /\ Known(r)' \subseteq db
          /\ \A x \in Known(r)' \ Known(r) : Data[x].table \notin ReadSoFar(r)'
      <3>1. Known(r) \subseteq db
        BY <1>2 DEF QueryInv, ReaderInv
      <3>2. CASE t = "spans" /\ "logs" \in Tables(a)
        <4>1. snap'[r] = InTable(db, "logs")
          BY <1>2, <3>2 DEF QueryInv, TypeOK
        <4>2. /\ DOMAIN Reads(a) \in {{1}, {1, 2}}
              /\ \A i, j \in DOMAIN Reads(a) : Reads(a)[i] = Reads(a)[j] => i = j
              /\ part[r] = 1 /\ 2 \in DOMAIN Reads(a) /\ Reads(a)[2] = "logs"
          BY <1>2, <1>4, <3>2, ReadsFacts
        <4>3. "logs" \notin ReadSoFar(r)'
          BY <2>1, <4>2 DEF ReadSoFar
        <4>4. QED
          BY <2>1, <3>1, <4>1, <4>3 DEF Known, InTable
      <3>3. CASE ~ (t = "spans" /\ "logs" \in Tables(a))
        BY <1>2, <2>1, <3>1, <3>3 DEF Known
      <3>4. QED
        BY <3>2, <3>3
    <2>10. ASSUME NEW x \in Known(r)', x \in AskedFor(r)',
                  Data[x].table \in ReadSoFar(r)'
           PROVE  Told(r, x, StatedLimit(ask[r]))'
      <3>1. x \in Known(r) /\ x \in AskedFor(r) /\ x \in db
        BY <1>2, <2>9, <2>10 DEF AskedFor
      <3>2. CASE Data[x].table = t
        <4>1. x \in found
          BY <3>1, <3>2 DEF AskedFor, InTable
        <4>2. x \in V \/ (/\ Cardinality(V) = RowLimit(a)
                         /\ \A y \in V : Stamp[y] <= Stamp[x])
          BY <4>1, OldestLeavesNewer
        <4>3. RowLimit(a) = StatedLimit(a)
          BY <1>4, LimitAsStated
        <4>4. QED
          BY <1>2, <2>1, <2>7, <3>2, <4>2, <4>3 DEF Told, StatedLimit
      <3>3. CASE Data[x].table # t
        <4>1. Told(r, x, StatedLimit(a))
          BY <1>2, <2>3, <2>10, <3>1, <3>3 DEF QueryInv, ReaderInv
        <4>2. QED
          BY <1>2, <2>1, <2>8, <3>3, <4>1 DEF Told, StatedLimit
      <3>4. QED
        BY <3>2, <3>3
    <2>11. QED
      BY <2>1, <2>2, <2>6, <2>9, <2>10 DEF ReaderInv
  <1>9. QED
    BY <1>5, <1>6, <1>7, <1>8 DEF QueryInv

LEMMA ScanStep ==
    ASSUME QueryInv, NEW r \in Readers, Scan(r)
    PROVE  QueryInv'
  <1>1. /\ pc[r] = "scan" /\ part' = [part EXCEPT ![r] = @ + 1]
        /\ pc' = [pc EXCEPT ![r] = "select"]
        /\ conn' = IF conn = r THEN Nobody ELSE conn
        /\ UNCHANGED <<path, db, ask, answer, errors, stable, snap>>
    BY DEF Scan, Release
  <1>2. /\ ask[r] \in Asks[r] /\ ask[r].kind \in Kinds
        /\ part[r] \in DOMAIN Reads(ask[r])
    BY <1>1, AsksAssumption DEF QueryInv, TypeOK, ReaderInv, HasPart
  <1>3. part[r] \in {1, 2} /\ DOMAIN Reads(ask[r]) \subseteq {1, 2}
    BY <1>2, ReadsFacts
  <1>4. TypeOK'
    <2>1. part' \in [Readers -> 1 .. 3]
      BY <1>1, <1>3 DEF QueryInv, TypeOK
    <2>2. /\ pc' \in [Readers -> {"idle", "select", "scan"} \cup Finished]
          /\ \A q \in Readers : pc'[q] # "idle" => pc[q] # "idle"
      BY <1>1 DEF QueryInv, TypeOK
    <2>3. QED
      BY <1>1, <2>1, <2>2 DEF QueryInv, TypeOK
  <1>5. OneCursor'
    BY <1>1, QueryAssumption DEF QueryInv, OneCursor, TypeOK
  <1>6. ASSUME NEW q \in Readers, q # r
        PROVE  ReaderInv(q)'
    BY <1>1, <1>6, Frame DEF QueryInv, TypeOK
  <1>7. ReaderInv(r)'
    <2>1. pc'[r] = "select" /\ part'[r] = part[r] + 1
      BY <1>1 DEF QueryInv, TypeOK
    <2>2. ReadSoFar(r)' = ReadSoFar(r)
      <3>1. \A j \in DOMAIN Reads(ask[r]) :
                (j < part[r] + 1) <=> (j < part[r] \/ j = part[r])
        BY <1>3
      <3>2. QED
        BY <1>1, <2>1, <3>1 DEF ReadSoFar
    <2>3. /\ Known(r)' = Known(r) /\ AskedFor(r)' = AskedFor(r)
          /\ \A x : Told(r, x, StatedLimit(ask[r]))'
                       = Told(r, x, StatedLimit(ask[r]))
      BY <1>1 DEF Known, AskedFor, Told
    <2>4. QED
      BY <1>1, <2>1, <2>2, <2>3 DEF QueryInv, ReaderInv
  <1>8. QED
    BY <1>4, <1>5, <1>6, <1>7 DEF QueryInv

LEMMA FailsStep ==
    ASSUME QueryInv, NEW r \in Readers, Fails(r)
    PROVE  QueryInv'
  <1>1. /\ pc[r] \in {"select", "scan"}
        /\ pc' = [pc EXCEPT ![r] = "failed"]
        /\ answer' = [answer EXCEPT ![r] = {}]
        /\ stable' = [stable EXCEPT ![r] = {}]
        /\ snap' = [snap EXCEPT ![r] = {}]
        /\ conn' = IF conn = r THEN Nobody ELSE conn
        /\ UNCHANGED <<path, db, ask, part, errors>>
    BY DEF Fails, Release
  <1>2. TypeOK'
    <2>1. /\ pc' \in [Readers -> {"idle", "select", "scan"} \cup Finished]
          /\ \A q \in Readers : pc'[q] # "idle" => pc[q] # "idle"
      BY <1>1 DEF QueryInv, TypeOK, Finished
    <2>2. QED
      BY <1>1, <2>1 DEF QueryInv, TypeOK
  <1>3. OneCursor'
    BY <1>1, QueryAssumption DEF QueryInv, OneCursor, TypeOK
  <1>4. ASSUME NEW q \in Readers, q # r
        PROVE  ReaderInv(q)'
    BY <1>1, <1>4, Frame DEF QueryInv, TypeOK
  <1>5. ReaderInv(r)'
    BY <1>1 DEF QueryInv, TypeOK, ReaderInv
  <1>6. QED
    BY <1>2, <1>3, <1>4, <1>5 DEF QueryInv

LEMMA RespondStep ==
    ASSUME QueryInv, NEW r \in Readers, Respond(r)
    PROVE  QueryInv'
  <1>1. /\ pc[r] = "select" /\ ~ HasPart(r)
        /\ pc' = [pc EXCEPT ![r] = "done"]
        /\ \/ errors' = errors
           \/ errors' = [errors EXCEPT ![r] = ErrorSpans(answer[r])]
        /\ UNCHANGED <<path, db, conn, ask, part, answer, stable, snap>>
    BY DEF Respond
  <1>2. TypeOK'
    <2>1. ErrorSpans(answer[r]) \subseteq Rows
      BY DEF QueryInv, TypeOK, ErrorSpans, InTable
    <2>2. /\ pc' \in [Readers -> {"idle", "select", "scan"} \cup Finished]
          /\ \A q \in Readers : pc'[q] # "idle" => pc[q] # "idle"
      BY <1>1 DEF QueryInv, TypeOK, Finished
    <2>3. QED
      BY <1>1, <2>1, <2>2 DEF QueryInv, TypeOK
  <1>3. OneCursor'
    BY <1>1 DEF QueryInv, OneCursor, TypeOK
  <1>4. ASSUME NEW q \in Readers, q # r
        PROVE  ReaderInv(q)'
    BY <1>1, <1>4, Frame DEF QueryInv, TypeOK
  <1>5. ReaderInv(r)'
    <2>1. pc'[r] = "done"
      BY <1>1 DEF QueryInv, TypeOK
    <2>2. ReadSoFar(r)' = ReadSoFar(r)
      BY <1>1, <2>1 DEF ReadSoFar, HasPart
    <2>3. /\ Known(r)' = Known(r) /\ AskedFor(r)' = AskedFor(r)
          /\ HasPart(r)' = HasPart(r)
          /\ \A x : Told(r, x, StatedLimit(ask[r]))'
                       = Told(r, x, StatedLimit(ask[r]))
      BY <1>1 DEF Known, AskedFor, HasPart, Told
    <2>4. QED
      BY <1>1, <2>1, <2>2, <2>3 DEF QueryInv, ReaderInv
  <1>6. QED
    BY <1>2, <1>3, <1>4, <1>5 DEF QueryInv

(* Writers change the database under a request, and what its history       *)
(* variables may still remember.                                           *)
LEMMA WriterStep ==
    ASSUME QueryInv, NEW gone,
           db' \in SUBSET Rows, db \ gone \subseteq db',
           stable' = [r \in Readers |-> stable[r] \ gone],
           snap' = [r \in Readers |-> snap[r] \ gone],
           UNCHANGED <<path, conn, readVars>>
    PROVE  QueryInv'
  <1>1. TypeOK' /\ OneCursor'
    BY DEF QueryInv, TypeOK, OneCursor, readVars
  <1>2. ASSUME NEW r \in Readers
        PROVE  ReaderInv(r)'
    <2>1. Known(r)' = Known(r) \ gone
      BY DEF Known
    <2>2. /\ AskedFor(r)' = AskedFor(r) /\ HasPart(r)' = HasPart(r)
          /\ ReadSoFar(r)' = ReadSoFar(r)
          /\ \A x : Told(r, x, StatedLimit(ask[r]))'
                       = Told(r, x, StatedLimit(ask[r]))
      BY DEF AskedFor, HasPart, ReadSoFar, Told, readVars
    <2>3. snap[r] = {} => snap'[r] = {}
      OBVIOUS
    <2>4. QED
      BY <2>1, <2>2, <2>3 DEF QueryInv, ReaderInv, readVars
  <1>3. QED
    BY <1>1, <1>2 DEF QueryInv

LEMMA QueryNext == QueryInv /\ [Next]_vars => QueryInv'
  <1> SUFFICES ASSUME QueryInv, [Next]_vars PROVE QueryInv'
    OBVIOUS
  <1>1. ASSUME NEW r \in Readers, Ask(r) \/ Serve(r) \/ Fails(r)
        PROVE  QueryInv'
    BY <1>1, AskStep, SelectStep, ScanStep, FailsStep, RespondStep DEF Serve
  <1>2. /\ stable = [r \in Readers |-> stable[r] \ {}]
        /\ snap = [r \in Readers |-> snap[r] \ {}]
    BY DEF QueryInv, TypeOK
  <1>3. ASSUME NEW B \in Batches, Commit(B)
        PROVE  QueryInv'
    <2>1. db' \in SUBSET Rows /\ db \ {} \subseteq db'
      BY <1>3, QueryAssumption DEF Commit, QueryInv, TypeOK
    <2>2. QED
      BY <1>2, <1>3, <2>1, WriterStep DEF Commit
  <1>4. CASE Retire
    <2>1. PICK V : /\ db' = db \ V
                   /\ stable' = [r \in Readers |-> stable[r] \ V]
                   /\ snap' = [r \in Readers |-> snap[r] \ V]
      BY <1>4 DEF Retire
    <2>2. db' \in SUBSET Rows /\ UNCHANGED <<path, conn, readVars>>
      BY <1>4, <2>1 DEF Retire, QueryInv, TypeOK
    <2>3. QED
      BY <2>1, <2>2, WriterStep
  <1>5. CASE UNCHANGED vars
    <2>1. db' \in SUBSET Rows
      BY <1>5 DEF vars, QueryInv, TypeOK
    <2>2. QED
      BY <1>2, <1>5, <2>1, WriterStep DEF vars
  <1>6. QED
    BY <1>1, <1>3, <1>4, <1>5 DEF Next

-----------------------------------------------------------------------------
(* A request that is answered has read all its tables.                     *)
LEMMA DoneReadAll ==
    ASSUME QueryInv, NEW r \in Readers, pc[r] = "done", NEW x \in AskedFor(r)
    PROVE  Data[x].table \in ReadSoFar(r)
  <1>1. ask[r].kind \in Kinds /\ part[r] \in 1 .. 3
    BY AsksAssumption DEF QueryInv, TypeOK
  <1>2. part[r] \notin DOMAIN Reads(ask[r])
    BY DEF QueryInv, ReaderInv, HasPart
  <1>3. \A j \in DOMAIN Reads(ask[r]) : j < part[r]
    BY <1>1, <1>2, ReadsFacts
  <1>4. PICK i \in DOMAIN Reads(ask[r]) : Data[x].table = Reads(ask[r])[i]
    BY DEF AskedFor, InTable
  <1>5. QED
    BY <1>3, <1>4 DEF ReadSoFar

(* What the tables that a request has read so far hold of what it asked    *)
(* for, in every reachable state.                                          *)
THEOREM QueryInvariance == Spec => []QueryInv
  BY QueryInit, QueryNext, PTL DEF Spec

(* The answer to a request is complete or cut at the stated limit.         *)
THEOREM StableFound == Spec => []StableRowsFound
  <1>1. QueryInv => StableRowsFound
    <2> SUFFICES ASSUME QueryInv, NEW r \in Readers, pc[r] = "done",
                        NEW x \in stable[r] \cap AskedFor(r)
                 PROVE  Told(r, x, StatedLimit(ask[r]))
      BY DEF StableRowsFound
    <2>1. Data[x].table \in ReadSoFar(r)
      BY DoneReadAll DEF QueryInv
    <2>2. QED
      BY <2>1 DEF QueryInv, ReaderInv, Known
  <1>2. QED
    BY QueryInvariance, <1>1, PTL

(* Nobody sees a span without the logs that were stored before it.         *)
THEOREM LogsAfterSpans == Spec => []LogsNoOlderThanSpans
  <1>1. QueryInv => LogsNoOlderThanSpans
    <2> SUFFICES ASSUME QueryInv, NEW r \in Readers, pc[r] = "done",
                        NEW x \in InTable(snap[r] \cap AskedFor(r), "logs")
                 PROVE  Told(r, x, StatedLimit(ask[r]))
      BY DEF LogsNoOlderThanSpans
    <2>1. x \in snap[r] \cap AskedFor(r)
      BY DEF InTable
    <2>2. Data[x].table \in ReadSoFar(r)
      BY <2>1, DoneReadAll DEF QueryInv
    <2>3. QED
      BY <2>1, <2>2 DEF QueryInv, ReaderInv, Known
  <1>2. QED
    BY QueryInvariance, <1>1, PTL

-----------------------------------------------------------------------------
(* The refinement: a Select is a look, a Scan is nothing to see.           *)

(* A request that is being served is a good one; what it looks for, ...    *)
LEMMA GoodFacts ==
    ASSUME QueryInv, NEW r \in Readers, pc[r] \in {"select", "scan", "done"}
    PROVE  /\ ask[r].kind \in Kinds /\ ask[r].limit \in Int
           /\ ask[r] \in Asks[r]
  BY AsksAssumption DEF QueryInv, TypeOK

LEMMA WantsFacts ==
    ASSUME NEW a \in Good
    PROVE  /\ a \in DOMAIN Wants
           /\ DOMAIN Wants[a] = Tables(a)
           /\ \A t \in Tables(a), S \in SUBSET Rows :
                  Wants[a][t] \cap S = { x \in InTable(S, t) : Matches(a, x) }
  BY DEF Wants, InTable

(* ... and which of its tables it has read when it is at one of them.      *)
LEMMA ReadInOrder ==
    ASSUME NEW r \in Readers, ask[r].kind \in Kinds, pc[r] = "select", HasPart(r)
    PROVE  /\ Reads(ask[r])[part[r]] \in Tables(ask[r]) \ ReadSoFar(r)
           /\ Reads(ask[r])[part[r]] \in {"spans", "logs", "metrics"}
           /\ Reads(ask[r])[part[r]] = "logs"
                  => "spans" \notin Tables(ask[r]) \ ReadSoFar(r)
  <1> DEFINE a == ask[r]
  <1>1. \/ Reads(a) = <<"spans", "logs">>
        \/ Reads(a) = <<"spans">>
        \/ Reads(a) = <<"metrics">>
        \/ Reads(a) = <<"logs">>
    BY DEF Reads, Kinds
  <1>2. part[r] \in DOMAIN Reads(a)
    BY DEF HasPart
  <1>3. ReadSoFar(r) = { Reads(a)[i] : i \in { j \in DOMAIN Reads(a) : j < part[r] } }
    BY DEF ReadSoFar
  <1> HIDE DEF a
  <1>4. CASE Reads(a) = <<"spans", "logs">>
    <2>1. DOMAIN Reads(a) = {1, 2} /\ part[r] \in {1, 2}
      BY <1>2, <1>4
    <2>2. Tables(a) = {"spans", "logs"}
      BY <1>4, <2>1 DEF Tables
    <2>3. part[r] = 1 => ReadSoFar(r) = {}
      BY <1>3, <2>1
    <2>4. part[r] = 2 => ReadSoFar(r) = {"spans"}
      BY <1>3, <1>4, <2>1
    <2> QED BY <1>4, <2>1, <2>2, <2>3, <2>4 DEF a
  <1>5. CASE Reads(a) \in {<<"spans">>, <<"metrics">>, <<"logs">>}
    <2>1. /\ DOMAIN Reads(a) = {1} /\ part[r] = 1
          /\ Reads(a)[1] \in {"spans", "logs", "metrics"}
      BY <1>2, <1>5
    <2>2. Tables(a) = {Reads(a)[1]} /\ ReadSoFar(r) = {}
      BY <1>3, <2>1 DEF Tables
    <2> QED BY <2>1, <2>2 DEF a
  <1> QED BY <1>1, <1>4, <1>5

(* Steps of the read path that leave what a request has looked at alone.   *)
LEMMA SameLook ==
    ASSUME NEW q \in Readers, pc'[q] = pc[q], ask'[q] = ask[q], part'[q] = part[q]
    PROVE  Reply'[q] = Reply[q] /\ Looked'[q] = Looked[q]
  BY DEF Reply, Looked, ReadSoFar

LEMMA SameOldest ==
    ASSUME NEW S, NEW n
    PROVE  Looks!OldestOf(S, n, Stamp) = OldestOf(S, n, Stamp)
  <1>1. \A T : Looks!Cardinality(T) = Cardinality(T)
    BY DEF Looks!Cardinality, Cardinality
  <1> QED BY <1>1 DEF Looks!OldestOf, OldestOf

(* Only a request that was accepted is served.                             *)
ServedInv == \A r \in Readers : pc[r] \in {"select", "scan", "done"} => ask[r] \in Good

LEMMA ServedNext == QueryInv /\ ServedInv /\ [Next]_vars => ServedInv'
  <1> SUFFICES ASSUME QueryInv, ServedInv, [Next]_vars
               PROVE  ServedInv'
    OBVIOUS
  <1> USE DEF QueryInv, TypeOK, ServedInv
  <1>1. ASSUME NEW r \in Readers, Ask(r)
        PROVE  ServedInv'
    <2>1. PICK a \in Asks[r] :
            /\ ask' = [ask EXCEPT ![r] = a]
            /\ pc' = [pc EXCEPT ![r] = IF Accepted(a) THEN "select" ELSE "refused"]
      BY <1>1 DEF Ask
    <2>2. Accepted(a) => a \in Good
      BY DEF Good
    <2> QED BY <2>1, <2>2
  <1>2. ASSUME NEW r \in Readers, Serve(r) \/ Fails(r)
        PROVE  ServedInv'
    BY <1>2 DEF Serve, Select, Scan, Respond, Fails
  <1>3. CASE (\E B \in Batches : Commit(B)) \/ Retire \/ UNCHANGED vars
    BY <1>3 DEF Commit, Retire, readVars, vars
  <1> QED BY <1>1, <1>2, <1>3 DEF Next

LEMMA AskLooks ==
    ASSUME QueryInv, NEW r \in Readers, Ask(r)
    PROVE  Looks!Ask(r)
  <1>1. PICK a \in Asks[r] :
            /\ ask' = [ask EXCEPT ![r] = a]
            /\ pc' = [pc EXCEPT ![r] = IF Accepted(a) THEN "select" ELSE "refused"]
    BY DEF Ask
  <1>2. pc[r] = "idle" /\ UNCHANGED <<db, part, answer, errors>>
    BY DEF Ask
  <1>3. pc'[r] = IF a \in DOMAIN Wants THEN "select" ELSE "refused"
    BY <1>1 DEF QueryInv, TypeOK, Wants, Good
  <1>4. ReadSoFar(r)' = {} \/ pc'[r] = "refused"
    <2>1. part[r] = 1 /\ DOMAIN Reads(a) \in {{1}, {1, 2}}
      BY <1>2, AsksAssumption, ReadsFacts DEF QueryInv, ReaderInv
    <2> QED BY <1>1, <1>2, <1>3, <2>1 DEF QueryInv, TypeOK, ReadSoFar
  <1>5. \A q \in Readers : q # r => Reply'[q] = Reply[q] /\ Looked'[q] = Looked[q]
    BY <1>1, <1>2, SameLook DEF QueryInv, TypeOK
  <1>6. Reply' = [Reply EXCEPT ![r] = IF a \in DOMAIN Wants THEN "none" ELSE "refused"]
    BY <1>3, <1>5 DEF Reply
  <1>7. Looked' = Looked
    BY <1>2, <1>3, <1>4, <1>5 DEF Looked
  <1>8. Reply[r] = "idle"
    BY <1>2 DEF Reply
  <1> QED BY <1>1, <1>2, <1>6, <1>7, <1>8 DEF Looks!Ask

LEMMA SelectLooks ==
    ASSUME QueryInv, ServedInv, NEW r \in Readers, Select(r)
    PROVE  Looks!Next
  <1> DEFINE a == ask[r]
             t == Reads(a)[part[r]]
             found == { x \in InTable(db, t) : Matches(a, x) }
  <1>1. PICK V \in OldestOf(found, RowLimit(a), Stamp) :
            answer' = [answer EXCEPT ![r] = @ \cup V]
    BY DEF Select
  <1>2. /\ pc[r] = "select" /\ HasPart(r)
        /\ pc' = [pc EXCEPT ![r] = "scan"]
        /\ UNCHANGED <<db, ask, part, errors>>
    BY DEF Select
  <1>3. /\ a \in Good /\ a.kind \in Kinds /\ RowLimit(a) = StatedLimit(a)
    BY <1>2, GoodFacts, LimitAsStated DEF ServedInv
  <1>4. /\ t \in Tables(a) \ ReadSoFar(r) /\ t \in {"spans", "logs", "metrics"}
        /\ t = "logs" => "spans" \notin Tables(a) \ ReadSoFar(r)
    BY <1>2, <1>3, ReadInOrder
  <1>5. Wants[a][t] \cap db = found /\ DOMAIN Wants[a] = Tables(a)
    BY <1>3, <1>4, WantsFacts DEF QueryInv, TypeOK
  <1>6. ReadSoFar(r)' = ReadSoFar(r) \cup {t}
    BY <1>2 DEF ReadSoFar, HasPart, QueryInv, TypeOK
  <1>7. \A q \in Readers : q # r => Reply'[q] = Reply[q] /\ Looked'[q] = Looked[q]
    BY <1>2, SameLook DEF QueryInv, TypeOK
  <1>8. /\ pc'[r] = "scan" /\ Looked[r] = ReadSoFar(r) /\ Reply[r] = "none"
    BY <1>2 DEF Looked, Reply, QueryInv, TypeOK
  <1>9. Looked' = [Looked EXCEPT ![r] = @ \cup {t}] /\ Reply' = Reply
    BY <1>6, <1>7, <1>8 DEF Looked, Reply
  <1>10. V \in Looks!OldestOf(Wants[a][t] \cap db, [b \in Good |-> StatedLimit(b)][a], Stamp)
    BY <1>1, <1>3, <1>5, SameOldest
  <1> HIDE DEF t, found
  <1>11. Looks!Look(r, t)
    BY <1>1, <1>2, <1>4, <1>5, <1>8, <1>9, <1>10 DEF Looks!Look
  <1> QED BY <1>4, <1>11 DEF Looks!Next

LEMMA ScanLooks ==
    ASSUME QueryInv, NEW r \in Readers, Scan(r)
    PROVE  UNCHANGED Looks!vars
  <1>1. /\ pc[r] = "scan" /\ part' = [part EXCEPT ![r] = @ + 1]
        /\ pc' = [pc EXCEPT ![r] = "select"]
        /\ UNCHANGED <<db, ask, answer, errors>>
    BY DEF Scan
  <1>2. ReadSoFar(r)' = ReadSoFar(r)
    <2>1. DOMAIN Reads(ask[r]) \in {{1}, {1, 2}} /\ part[r] \in 1 .. 3
      BY <1>1, GoodFacts, ReadsFacts DEF QueryInv, TypeOK
    <2>2. \A j \in DOMAIN Reads(ask[r]) : (j < part[r] + 1) <=> (j < part[r] \/ j = part[r])
      BY <2>1
    <2>3. pc'[r] = "select" /\ part'[r] = part[r] + 1
      BY <1>1 DEF QueryInv, TypeOK
    <2> QED BY <1>1, <2>2, <2>3 DEF ReadSoFar
  <1>3. \A q \in Readers : q # r => Reply'[q] = Reply[q] /\ Looked'[q] = Looked[q]
    BY <1>1, SameLook DEF QueryInv, TypeOK
  <1>4. pc'[r] = "select"
    BY <1>1 DEF QueryInv, TypeOK
  <1>5. Reply' = Reply /\ Looked' = Looked
    BY <1>1, <1>2, <1>3, <1>4 DEF Reply, Looked
  <1> QED BY <1>1, <1>5 DEF Looks!vars

LEMMA FailsLooks ==
    ASSUME QueryInv, NEW r \in Readers, Fails(r)
    PROVE  Looks!Fail(r)
  <1>1. /\ pc[r] \in {"select", "scan"}
        /\ pc' = [pc EXCEPT ![r] = "failed"]
        /\ answer' = [answer EXCEPT ![r] = {}]
        /\ UNCHANGED <<db, ask, part, errors>>
    BY DEF Fails
  <1>2. \A q \in Readers : q # r => Reply'[q] = Reply[q] /\ Looked'[q] = Looked[q]
    BY <1>1, SameLook DEF QueryInv, TypeOK
  <1>3. pc'[r] = "failed"
    BY <1>1 DEF QueryInv, TypeOK
  <1>4. Reply[r] = "none" /\ Reply'[r] = "failed" /\ Looked'[r] = {}
    BY <1>1, <1>3 DEF Reply, Looked
  <1>5. Reply' = [Reply EXCEPT ![r] = "failed"]
    BY <1>2, <1>4 DEF Reply
  <1>6. Looked' = [Looked EXCEPT ![r] = {}]
    BY <1>2, <1>4 DEF Looked
  <1> QED BY <1>1, <1>4, <1>5, <1>6 DEF Looks!Fail

LEMMA RespondLooks ==
    ASSUME QueryInv, ServedInv, NEW r \in Readers, Respond(r)
    PROVE  Looks!Answer(r)
  <1>1. /\ pc[r] = "select" /\ ~ HasPart(r)
        /\ pc' = [pc EXCEPT ![r] = "done"]
        /\ errors' = IF ask[r].kind = "query_job"
                       THEN [errors EXCEPT ![r] = ErrorSpans(answer[r])] ELSE errors
        /\ UNCHANGED <<db, ask, part, answer>>
    BY DEF Respond
  <1>2. ask[r] \in Good /\ ask[r].kind \in Kinds
    BY <1>1, GoodFacts DEF ServedInv
  <1>3. /\ ReadSoFar(r) = Tables(ask[r]) /\ ReadSoFar(r)' = ReadSoFar(r)
    <2>1. /\ DOMAIN Reads(ask[r]) \in {{1}, {1, 2}} /\ part[r] \in 1 .. 3
          /\ DOMAIN Reads(ask[r]) = 1 .. Len(Reads(ask[r]))
          /\ part[r] \notin DOMAIN Reads(ask[r])
      BY <1>1, <1>2, ReadsFacts DEF QueryInv, TypeOK, HasPart
    <2>2. \A j \in DOMAIN Reads(ask[r]) : j < part[r]
      BY <2>1
    <2>3. pc'[r] = "done"
      BY <1>1 DEF QueryInv, TypeOK
    <2> QED BY <1>1, <2>2, <2>3 DEF ReadSoFar, Tables
  <1>4. DOMAIN Wants[ask[r]] = Tables(ask[r])
    BY <1>2, WantsFacts
  <1>5. \A q \in Readers : q # r => Reply'[q] = Reply[q] /\ Looked'[q] = Looked[q]
    BY <1>1, SameLook DEF QueryInv, TypeOK
  <1>6. pc'[r] = "done"
    BY <1>1 DEF QueryInv, TypeOK
  <1>7. /\ Reply[r] = "none" /\ Reply'[r] = "done"
        /\ Looked'[r] = Looked[r] /\ Looked[r] = DOMAIN Wants[ask[r]]
    BY <1>1, <1>3, <1>4, <1>6 DEF Reply, Looked
  <1>8. ErrorSpans(answer[r]) = answer[r] \cap ErrorSpans(Rows)
    BY DEF ErrorSpans, InTable, QueryInv, TypeOK
  <1>9. ask[r] \in { b \in Good : b.kind = "query_job" } <=> ask[r].kind = "query_job"
    BY <1>2
  <1>10. Reply' = [Reply EXCEPT ![r] = "done"]
    BY <1>5, <1>7 DEF Reply
  <1>11. Looked' = Looked
    BY <1>5, <1>7 DEF Looked
  <1> QED BY <1>1, <1>7, <1>8, <1>9, <1>10, <1>11 DEF Looks!Answer

LEMMA WritersLook ==
    ASSUME QueryInv, (\E B \in Batches : Commit(B)) \/ Retire
    PROVE  Looks!Gain \/ Looks!Lose
  <1>1. UNCHANGED readVars
    BY DEF Commit, Retire
  <1>2. Reply' = Reply /\ Looked' = Looked
    BY <1>1 DEF Reply, Looked, ReadSoFar, readVars
  <1>3. (\E B \in Batches : B \cap db = {} /\ db' = db \cup B) \/ db' \subseteq db
    BY DEF Commit, Retire
  <1> QED BY <1>1, <1>2, <1>3 DEF Looks!Gain, Looks!Lose, readVars

(* The read path implements the abstract specification.                    *)
THEOREM ReadRefinement == Spec => ReadsAreLooks
  <1>1. Init => Looks!Init /\ ServedInv
    <2> SUFFICES ASSUME Init
                 PROVE  Looks!Init /\ ServedInv
      OBVIOUS
    <2>1. Reply = [r \in Readers |-> "idle"] /\ Looked = [r \in Readers |-> {}]
      BY DEF Init, Reply, Looked
    <2> QED BY <2>1 DEF Init, Looks!Init, ServedInv
  <1>2. QueryInv /\ ServedInv /\ [Next]_vars => [Looks!Next]_(Looks!vars)
    <2> SUFFICES ASSUME QueryInv, ServedInv, [Next]_vars
                 PROVE  Looks!Next \/ UNCHANGED Looks!vars
      OBVIOUS
    <2>1. ASSUME NEW r \in Readers, Ask(r) \/ Serve(r) \/ Fails(r)
          PROVE  Looks!Next \/ UNCHANGED Looks!vars
      <3>1. CASE Select(r)
        BY <3>1, SelectLooks
      <3>2. CASE Scan(r)
        BY <3>2, ScanLooks
      <3>3. CASE Ask(r) \/ Respond(r) \/ Fails(r)
        BY <3>3, AskLooks, RespondLooks, FailsLooks DEF Looks!Next
      <3> QED BY <2>1, <3>1, <3>2, <3>3 DEF Serve
    <2>2. CASE (\E B \in Batches : Commit(B)) \/ Retire
      BY <2>2, WritersLook DEF Looks!Next
    <2>3. CASE UNCHANGED vars
      <3>1. Reply' = Reply /\ Looked' = Looked
        BY <2>3 DEF vars, readVars, Reply, Looked, ReadSoFar
      <3> QED BY <2>3, <3>1 DEF vars, readVars, Looks!vars
    <2> QED BY <2>1, <2>2, <2>3 DEF Next
  <1>3. QueryInv /\ ServedInv /\ [Next]_vars => ServedInv'
    BY ServedNext
  <1> QED BY <1>1, <1>2, <1>3, QueryInvariance, PTL DEF Spec, ReadsAreLooks, Looks!Spec

-----------------------------------------------------------------------------
(* Progress: why a request is answered (QueryEnds), as far as steps and    *)
(* states can say.                                                         *)

(* How far request r is: a statement begins and ends, the next one begins. *)
Place(r) ==
    CASE pc[r] = "idle"        -> 0
      [] pc[r] = "select"      -> 2 * part[r] - 1
      [] pc[r] = "scan"        -> 2 * part[r]
      [] pc[r] \in Finished    -> 7

PlaceOnward(r) ==
    \/ UNCHANGED <<pc[r], part[r]>>
    \/ Place(r)' > Place(r)

(* Nothing comes after an answer, and nothing changes it.                  *)
AnswerStands(r) ==
    pc[r] \in Finished =>
        UNCHANGED <<pc[r], ask[r], part[r], answer[r], errors[r]>>

(* The request has its next step: rows of its cursor, a statement that     *)
(* gets a connection, or its answer.                                       *)
CanServe(r) ==
    \/ pc[r] = "scan"
    \/ pc[r] = "select" /\ (HasPart(r) => ConnFree)

WaitsForScan(r) == conn \in Readers \ {r} /\ CanServe(conn)

LEMMA PlaceFacts ==
    ASSUME TypeOK, NEW r \in Readers
    PROVE  /\ part[r] \in Nat
           /\ pc[r] = "idle" => Place(r) = 0
           /\ pc[r] = "select" => Place(r) = 2 * part[r] - 1 /\ Place(r) \in 1 .. 5
           /\ pc[r] = "scan" => Place(r) = 2 * part[r] /\ Place(r) \in 2 .. 6
           /\ pc[r] \in Finished => Place(r) = 7
           /\ Place(r) \in 0 .. 7
  <1>1. part[r] \in 1 .. 3 /\ pc[r] \in {"idle", "select", "scan"} \cup Finished
    BY DEF TypeOK
  <1>2. CASE pc[r] = "idle"
    BY <1>1, <1>2 DEF Place, Finished
  <1>3. CASE pc[r] = "select"
    BY <1>1, <1>3 DEF Place, Finished
  <1>4. CASE pc[r] = "scan"
    BY <1>1, <1>4 DEF Place, Finished
  <1>5. CASE pc[r] \in Finished
    BY <1>1, <1>5 DEF Place, Finished
  <1> QED BY <1>1, <1>2, <1>3, <1>4, <1>5

LEMMA ServeOnward ==
    ASSUME QueryInv, TypeOK', NEW r \in Readers, Ask(r) \/ Serve(r) \/ Fails(r)
    PROVE  Place(r)' > Place(r)
  <1> DEFINE p == part[r]
  <1>1. /\ p \in Nat /\ Place(r) \in 0 .. 7
        /\ pc'[r] \in Finished => Place(r)' = 7
        /\ pc[r] \notin Finished => Place(r) < 7
    <2>1. TypeOK
      BY DEF QueryInv
    <2>2. pc'[r] \in Finished => Place(r)' = 7
      BY DEF Place, Finished
    <2> QED BY <2>1, <2>2, PlaceFacts DEF TypeOK
  <1>2. CASE pc'[r] \in Finished
    <2>1. pc[r] \notin Finished
      BY DEF Ask, Serve, Select, Scan, Respond, Fails, Finished
    <2> QED BY <1>1, <1>2, <2>1
  <1>3. CASE Ask(r) /\ pc'[r] \notin Finished
    <2>1. pc[r] = "idle" /\ pc'[r] = "select" /\ part'[r] \in 1 .. 3
      BY <1>3 DEF Ask, QueryInv, TypeOK, Finished
    <2>2. Place(r) = 0 /\ Place(r)' = 2 * part'[r] - 1
      BY <2>1 DEF Place, Finished
    <2> QED BY <2>1, <2>2
  <1>4. CASE Select(r)
    <2>1. pc[r] = "select" /\ pc'[r] = "scan" /\ part'[r] = p
      BY <1>4 DEF Select, QueryInv, TypeOK
    <2>2. Place(r) = 2 * p - 1 /\ Place(r)' = 2 * p
      BY <2>1 DEF Place, Finished
    <2> QED BY <1>1, <2>2
  <1>5. CASE Scan(r)
    <2>1. pc[r] = "scan" /\ pc'[r] = "select" /\ part'[r] = p + 1
      BY <1>5 DEF Scan, QueryInv, TypeOK
    <2>2. Place(r) = 2 * p /\ Place(r)' = 2 * (p + 1) - 1
      BY <2>1 DEF Place, Finished
    <2> QED BY <1>1, <2>2
  <1>6. CASE Respond(r) \/ Fails(r)
    <2>1. pc'[r] \in Finished
      BY <1>6 DEF Respond, Fails, QueryInv, TypeOK, Finished
    <2> QED BY <1>2, <2>1
  <1> QED BY <1>2, <1>3, <1>4, <1>5, <1>6 DEF Serve

LEMMA RequestStep ==
    ASSUME QueryInv, QueryInv', [Next]_vars, NEW r \in Readers
    PROVE  PlaceOnward(r) /\ AnswerStands(r)
  <1>1. TypeOK /\ TypeOK'
    BY DEF QueryInv
  <1>2. ASSUME NEW q \in Readers, Ask(q) \/ Serve(q) \/ Fails(q)
        PROVE  PlaceOnward(r) /\ AnswerStands(r)
    <2>1. CASE q = r
      <3>1. pc[r] \notin Finished
        BY <1>2, <2>1 DEF Ask, Serve, Select, Scan, Respond, Fails, Finished
      <3>2. Place(r)' > Place(r)
        BY <1>1, <1>2, <2>1, ServeOnward
      <3> QED BY <3>1, <3>2 DEF PlaceOnward, AnswerStands
    <2>2. CASE q # r
      <3>1. UNCHANGED <<pc[r], ask[r], part[r], answer[r], errors[r]>>
        BY <1>1, <1>2, <2>2 DEF TypeOK, Ask, Serve, Select, Scan, Respond, Fails
      <3> QED BY <3>1 DEF PlaceOnward, AnswerStands
    <2> QED BY <2>1, <2>2
  <1>3. CASE \/ \E B \in Batches : Commit(B)
             \/ Retire \/ UNCHANGED vars
    BY <1>3 DEF Commit, Retire, vars, readVars, PlaceOnward, AnswerStands
  <1> QED BY <1>2, <1>3 DEF Next

(* Every step of a request brings it nearer to its answer, of which it is  *)
(* never further than seven steps, and its answer is final.                *)
THEOREM RequestsOnward ==
    Spec => [][\A r \in Readers : PlaceOnward(r) /\ AnswerStands(r)]_vars
  <1>1. QueryInv /\ QueryInv' /\ [Next]_vars =>
          [\A r \in Readers : PlaceOnward(r) /\ AnswerStands(r)]_vars
    BY RequestStep
  <1> QED BY <1>1, QueryInvariance, PTL DEF Spec

(* A request can go on, or waits for the connection of a database in       *)
(* memory, and then for another request that can go on: never for a cursor *)
(* of its own, although the two statements of one request take turns.      *)
THEOREM NoReaderStuck ==
    Spec => [](\A r \in Readers :
                 pc[r] \in {"select", "scan"} => CanServe(r) \/ WaitsForScan(r))
  <1>1. QueryInv =>
          \A r \in Readers :
              pc[r] \in {"select", "scan"} => CanServe(r) \/ WaitsForScan(r)
    <2> SUFFICES ASSUME QueryInv, NEW r \in Readers,
                        pc[r] \in {"select", "scan"}, ~ CanServe(r)
                 PROVE  WaitsForScan(r)
      OBVIOUS
    <2>1. pc[r] = "select" /\ conn # Nobody
      BY DEF CanServe, ConnFree
    <2>2. conn \in Readers /\ pc[conn] = "scan"
      BY <2>1 DEF QueryInv, OneCursor, TypeOK
    <2> QED BY <2>1, <2>2 DEF WaitsForScan, CanServe
  <1> QED BY <1>1, QueryInvariance, PTL
=============================================================================
