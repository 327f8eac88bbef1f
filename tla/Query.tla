-------------------------------- MODULE Query --------------------------------
(***************************************************************************)
(* The read path: the query API (internal/query), the MCP tools            *)
(* (internal/mcpserver) and the SELECTs of internal/store they run, beside *)
(* ingest and the retention sweeper.  A request that asks for spans and    *)
(* logs is two statements, each with a snapshot of its own.                *)
(*                                                                         *)
(*  - a file (WAL): a statement sees the database as it was when it began. *)
(*  - ":memory:": a statement holds the only connection until its rows are *)
(*    read to the end.                                                     *)
(***************************************************************************)
EXTENDS Oldest, Sequences

CONSTANTS
    Rows,          \* BOUND: rows that may be in the database; one that was
                   \* deleted stands for a later one like it
    Data,          \* Data[r]: table, stamp, the columns that are asked for,
                   \* error (status_code = 2), json (exported as OTLP/JSON)
    Stamp,         \* Stamp[r]: start_ns or time_ns
    Batches,       \* sets of rows that one transaction commits
    Readers,       \* BOUND: requests, one goroutine each
    Asks,          \* Asks[r]: what request r may be
    NoFilter,      \* an empty parameter
    DefaultLimit,  \* 1000 in the code
    MaxLimit,      \* 10000 in the code, maxTraceSpans too
    Nobody         \* value of conn when the connection is free

ASSUME QueryAssumption ==
    /\ Batches \subseteq SUBSET Rows
    /\ Stamp \in [Rows -> Int]
    /\ DefaultLimit \in Nat \ {0} /\ MaxLimit \in Nat /\ DefaultLimit <= MaxLimit
    /\ Nobody \notin Readers

(* GET /v1/query, /v1/traces/{id} and get_trace, /v1/metrics, /v1/logs, and *)
(* the other two MCP tools.                                                *)
Kinds == {"query", "trace", "metrics", "logs", "query_job", "query_run"}

ASSUME AsksAssumption ==
    \A r \in Readers : \A a \in Asks[r] : a.kind \in Kinds /\ a.limit \in Int

VARIABLES
    path,      \* -db-path: "file" or "memory"
    db,        \* committed rows
    conn,      \* memory: who holds the connection
    pc,        \* pc[r]: where the handler of request r is
    ask,       \* ask[r]: the request
    part,      \* part[r]: the next of its statements
    answer,    \* answer[r]: the rows read so far
    errors,    \* errors[r]: the errors array of query_job
    stable,    \* history: rows of the tables r reads that are in the
               \* database ever since r was asked
    snap       \* history: logs in it ever since the spans of r were read

readVars == <<pc, ask, part, answer, errors>>
vars == <<path, db, conn, readVars, stable, snap>>

Finished == {"done", "failed", "refused"}

AskValues == {NoFilter} \cup UNION { Asks[r] : r \in Readers }

TypeOK ==
    /\ path \in {"file", "memory"}
    /\ db \in SUBSET Rows
    /\ conn \in Readers \cup {Nobody}
    /\ pc \in [Readers -> {"idle", "select", "scan"} \cup Finished]
    /\ ask \in [Readers -> AskValues]
    /\ \A r \in Readers : pc[r] # "idle" => ask[r] \in Asks[r]
    /\ part \in [Readers -> 1 .. 3]
    /\ answer \in [Readers -> SUBSET Rows]
    /\ errors \in [Readers -> SUBSET Rows]
    /\ stable \in [Readers -> SUBSET Rows]
    /\ snap \in [Readers -> SUBSET Rows]

Init ==
    /\ path \in {"file", "memory"}
    /\ db = {}
    /\ conn = Nobody
    /\ pc = [r \in Readers |-> "idle"]
    /\ ask = [r \in Readers |-> NoFilter]
    /\ part = [r \in Readers |-> 1]
    /\ answer = [r \in Readers |-> {}]
    /\ errors = [r \in Readers |-> {}]
    /\ stable = [r \in Readers |-> {}]
    /\ snap = [r \in Readers |-> {}]

-----------------------------------------------------------------------------
(* What a request comes to.                                                *)

(* MUTANT of Reads: the logs are read before the spans.                    *)
ReadsLogsFirst(a) ==
    CASE a.kind \in {"query", "query_job", "query_run"} -> <<"logs", "spans">>
      [] a.kind = "trace"   -> <<"spans">>
      [] a.kind = "metrics" -> <<"metrics">>
      [] a.kind = "logs"    -> <<"logs">>

(* The tables a request reads, one statement each.                         *)
Reads(a) ==
    CASE a.kind \in {"query", "query_job", "query_run"} -> <<"spans", "logs">>
      [] a.kind = "trace"   -> <<"spans">>
      [] a.kind = "metrics" -> <<"metrics">>
      [] a.kind = "logs"    -> <<"logs">>

Tables(a) == { Reads(a)[i] : i \in DOMAIN Reads(a) }

(* handleQuery wants exactly one filter (by = "several": two or three), the *)
(* others their one parameter; both filters of handleGetLogs may be        *)
(* missing.                                                                *)
Accepted(a) == a.kind = "logs" \/ (a.value # NoFilter /\ a.by # "several")

(* MUTANT of HttpLimit: the largest limit is refused.                      *)
HttpLimitExclusive(n) == IF n > 0 /\ n < MaxLimit THEN n ELSE DefaultLimit

(* The limit parameter: 0 stands for a missing one and for one that Atoi   *)
(* does not take.                                                          *)
HttpLimit(n) == IF n > 0 /\ n <= MaxLimit THEN n ELSE DefaultLimit

(* What the store makes of the limit it is given.                          *)
StoreLimit(n) ==
    IF n <= 0 THEN DefaultLimit ELSE IF n > MaxLimit THEN MaxLimit ELSE n

RowLimit(a) ==
    CASE a.kind \in {"query", "metrics", "logs"}    -> StoreLimit(HttpLimit(a.limit))
      [] a.kind \in {"query_job", "query_run"}      -> StoreLimit(DefaultLimit)
      [] a.kind = "trace"                           -> MaxLimit

(* The trace_id column.  protojson reads a bytes field as base64, so the   *)
(* hex id of an OTLP/JSON span is stored as the hex of 24 other bytes: it  *)
(* equals no id of a client.                                               *)
StoredTrace(r) ==
    IF Data[r].json THEN <<"base64", Data[r].trace_id>> ELSE Data[r].trace_id

(* The WHERE clause.                                                       *)
Matches(a, r) ==
    CASE a.by = "trace_id" -> StoredTrace(r) = a.value
      [] a.by = "event_name" ->
             /\ a.value # NoFilter => Data[r].event_name = a.value
             /\ a.severity > 0 => Data[r].severity >= a.severity
      [] OTHER -> Data[r][a.by] = a.value

InTable(S, t) == { r \in S : Data[r].table = t }

-----------------------------------------------------------------------------
(* The handlers and tools.                                                 *)

(* QueryContext and BeginTx wait for a connection of the pool; the pool of  *)
(* a file has as many as are asked for.                                    *)
ConnFree == path = "memory" => conn = Nobody

Ask(r) ==
    /\ pc[r] = "idle"
    /\ \E a \in Asks[r] :
          /\ ask' = [ask EXCEPT ![r] = a]
          /\ pc' = [pc EXCEPT ![r] = IF Accepted(a) THEN "select" ELSE "refused"]
          /\ stable' = [stable EXCEPT ![r] =
                           IF Accepted(a) THEN { x \in db : Data[x].table \in Tables(a) }
                                          ELSE {}]
    /\ UNCHANGED <<path, db, conn, part, answer, errors, snap>>

HasPart(r) == part[r] \in DOMAIN Reads(ask[r])

(* MUTANT of Select: ORDER BY ... DESC.                                    *)
SelectNewest(r) ==
    /\ pc[r] = "select" /\ HasPart(r)
    /\ ConnFree
    /\ conn' = IF path = "memory" THEN r ELSE conn
    /\ LET found == { x \in InTable(db, Reads(ask[r])[part[r]]) : Matches(ask[r], x) }
       IN  \E V \in OldestOf(found, RowLimit(ask[r]), [x \in Rows |-> -Stamp[x]]) :
               answer' = [answer EXCEPT ![r] = @ \cup V]
    /\ snap' = IF Reads(ask[r])[part[r]] = "spans" /\ "logs" \in Tables(ask[r])
                 THEN [snap EXCEPT ![r] = InTable(db, "logs")] ELSE snap
    /\ pc' = [pc EXCEPT ![r] = "scan"]
    /\ UNCHANGED <<path, db, ask, part, errors, stable>>

(* QueryContext of the next statement: which rows the scan is going to see *)
(* is settled when it begins.                                              *)
Select(r) ==
    /\ pc[r] = "select" /\ HasPart(r)
    /\ ConnFree
    /\ conn' = IF path = "memory" THEN r ELSE conn
    /\ LET found == { x \in InTable(db, Reads(ask[r])[part[r]]) : Matches(ask[r], x) }
       IN  \E V \in OldestOf(found, RowLimit(ask[r]), Stamp) :
               answer' = [answer EXCEPT ![r] = @ \cup V]
    /\ snap' = IF Reads(ask[r])[part[r]] = "spans" /\ "logs" \in Tables(ask[r])
                 THEN [snap EXCEPT ![r] = InTable(db, "logs")] ELSE snap
    /\ pc' = [pc EXCEPT ![r] = "scan"]
    /\ UNCHANGED <<path, db, ask, part, errors, stable>>

Release(r) == conn' = IF conn = r THEN Nobody ELSE conn

(* MUTANT of Scan: the loop ends before rows.Next() is false, the rows are *)
(* closed only by the deferred call of QueryByKey.                         *)
ScanStopsEarly(r) ==
    /\ pc[r] = "scan"
    /\ part' = [part EXCEPT ![r] = @ + 1]
    /\ pc' = [pc EXCEPT ![r] = "select"]
    /\ conn' = IF conn = r /\ part[r] = Len(Reads(ask[r])) THEN Nobody ELSE conn
    /\ UNCHANGED <<path, db, ask, answer, errors, stable, snap>>

(* scanSpans and its like read to the last row, and that gives the         *)
(* connection back: QueryByKey needs it for its second statement.          *)
Scan(r) ==
    /\ pc[r] = "scan"
    /\ part' = [part EXCEPT ![r] = @ + 1]
    /\ pc' = [pc EXCEPT ![r] = "select"]
    /\ Release(r)
    /\ UNCHANGED <<path, db, ask, answer, errors, stable, snap>>

(* MUTANT of Fails: rows.Err() is not looked at, what was read so far is   *)
(* the answer.                                                             *)
FailsWithHalf(r) ==
    /\ pc[r] \in {"select", "scan"} /\ HasPart(r)
    /\ Release(r)
    /\ pc' = [pc EXCEPT ![r] = "done"]
    /\ UNCHANGED <<path, db, ask, part, answer, errors, stable, snap>>

(* A statement or a scan fails, the client's going away included: the      *)
(* deferred rows.Close() runs, the answer is 500 and no rows.              *)
Fails(r) ==
    /\ pc[r] \in {"select", "scan"} /\ HasPart(r)
    /\ Release(r)
    /\ answer' = [answer EXCEPT ![r] = {}]
    /\ stable' = [stable EXCEPT ![r] = {}]
    /\ snap' = [snap EXCEPT ![r] = {}]
    /\ pc' = [pc EXCEPT ![r] = "failed"]
    /\ UNCHANGED <<path, db, ask, part, errors>>

(* ErrorSpans(spans) of queryJobHandler.                                   *)
ErrorSpans(S) == { x \in InTable(S, "spans") : Data[x].error }

Respond(r) ==
    /\ pc[r] = "select" /\ ~ HasPart(r)
    /\ pc' = [pc EXCEPT ![r] = "done"]
    /\ errors' = IF ask[r].kind = "query_job"
                   THEN [errors EXCEPT ![r] = ErrorSpans(answer[r])]
                   ELSE errors
    /\ UNCHANGED <<path, db, conn, ask, part, answer, stable, snap>>

Serve(r) == Select(r) \/ Scan(r) \/ Respond(r)

-----------------------------------------------------------------------------
(* Ingest and retention, a transaction or statement at a time.             *)

Commit(B) ==
    /\ ConnFree
    /\ B \cap db = {}
    /\ db' = db \cup B
    /\ UNCHANGED <<path, conn, readVars, stable, snap>>

(* A statement of DeleteBefore or EnforceMaxSize: the oldest rows of one   *)
(* table.                                                                  *)
Retire ==
    /\ ConnFree
    /\ \E t \in {"spans", "logs", "metrics"} : \E n \in 1 .. Cardinality(InTable(db, t)) :
           \E V \in OldestOf(InTable(db, t), n, Stamp) :
               /\ db' = db \ V
               /\ stable' = [r \in Readers |-> stable[r] \ V]
               /\ snap' = [r \in Readers |-> snap[r] \ V]
    /\ UNCHANGED <<path, conn, readVars>>

Next ==
    \/ \E r \in Readers : Ask(r) \/ Serve(r) \/ Fails(r)
    \/ \E B \in Batches : Commit(B)
    \/ Retire

Spec == Init /\ [][Next]_vars

(* net/http runs a goroutine per request, so one that can go on does; a    *)
(* failure is never counted on.  database/sql hands a freed connection to  *)
(* any waiter, and the requests are finitely many.                         *)
FairSpec == Spec /\ \A r \in Readers : WF_vars(Serve(r))

-----------------------------------------------------------------------------
(* A row that r asked for is in its answer, unless the statement was cut   *)
(* at n rows, none of them newer.                                          *)
Told(r, x, n) ==
    \/ x \in answer[r]
    \/ LET half == InTable(answer[r], Data[x].table)
       IN  Cardinality(half) = n /\ \A y \in half : Stamp[y] <= Stamp[x]

AskedFor(r) ==
    UNION { { x \in InTable(Rows, Reads(ask[r])[i]) : Matches(ask[r], x) } :
              i \in DOMAIN Reads(ask[r]) }

(* After how many rows an answer may be cut.  "max rows (default 1000, max *)
(* 10000)" (docs/usage.md, api/openapi.yaml) is said of /v1/query, metrics *)
(* and logs.  That a trace is cut at maxTraceSpans is in CHANGELOG.md, in   *)
(* THREAT_MODEL.md and in a comment of the store; what the API's documents *)
(* say of a trace instead is TraceFound.  The 1000 of query_job and        *)
(* query_run is said nowhere: it is the default of the others.             *)
StatedLimit(a) ==
    IF a.kind \in {"query", "metrics", "logs"} /\ a.limit \in 1 .. MaxLimit THEN a.limit
    ELSE IF a.kind = "trace" THEN MaxLimit ELSE DefaultLimit

(* Every matching row that was in the database from before the request to  *)
(* its answer is in the answer, or the oldest are, as many as StatedLimit  *)
(* has: whatever was committed, deleted or failed meanwhile (QueryByKey,   *)
(* GetTrace, QueryMetrics, QueryLogs).                                     *)
StableRowsFound ==
    \A r \in Readers : pc[r] = "done" =>
        \A x \in stable[r] \cap AskedFor(r) : Told(r, x, StatedLimit(ask[r]))

(* The logs of an answer are no older than its spans: a matching log that  *)
(* was committed when the spans were read is there too, so that nobody     *)
(* sees a span without the logs that were stored before it.                *)
LogsNoOlderThanSpans ==
    \A r \in Readers : pc[r] = "done" =>
        \A x \in InTable(snap[r] \cap AskedFor(r), "logs") :
            Told(r, x, StatedLimit(ask[r]))

(* In memory the statement that is being scanned has the connection, so    *)
(* the rows do not change under it; between statements nobody has it.      *)
OneCursor ==
    /\ conn # Nobody => path = "memory" /\ pc[conn] = "scan"
    /\ \A r \in Readers : path = "memory" /\ pc[r] = "scan" => conn = r

(* The inductive invariant: what holds of the tables that r has read so    *)
(* far, and of the rows the history variables remember.                    *)
ReadSoFar(r) ==
    { Reads(ask[r])[i] : i \in { j \in DOMAIN Reads(ask[r]) :
                                   \/ j < part[r]
                                   \/ j = part[r] /\ pc[r] = "scan" } }

Known(r) == stable[r] \cup snap[r]

ReaderInv(r) ==
    /\ pc[r] = "idle" => part[r] = 1 /\ answer[r] = {} /\ snap[r] = {}
    /\ pc[r] = "scan" => HasPart(r)
    /\ pc[r] \in {"select", "scan"} => Known(r) \subseteq db
    /\ pc[r] \in {"select", "scan", "done"} =>
           /\ \A x \in answer[r] : Data[x].table \in ReadSoFar(r)
           /\ \A x \in Known(r) \cap AskedFor(r) :
                  Data[x].table \in ReadSoFar(r) => Told(r, x, StatedLimit(ask[r]))
    /\ pc[r] = "done" => ~ HasPart(r)

QueryInv == TypeOK /\ OneCursor /\ \A r \in Readers : ReaderInv(r)

(* A request, to whoever waits for its answer: the tables it has read, and *)
(* what it is for.                                                         *)
Good == { a \in UNION { Asks[r] : r \in Readers } : Accepted(a) }

Wants ==
    [a \in Good |->
        [t \in Tables(a) |-> { x \in InTable(Rows, t) : Matches(a, x) }]]

Reply == [r \in Readers |-> IF pc[r] \in {"select", "scan"} THEN "none" ELSE pc[r]]

Looked == [r \in Readers |-> IF pc[r] \in {"select", "scan", "done"}
                            THEN ReadSoFar(r) ELSE {}]

Looks == INSTANCE AtomicRead WITH
    Limit <- [a \in Good |-> StatedLimit(a)],
    ListsErrors <- { a \in Good : a.kind = "query_job" },
    ErrorRows <- ErrorSpans(Rows),
    NoAsk <- NoFilter,
    reply <- Reply, looked <- Looked

(* Query implements the abstract specification.  An answer is whole, and   *)
(* each table in it is as it was at one moment; a request that fails half  *)
(* way, or between its two statements, answers with no rows at all; and    *)
(* what is cut off is never older than what is there, nor cut before there *)
(* are as many rows as StatedLimit has.                                    *)
ReadsAreLooks == Looks!Spec

(* A request that is served is answered: it never waits for ever for the   *)
(* connection, not even for one that it holds itself.                      *)
QueryEnds == \A r \in Readers : pc[r] \in {"select", "scan"} ~> pc[r] \in Finished

(* "query_job surfaces error-status spans in a dedicated errors array so a *)
(* failing agent gets its failure context in one call" (docs/usage.md).    *)
ErrorsReported ==
    \A r \in Readers : pc[r] = "done" /\ ask[r].kind = "query_job" =>
        ErrorSpans(stable[r] \cap AskedFor(r)) \subseteq errors[r]

(* "Returns every span carrying the given trace_id" (api/openapi.yaml),    *)
(* "all spans for a trace" (docs/usage.md): all spans that were exported   *)
(* with the id are in the answer, however many, and however they were      *)
(* encoded ("hex trace/span ids [...] which is how protojson represents    *)
(* bytes", receiver_json_test.go).                                         *)
TraceFound ==
    \A r \in Readers : pc[r] = "done" /\ ask[r].kind = "trace" =>
        { x \in InTable(stable[r], "spans") : Data[x].trace_id = ask[r].value }
            \subseteq answer[r]
=============================================================================
