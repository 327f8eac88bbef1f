# otelstore in TLA+

otelstore receives OpenTelemetry traces, logs and metrics over OTLP/HTTP and
OTLP/gRPC, keeps them in SQLite, and answers questions about them over a query
API and as MCP tools. These modules model how it does that, at the grain at
which its goroutines, its SQL statements, its clients and its crashes interleave.
Paths are relative to `src/`.

- [The system](#the-system)
- [Modules and how they correspond to the code](#modules-and-how-they-correspond-to-the-code)
- [Runs](#runs)
- [Fairness](#fairness)
- [Proofs](#proofs)
- [Disagreements between code and documents](#disagreements-between-code-and-documents)
- [Not modelled](#not-modelled)
- [Plan](#plan)

To check a run: `tlc -config IngestFile.cfg MCIngest`. To check the proofs of a
module: `tlapm IngestProofs.tla`.

## The system

| component | code | state | operations |
|---|---|---|---|
| ingest over HTTP | `internal/receiver` | none of its own; a goroutine per request | `POST /v1/traces`, `/v1/logs`, `/v1/metrics`: read, decode, insert group by group, answer |
| ingest over gRPC | `internal/grpcreceiver` | the same | `Export` of three services: the same walk |
| store, write path | `internal/store` | the database; the connection pool | `Open`, `InitSchema`, `InsertSpans`, `InsertLogs`, `InsertMetrics`, `Close` |
| store, retention | `internal/store`, sweeper in `cmd/otelstore` | the clock, the ticker | `DeleteBefore`, `DBSize`, `EnforceMaxSize` |
| store, read path | `internal/store` | the statement being scanned and its snapshot | `QueryByKey`, `GetTrace`, `QueryMetrics`, `QueryLogs`, `ErrorSpans`, `Ping` |
| query API | `internal/query` | none; a goroutine per request | `GET /v1/traces/{id}`, `/v1/query`, `/v1/metrics`, `/v1/logs`, `/healthz`, `/readyz` |
| MCP tools | `internal/mcpserver` | none of its own | `query_job`, `query_run`, `get_trace` |
| process life | `cmd/otelstore` | which servers run, the store | start, signal, shutdown of four servers, close |
| redaction | `internal/redact` | a list of rules | rewrite attribute values before they are stored |
| authentication | `internal/auth`, interceptor in `grpcreceiver` | a token | one comparison per request |
| emit helpers | `emit`, `emit/rust` | none | set attributes on spans through an SDK |

How they interact: the receivers, the query API and the MCP tools are goroutines
of one process that call the store; the store is shared through `database/sql`
and SQLite and has no lock of its own. The sweeper is one more goroutine that
calls the store. `main` starts the four servers and stops them in order. Clients
are outside: they time out, hang up and send again.

What is hard:

- One export request is several transactions, one for each scope group, and one
  answer. A failure, a timeout or a crash may fall between any two of them, and
  the client then sends the whole request again, perhaps while the first
  handler still runs.
- `spans` has a primary key and `logs` and `metrics` have none, so a retry means
  something different for each.
- A file database (WAL) has one write lock and many readers, each with a
  snapshot; `:memory:` has one connection that everybody waits for, and loses
  everything with the process.
- The sweeper deletes while others insert and read, a statement at a time.
- A read is one or two statements; commits and deletions fall between them.
- Shutdown waits for some calls without a limit and for others with one.
- An attribute goes through three levels that override one another, a type
  conversion, redaction, columns, JSON and back; events of a span take a way of
  their own; and the next process may have other rules.

What makes each component correct, and the properties that say so:

| component | must hold | property |
|---|---|---|
| ingest | an acknowledged request is stored, all of it | `AckedIsStored` |
| | groups are atomic and stored in order | `GroupAtomic`, `GroupsInOrder` |
| | a refused attempt left nothing from the failing group on | `RefusedLeavesNothing` |
| | no two spans with one key; an acknowledged trace was stored by one attempt | `SpanKeyUnique`, `AckedSpansStoredOnce` |
| | every attempt is answered: it only goes onward, and nobody waits in a ring | `AttemptEnds`, `NeverBack`, `NobodyStuck` |
| | all of this as one abstract specification | `KeepsPromise` |
| store | every return gives lock and connection back | `NobodyStuck` (and `WriterInTx`, a part of `IndInv`) |
| ingest beside retention | an acknowledged row stays until it expires; other attempts left nothing that has not | `AckedUntilSwept`, `OthersSpansExpired` |
| | ingest is to the sweeper what Retention takes it for | `KeepsRetention` |
| retention | the age sweep is complete, deletes only for cause, and expired rows go | `AgeSweepComplete`, `DeletedForCause`, `ExpiredRowsGo` |
| | what the size cap really does; sweeps end, since each of their steps leaves less to do | `OverCapWipesAll`, `SweepEnds`, `SweepRunsDown` |
| read path | an answer is complete, or cut at no less than the limit of its kind of request | `StableRowsFound` |
| | logs are no older than spans | `LogsNoOlderThanSpans` |
| | a read is one look at each of its tables, all of it or an error | `ReadsAreLooks` |
| | a request never waits for ever | `QueryEnds` |
| ingest, retention and reading | who asks for an acknowledged row finds it; nothing uncommitted is shown; nobody waits in a ring | `AckedFound`, `CommittedShown`, `HolderGoesOn` (theorems about System, no run) |
| process life | no RPC is cut; HTTP only after the time is over; the store closes last | `GrpcNeverCut`, `HttpCutOnlyLate`, `StoreOutlivesServers` |
| | the HTTP phase ends | `HttpPhaseEnds` |
| redaction | nothing in the database depends on a withheld value | `WithheldLeavesNoTrace` |
| | a further rule withholds, and changes nothing else | `StricterShowsLess` |
| attributes | found by the effective id, shown as sent, refused for cause | `FoundByKey`, `ShownAsSent`, `FailsForCause` |
| authentication | one token for every server | `OneDoor` |
| emit helpers | a call is the same to a reader in Go and in Rust | `HelpersAgree` |
| | what they send is found by the ids they were given | `EmittedFound` |

The hazards behind these properties, each at its line, are in `PROJECT.json`.

## Modules and how they correspond to the code

```
Exports <- Store <- Ingest <- IngestInv <- MCIngest, IngestProofs <- ProgressProofs
   ^                   |  ^
   +-- AtomicIngest <--+  +-- Daemon <- MCDaemon, DaemonProofs (and ProgressProofs)
                              |   ^
Oldest  <- Retention <--------+   +-- System <- SystemProofs (and DaemonProofs)
   ^          ^-- RetentionProofs <-- DaemonProofs, MCRetention
   +---- Query <- QueryProofs <-- System, MCQuery
   |       |
   +-- AtomicRead
Shutdown <- ShutdownProofs, MCShutdown
Attributes <- Emit <- Pipeline <- PipelineProofs, MCPipeline
              Auth <----+
```

An arrow points from a module to one that extends it. `AtomicIngest`,
`AtomicRead` and `Retention` are instantiated, by Ingest, Query and Daemon: the
first two implement the abstract specifications of ingest and of reading, the
third, with the ingest path in place of arriving rows, implements Retention.
RetentionProofs and QueryProofs are instantiated, by DaemonProofs and System, so
that what is proved of a component alone is cited where it is composed.

**Exports** has the data of ingest: requests, their groups
(ResourceSpans/ScopeSpans and the like), records, and what a record is to the
store: its key, whether its `INSERT` can succeed (`Poison`: `json.Marshal`
refuses NaN and Inf, `database/sql` refuses a `uint64` above 2^63-1), and
whether it is of a metric type that `InsertMetrics` skips (`Unsupported`). A row
is named by the attempt that wrote it and its place in the request.

**Store** has the committed rows `db`, the open transaction of each attempt
`pending`, and `writer`, which is SQLite's write lock for a file and the only
connection of the pool for `:memory:`. `BeginTx` is deferred for a file, so the
first `INSERT` takes the lock. `Rollback` is the deferred `tx.Rollback()`.
`synced` is what a power failure cannot take: `synchronous=NORMAL` lets the
disk lag behind by a suffix of the commits. The columns of a row, the redactor
and the merge of attributes are the matter of Attributes.

**Ingest** has an action for each step of a handler: `Decode` and `Reject`
(`readAndDecode`), the walk over the groups (`SkipEmptyGroup`, `Begin`,
`BeginFails`), the loop of `InsertX` (`InsertRow`, `SkipUnsupported`,
`InsertFails`, `TxFails`), `CommitGroup` and `Respond`. HTTP and gRPC handlers
are the same walk and share these actions. Each attempt is a process, so two
attempts of one request may run side by side. Clients send, get an answer, or
give up (`GiveUp` cancels the context of a handler that still runs) and send
again. `Crash` ends the process (a file keeps commits, memory loses all),
`PowerLoss` the machine, `Restart` opens the database again. `Quiescent` is the
stuttering step of a state in which all is said, so that TLC's deadlock check
finds every other state without a step.

**AtomicIngest** is what ingest promises, without transactions, locks or
connections: a group is stored at once, in order, without a duplicate key; "ok"
comes only when everything is stored; a dead process leaves whole groups in
order. `Ingest!Promise` instantiates it with the committed rows and the outcome
of each attempt.

**Oldest** is `ORDER BY stamp LIMIT n`, shared by the statements that evict and
those that read. Ties are SQLite's choice.

**Retention** is the sweeper goroutine: `StartSweep` reads the clock,
`DeleteBefore` is one `DELETE` for each table, `CheckSize` is `DBSize` and the
head of the loop of `EnforceMaxSize`, `Evict` is one statement of a pass.
`Ingest`, the commit of a whole group, and `Tick` run between any two of them,
and any statement may fail.
The size of a database is `page_count * page_size`, and `page_count` never falls
(no `auto_vacuum`, no `VACUUM`). One row is one page here, above the `EmptyPages` of
the schema, which keeps what matters: the size is the high-water mark of the rows.
A cap may lie below `EmptyPages`: then every size sweep deletes what it finds.

**Daemon** is one process from its first request on: the handlers of Ingest and
the sweeper of Retention over one database. `Retention` is instantiated with
`rows <- db`: what the sweeper sees is what the handlers have committed. A
statement of the sweeper needs the write lock, or in memory the connection, and
waits for it (`Turn`). `Grow` is what a commit does to `page_count`. A row takes
its table and its stamp from its record (`SignalOf`, `StampOf`).

**Query** is a request of the query API or a tool: `Ask` (the checks of the
parameters), then for each of its statements `Select` (`QueryContext`: the
snapshot) and `Scan` (the loop to the last row, which gives the connection
back), then `Respond`. `Fails` is any error of these, the client's going away
included. `Commit` and `Retire` are what a reader sees of a transaction of ingest
and of a statement of retention. Two limits are checked one after the other
(`HttpLimit`, `StoreLimit`), as in the code. `stable` and `snap` are history
variables: rows that stay in the database from the request on, and logs that
stay there from the reading of the spans on. A row that was retired may be
committed again and stands for a later one like it. The ids of OTLP/JSON
spans are stored as `protojson` decodes them (`StoredTrace`).

**AtomicRead** is what a read promises, without connections, cursors or
positions: each table a request is for is looked at once, spans before logs, and a
look takes the oldest rows that match, up to a limit; the answer is all that was
looked up, or an error and nothing. `Query!Looks` instantiates it with `StatedLimit`,
not with the two checks of the code. `StatedLimit` is what `docs/usage.md:79` and
`api/openapi.yaml:57` say of `/v1/query`, metrics and logs, and for a trace the 10000 of
`CHANGELOG.md:161` and `THREAT_MODEL.md:76`; the 1000 of `query_job` and `query_run` is
in no document, there it is the default of the others. That an answer which is cut
does not say so, and that the API's own documents promise a whole trace, is not a
matter of these properties but of `query_errors` and `query_trace`.

**System** is the whole data path of one process: Daemon, and the readers of Query
over the same rows. A commit that a reader sees is the `CommitGroup` of a handler, a
deletion a statement of the sweeper; in memory a `SELECT` waits for the transaction
that has the connection (`ReaderStep`), a transaction or a statement of the sweeper
for the reader that scans (`WriterStep`, `DeleterStep`). `owed` is a history
variable: the rows of which clients knew that they were stored when a request asked.

**Shutdown** is `main` from the signal on: `GracefulStop` of gRPC, which waits
for every RPC; `Shutdown` of three HTTP servers with one deadline of five
seconds that started before `GracefulStop`; `Close`; and the end of the process,
which cuts whatever still runs. `HandlerReturns` uses the store, and fails if it
is closed. The sweeper is told to stop but not waited for; each of its
statements commits by itself, so it has no place in the model.

**Attributes** is what the store makes of the attributes of a record, function by
function: `ConvertAnyValue`, `MergeAttributes`, the Redactor (`New`, `Match`,
`Apply`), `MergedAttrs`, the columns (`RowOf`), the events of a span, what
`json.Marshal` refuses (`Storable`), and the way back (`Scan`). A value has a kind
and an opaque text; what the standard library does with text (lower case,
prefixes, `%v`, the rounding of a number to a float64) is given by constants. An
array or a kvlist has scalars in it: deeper nesting is left out.

**Emit** has the five span helpers and the recording of an error, once as the Go
source has them and once as the Rust source has them.

**Auth** has the token (`Token`, `Starts`), the middleware, the interceptor and
`checkAuth`, and what `main` puts in front of which server (`Admits`).

**Pipeline** puts the three together: processes that start one after the other
on one database with different configurations (`Boot`, `Stop`), exports that are
let in, merged, redacted and stored or refused as a batch (`Export`), queries by
run and by job over either server (`Ask`), requests that are turned away
(`Refuse`) and the two health endpoints (`Probe`). A row carries two history
fields, the record as sent and the redactor in force. An insert happens at once
and a read is whole, and a batch fails only on what JSON cannot hold: locks,
keys, other failures and limits are in Ingest and Query. A batch stands for
every batch like it with ids of its own, so that rows with the same content are
one row.

External behaviour that the models take from how the code uses it: SQLite
(locks, WAL, snapshots, recovery; driver `modernc.org/sqlite`, which keeps an
in-memory connection after a rollback), `database/sql` (pool, cancellation),
`net/http` and `grpc-go` (a goroutine per request, shutdown), and OTLP exporters
that retry.

## Runs

| run | states | what it shows |
|---|---|---|
| `ingest_file` | 524 000 | Two trace exports that share a span, two attempts each, a file, one crash: all safety properties of ingest, that handlers go onward only and never wait in a ring, the inductive invariant, and the refinement |
| `ingest_power` | 587 000 | A metrics export with a histogram in it under a crash and a power failure, beside a request that does not unmarshal: the refinement, and with it atomicity and order, survives lost commits |
| `daemon` | 125 000 | Traces, metrics with a histogram before two gauges, and logs with a record that can never be stored, beside both sweeps, in memory behind one connection: what an answer is worth, that Daemon implements Retention, and that attempts and sweeps end |
| `retention_sweep` | 38 500 | Both sweeps beside ingest, one failing statement: complete, for cause, each step leaves less to do unless rows arrive, and they end |
| `retention_cap` | violation | the cap is not reached by deleting rows |
| `retention_busy` | violation | ingest can keep the eviction loop going |
| `shutdown_all` | 15 800 | A call at each of the four servers: the order of the shutdown protects them |
| `shutdown_held` | violation | an open RPC holds `GracefulStop` |
| `query_all` | 461 000 | Every kind of request, beside ingest, retention and a second request, on a file and in memory: its answer is complete or cut at the limit of its kind, and Query implements AtomicRead |
| `query_errors` | violation | the errors of a job behind the limit are not reported |
| `query_trace` | violation | of a trace of three spans the answer has one: the span exported as JSON is not found under its id, the newest is cut off |
| `pipeline` | 40 300 | Six configurations and eleven batches through two processes: nothing withheld leaves a trace, a rule more changes nothing else, records are found and shown as sent, spans of the emit helpers by the ids they were given, one token opens every server, Go and Rust agree |

Why the bounds are enough for the questions asked:

- `MaxAttempts = 2`, `MaxCrashes = 1`, `MaxPowerLosses = 1`: every property
  relates at most an attempt, the one it is retried by and one loss. Two
  requests that share a key give all conflicts between strangers, two attempts
  of one request all conflicts of a request with itself. A request of two groups
  with one and two spans lets a failure fall before, in, between and after
  transactions; an empty group and a malformed request give the early returns.
  The proofs remove these bounds.
- Retention: rows in three tables, two of them in one table so that
  "oldest" has a meaning and `Batch = 1` takes several passes; stamps at 0
  (a record without time) and ahead of the clock. `Commits` are the groups that
  may arrive. `Endless` makes row ids recycle, so that ingest never runs dry in
  `retention_busy`. `EmptyPages = 1` and a cap above it: the cap is reached by rows;
  the proofs include caps below the size of an empty database.
- Daemon: `MaxSent = 1`, one of three requests is ever sent and may be retried
  (`MaxAttempts = 2`): properties relate an attempt to its retry and to the
  sweeper, and exports that compete are the matter of `ingest_file`. The trace
  export has a span without a time, which expires while the request is under
  way; two attempts of the metrics export exceed `Cap = 3` beside the one page of the schema, which the eviction
  needs to run. No crash: in memory a crash is a fresh start. The proofs remove
  the bounds.
- Pipeline: two processes (`MaxBoots`) relate a configuration to the next one;
  `MaxRows = 2` stops exports once that many rows are there, which leaves two
  rows of any two batches to compare (the batch of all helpers has ten). The
  batches have ids on each level and of each type, those of the helpers under others of
  their resource and scope, a key twice, prompts that differ on the span, its scope and its event, values that JSON cannot hold on
  each level, nested, overridden and in an event, and an integer beyond 2^53;
  the configurations cover each source of token and rules, a rule with capitals,
  prefixes that withhold more or less than one another, the bare `*`, a blank list,
  a blank and an unreadable token file. The proofs are for any of these.
- Query: limits 1 and 2 stand for 1000 and 10000, so that three spans go over
  either. Commits of two rows and of one. The second request is there to compete
  for the connection. In `query_trace` both limits are 1 and the three spans of the
  trace are committed at once, so that nothing but the code's own steps can be the
  reason for a missing one.
- Shutdown: one call for each server, two RPCs where one is held. The proofs
  are for any number of calls.

`shutdown_all` and `shutdown_held` have `CHECK_DEADLOCK FALSE`, because the
process exits, and `pipeline`, because nobody has to start the program again.
All other runs check deadlock.

Each property of a passing run has a mutant in `PROJECT.json`: a plausible bug in
the mapped definition under which TLC finds the property violated. The mutants
stand beside the definitions they change.

## Fairness

- `Ingest!FairSpec`: weak fairness of each handler, since Go runs every goroutine
  that can run. Nothing is assumed of clients, crashes or restarts. A waiter
  for the connection gets no more than weak fairness: attempts are finitely many,
  so it is enough.
- `Daemon!DaemonSpec`: the two of Ingest and Retention together, weak fairness of
  each handler and of the sweeper. Requests are finitely many, so weak fairness
  of the sweeper is enough for it to get the connection in the end.
- `Query!FairSpec`: weak fairness of the steps by which a request succeeds. An
  error is never counted on to end one.
- `Retention!Spec`: weak fairness of the sweeper: ticks keep coming and
  statements end. None for ingest or the clock.
- `Shutdown!FairSpec`: weak fairness of `main`, of the deadline and of handlers,
  except that a stream of the MCP server may stay open for as long as its
  client likes. None for clients.

## Proofs

The proofs hold for every value of the constants that satisfies the named
assumptions of the modules: any requests, groups and keys, any number of
attempts and crashes, any number of readers, rows and limits, any number of
calls.

**IngestProofs.** `SpanKeyUnique`, `GroupAtomic` and the others are not inductive:
whether a commit keeps them depends on what is in the transaction, and that
depends on where the walk stands. `IngestInv!IndInv` adds this, in named parts:

- `ControlInv`: an attempt that was not decoded is at group 1, attempts beyond
  `tries` were not made, and "acked" comes from an attempt that is "ok";
- `TxInv`: an open transaction has exactly the rows of its group before the next
  record, and the lock as soon as it has a row;
- `WalkInv`: groups behind the walk are stored, groups at it or before it are not;
- `DataInv`: rows are where their request has them, `db` and `synced` are whole
  groups in order;
- `KeyInv`: keys are unique in `db` and between `db` and a transaction.

`Invariance` proves it with a lemma for each action. From it follow
`TypeCorrect`, `AckedStored`, `Atomicity`, `Prefixes`, `UniqueKeys`, `Refusals`,
`NoLeak` and `SpansOnce`. `Refinement` proves that `Spec` implements
`AtomicIngest!Spec`: `CommitGroup` is `StoreGroup`, an answer is `Reply`, a crash
or power failure is `Die`, and the rest stutter. TLC checks `IndInv`, which
has `TypeOK` and `WriterInTx` as parts, as an invariant of `ingest_file`.

**ProgressProofs.** That an attempt ends (`AttemptEnds`) is liveness and stays with
TLC. Its reasons are not, and they are proved for any requests: a handler's every
step, and a crash, takes it onward, to a later stage, to the next group or further
into its transaction (`OnlyOnward`, an action property; `HandlerOnward` has the
steps); it cannot run past its request (`Bounded`: at most one group and one record
behind the last, proved with `TxInv`), so its steps are finitely many; and until it
has answered it can go on, or somebody else can who holds what it waits for
(`NoRing`, from `WriterInTx`, the part of `TxInv` that says that every return gives
lock and connection back). What fairness adds is only that those who can go on do.

**ShutdownProofs.** `ShutdownInv` says which servers are down at each stage of
`main`, and that a server whose stop has returned serves nobody unless it is an
HTTP server and the time was over. `ShutdownInvariance` proves it, and `GrpcSafe`,
`HttpSafe` and `StoreLast` follow. `ShutdownOnward` is the safety side of its
progress: `main` goes one way through its stages (`StageNo`), no call is added to those
it is waiting for (`Awaited`), and what has ended stays ended.

**QueryProofs.** `QueryInv` says of each request that its answer has rows of the
tables it has read so far, and that for those tables every row it asked for and
the history remembers is there or cut off by as many rows that are not newer.
`LimitAsStated` proves that the checks of the limit, one after the other,
come to `StatedLimit`; `OldestLeavesNewer` what `LIMIT` leaves out.
`QueryInvariance` proves the invariant, `StableFound` and `LogsAfterSpans` follow.
`ReadRefinement` proves that Query implements `AtomicRead!Spec`: `Select` is a look,
`Scan`, `Release` and waiting for the connection stutter, `Fails` is an error and no rows,
a commit and a statement of retention are rows gained and lost. It needs
`ServedInv`, that a request being served is one that was accepted, and
`ReadInOrder`, that the table of the next statement is the one not looked at yet,
with the spans done before the logs. `RequestsOnward`: every step of a request takes it
to a later `Place`, of which there are seven at most, and nobody changes an answer
that was given. `NoReaderStuck`: a request that was accepted can go on, or waits for a
reader that scans and can go on itself.

**RetentionProofs.** `DeletedForCause` needs `CauseInv`: whenever a statement of a
sweep is about to run, its cutoff lies at least a window before the clock, or the
database is over its cap (and stays so, since the size never falls:
`PagesNeverFall`). `AgeSweepComplete` and `OverCapWipesAll` are about rows that do
not come back, so they are proved under `~ Endless`, from `HistoryInv`: rows that
were due or doomed when the sweep began are gone from the tables behind it, and
`PassClean`: a pass that has deleted nothing has found the tables behind it empty
of them, which is why the pass that ends the loop proves the database clean.
`RunsDownAlways` is the reason why sweeps end: `LeftOfSweep` is how many statements
may be left of one, four for each row there is, since each pass but the last deletes a
row; every step of a sweep makes it less, and an arriving group adds no more than a
pass for each of its rows. That is exactly what `retention_busy` lives on: only
arriving rows prolong the loop. `OldestFirst` is how the sweeper looks from outside:
whole groups come, and what goes is the oldest of one table, which is what Query takes
for granted. There may be infinitely many rows in the world; the groups are finite.

**DaemonProofs.** With the sweeper beside it, `IngestInv!IndInv` does not hold: rows
vanish. `MineInv` has the parts that survive deletion, in the first place that a
walk has stored nothing at or ahead of it (`Fresh`) and that keys are unique.
`SweepInv` is `CauseInv` over the database of the handlers. `KeptInv` says that
what lies behind a walk is stored or expired as long as the database has not been
over its cap (`Calm`), `Fits` that the size is at least the number of rows. From
them follow `AckedKept`, `OthersExpired` and `DaemonRefusals`. `DaemonRefinement`
proves that Daemon implements `Retention!SafeSpec`: a commit is the arrival of a
group of rows that were not there (`CommitIsNew`, which needs `Fresh`), every
other step of a handler is a stutter, and the sweeper's steps are its own. `DaemonLoss` is
what `LostForCause` says of the sweeper alone: no step of the whole process, a
handler's included, loses a row that is younger than the window unless the database
is over its cap. `DaemonNoRing` adds the sweeper to those who may wait for
the lock or the connection: it has its step, or waits for a transaction that can
go on without it. `DaemonOnward` says that no deletion sets a handler back. With the
refinement, what RetentionProofs has of a database of arriving rows holds of that of
the handlers: `DatabaseFits` discharges its assumption, `SameSweeper` identifies the two
instances, and `DaemonRunsDown` and `DaemonOldestFirst` follow. All are theorems about
`DaemonSafe`, which is `DaemonSpec` without its fairness.

**SystemProofs.** Two refinements carry the results of the parts over to the whole.
`SystemIsDaemon`: readers only read. `SystemIsQuery`: handlers and sweeper are an
environment as Query describes it, because of `DaemonOldestFirst`, because whoever
changes the database in memory has the connection (`ChangersHold`, with `OneHolder`),
and because what readers remember are rows of the database (`HistoryInv`).
`AckedIsFound` joins them: `OwedInv` says that while a request is served a row it was
owed is one it has met (`stable`) or has expired. When it asks this is `AckedUntilSwept`;
a deletion keeps it by `LossHasCause`; and when it is answered `StableRowsFound` of
Query says the rest. `OnlyCommitted` needs that walks never go back (`WalkOnward`).
`NoRingAtAll` is `HolderGoes` of handlers and `OneCursor` of readers, joined by `OneHolder`.
The theorems assume `ReadersFit`: of requests and limits what Query assumes, and that a
row is in the table of its record.

**PipelineProofs.** `PInv` says that every row is `RowOf` of its record under its
rules and that the last answer is about the rows there are; the rest is about
`RowOf`. `MergeEffective`: three maps merged one over the other hold the last value
in the concatenation of the three lists (`LastConcat`, `OverrideList`), which is
how `SentAttrs` states what the reader should get, so `Found`, `AsSent` and
`ForCause` follow. `BlindRow`: the row of a record is the row of the record with its
withheld values blanked, so two records that are the same when blanked are the
same row (`NoTrace`). `RulesOnlyWithhold` compares a record under two lists of rules,
one of which withholds all that the other does: key by key the stricter row has the
same value or the placeholder (`DimmedApply`), and so have the columns and the events
made of it. `GoAsRust` follows a call of an emit helper in either language
through the merge: `SamePairs` shows that the lists the two sources build have the same
pairs, each key once, `SameMap` that such lists are the same map to the store, `RestOfRow`
that the rest of a row comes from that map and from what both set alike, and
`HelperFailures` that the event of a failed call is the same.
`HelperSpansFound` is the way from an agent
to a reader: the helper's ids come last in the concatenation of the levels
(`HelperSays`), so they are what the columns hold, unless a rule withholds them.
`Door` goes through the four servers. The proofs are for any
rules, attributes (of the modelled nesting), events, calls, tokens and headers.

Only model-checked: liveness (`AttemptEnds`, `SweepEnds`, `ExpiredRowsGo`,
`QueryEnds`, `HttpPhaseEnds`), which is out of the prover's reach; every invariant and
action property of a passing run is proved. The safety side of each is: that steps only
go onward, how many there can be, and that somebody who is waited for can go on
(`OnlyOnward`, `Bounded` and `NoRing`, `RunsDownAlways`, `RequestsOnward` and
`NoReaderStuck`, `ShutdownOnward`). Only proved: what System states. Its states are those
of Daemon times those of its readers, too many to check beside liveness, and each of its
actions is one of Daemon or Query that a run fires. In Daemon, completeness of
the sweeps is not claimed: a late commit may bring a row with an old stamp behind
the sweeper's back.

## Disagreements between code and documents

- **The size cap is not reached by deleting** (`retention_cap`).
  `docs/usage.md:128`: "evicts the oldest rows once the database file exceeds the
  cap, until it's back under". `page_count` does not fall, so a database that was
  once over its cap is over it at every later sweep, and each sweep deletes every
  row it finds (`OverCapWipesAll`).
- **The eviction loop may not end** (`retention_busy`). `THREAT_MODEL.md:105`:
  "`EnforceMaxSize` stops when a pass deletes nothing". For the same reason the
  other way to stop does not exist, and a row committed during each pass keeps
  the loop going.
- **Shutdown has no timeout for gRPC** (`shutdown_held`). `main.go:270`: "Graceful
  shutdown with timeout"; `GracefulStop` takes none.
- **`query_job` loses the errors of a long job** (`query_errors`).
  `docs/usage.md:118`: "surfaces error-status spans in a dedicated `errors` array".
  They are looked for among the oldest 1000 spans only.
- **Ids of OTLP/JSON are read as base64** (`query_trace`).
  `receiver_json_test.go:62` calls hex ids "how protojson represents bytes". They
  are decoded as base64, and the span is not found under its id: in the run the
  oldest span of the trace is missing, though a younger one is there.
- **A long trace is cut without a sign** (`query_trace`). `api/openapi.yaml:19`:
  "Returns every span carrying the given trace_id"; `docs/usage.md:85`: "All spans for
  a trace"; `README.md:156`: "all spans in a trace"; `mcpserver.go:129`: "Get all spans for a
  specific trace". `GetTrace` has a `LIMIT` of 10000 (`store.go:662`): in the run the newest
  span is missing, though it was there before the request. The limit itself is meant
  (`CHANGELOG.md:161`, `THREAT_MODEL.md:76`, the comment at `store.go:651`); that the answer
  has no sign of it, and the API's documents no word, is the disagreement.
- **The span kind of a model call in Rust**, seen in the source and in no run.
  `docs/overlay-schema.md:83` has CLIENT; Go passes CLIENT, the Rust helper
  (`emit/rust/src/lib.rs:249`) passes no kind and leaves the SDK's INTERNAL. Emit has both, and
  `HelpersAgree` compares the kinds of all calls but this one.

The 1000 rows of each table after which `query_job` and `query_run` are cut
(`mcpserver.go:54`, `:78`) are in no document at all.

A trace export that was stored in part, or whole with its answer lost, can never
be acknowledged afterwards: its stored spans collide with the primary key on
every later attempt. `AckedSpansStoredOnce` states this; no document promises
otherwise.

## Not modelled

- Redaction of anything that is not an attribute: names, status messages and
  bodies of logs are stored as sent, as `docs/usage.md:170` says. Bodies and names
  are in the row of Attributes and are no part of what is withheld.
- Nesting of attribute values deeper than one level, the text of values (encoding,
  invalid UTF-8), numbers of metrics, and hex encoding of ids.
- The type of a recorded exception: `RecordError` of Go records it, the Rust helper the
  message only. `HelpersAgree` compares what a row tells of a failure without it.
- What a lossy step loses: an event list that JSON cannot hold is dropped
  (`store.go:376`), an integer beyond 2^53 is rounded (`store.go:773`). Attributes does both
  as the code does, and `ShownAsSent` takes both for granted, since no document says
  otherwise: it would not notice either going wrong.
- A `COMMIT` that fails: `database/sql` sends no `ROLLBACK` after it, and that SQLite ends
  the transaction by itself is taken from outside (`TxFails`).
- Rows that were stored before a rule was added: they stay as they are. The model
  keeps the redactor of each row for that reason, and no property asks more.
- Which pooled connection has which PRAGMA. `busy_timeout` is set on one
  connection only; the model lets any statement on a file fail at any time
  instead.
- Duplicates of logs and metrics after a retry. The model stores them (each
  attempt writes rows of its own), but no document says what should happen, so
  there is no property.
- Crash and power loss beside the sweeper: in `Daemon` the process runs on. What a
  crash leaves is in Ingest.
- Addresses, the check of `-db-path`, the interval of the ticker, log wording,
  encoding of answers: no state.
- The MCP protocol, HTTP and gRPC framing, contexts and parents of spans:
  libraries.

## Plan

Done: Exports, Store, Ingest, AtomicIngest and their proofs; Retention and its proofs;
Daemon, the composition of the two, and its proofs; Shutdown and its proofs; Oldest,
Query, AtomicRead and their proofs; System, the composition of Daemon and Query, and its
proofs; Attributes, Emit, Auth, Pipeline and their proofs. The safety side of progress is
proved of each.

Next, in this order:

1. **The pool**: connections with their PRAGMAs, `BUSY` as a consequence of the lock
   and the timeout instead of at any time.
2. **Crashes in Daemon**, with a file: `AckedUntilSwept` and `AckedFound` over a restart.
3. **Attributes in System**: rows made of records by Attributes, so that what is found
   is also shown as it was sent.
