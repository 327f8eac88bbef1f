------------------------------- MODULE Pipeline -------------------------------
(***************************************************************************)
(* A record's way through one otelstore after another on the same path:    *)
(* emitted (Emit), let in (Auth), merged, redacted and stored (Attributes) *)
(* under the configuration the process was started with, kept over a       *)
(* restart with another one, and shown by the query API and the MCP tools. *)
(* Groups are stored at once and reads are whole: how they come about is   *)
(* the matter of Ingest and Query.                                         *)
(***************************************************************************)
EXTENDS Emit, Auth, FiniteSets

CONSTANTS
    Configs,      \* what operators start the program with
    Batches,      \* what exporters send: [resource, scope, records]; the
                  \* spans of the emit helpers and others
    Asks,         \* what readers ask for: [column, text]
    HeaderLists,  \* the authorization headers of a request
    Calls,        \* calls of the emit helpers
    MaxBoots,     \* BOUND: processes
    MaxRows       \* BOUND: with so many rows no further batch is sent

ASSUME BoundAssumption == MaxBoots \in Nat /\ MaxRows \in Nat

(* What protobuf decodes to.                                               *)
ASSUME BatchAssumption ==
    \A batch \in Batches :
        /\ IsKvs(batch.resource) /\ IsKvs(batch.scope)
        /\ \A r \in batch.records :
              /\ IsKvs(r.attrs)
              /\ r.events = [i \in 1 .. Len(r.events) |->
                      [name |-> r.events[i].name, attrs |-> r.events[i].attrs]]
              /\ Len(r.events) \in Nat
              /\ \A i \in 1 .. Len(r.events) : IsKvs(r.events[i].attrs)

(* handleQuery and the tools ask for a run or a job, by an id that is not  *)
(* empty.                                                                  *)
ASSUME AskAssumption ==
    \A ask \in Asks : ask.column \in {"run_id", "job_id"} /\ ask.text # ""

(* A call is one of a helper of emit/emit.go and emit/rust/src/lib.rs.     *)
ASSUME CallAssumption ==
    \A call \in Calls :
        call.helper \in {"workflow", "agent", "plan", "tool", "model"}

(* A header has what is before and what is after its first blank.          *)
ASSUME HeaderAssumption ==
    \A headers \in HeaderLists : headers # <<>> =>
        headers[1] = [scheme |-> headers[1].scheme, token |-> headers[1].token]

VARIABLES
    up, boots,
    config,       \* of the process that runs, or ran last
    rows,         \* [src, under, row]: the record as sent, the redactor that
                  \* was in force (both history), the row
    answer        \* the last answer

vars == <<up, boots, config, rows, answer>>

Nothing == [code |-> "none"]

Init ==
    /\ up = FALSE
    /\ boots = 0
    /\ config \in Configs
    /\ rows = {}
    /\ answer = Nothing

(* The flag, or else the environment; a flag that is blank is a flag.      *)
Redactor(c) == New(IF c.redactFlag # <<>> THEN c.redactFlag ELSE c.redactEnv)

(* main up to its servers.  A database in memory is a new one, and so is   *)
(* the file of a process that comes after it.                              *)
Boot(c) ==
    /\ ~ up
    /\ boots < MaxBoots
    /\ Starts(c)
    /\ up' = TRUE
    /\ boots' = boots + 1
    /\ config' = c
    /\ rows' = IF c.memory THEN {} ELSE rows
    /\ answer' = Nothing

(* The process ends, by a signal or a crash, and with it a database in     *)
(* memory.                                                                 *)
Stop ==
    /\ up
    /\ up' = FALSE
    /\ rows' = IF config.memory THEN {} ELSE rows
    /\ answer' = Nothing
    /\ UNCHANGED <<boots, config>>

(* A record as the store gets it, with the two levels it was sent under.   *)
SourceOf(levels, r) ==
    [resource |-> levels.resource, scope |-> levels.scope,
     name |-> r.name, kind |-> r.kind, status |-> r.status, body |-> r.body,
     attrs |-> r.attrs, events |-> r.events]

Sources(batch) == { SourceOf(batch, r) : r \in batch.records }

StoredRow(c, src) ==
    [src |-> src, under |-> Redactor(c), row |-> RowOf(Redactor(c), src)]

LetIn(server, path, headers) == Admits(server, Token(config), path, headers)

(* A request that is turned away reaches no handler.                       *)
Refuse(server, path, headers) ==
    /\ up
    /\ ~ LetIn(server, path, headers)
    /\ answer' = [code |-> "unauthorized", server |-> server, path |-> path,
                  headers |-> headers]
    /\ UNCHANGED <<up, boots, config, rows>>

(* One InsertX call.                                                       *)
Export(server, headers, batch) ==
    /\ up
    /\ Cardinality(rows) < MaxRows
    /\ LetIn(server, "/v1", headers)
    /\ LET fits == \A src \in Sources(batch) : Storable(Redactor(config), src)
       IN /\ rows' = IF fits THEN rows \cup { StoredRow(config, src) : src \in Sources(batch) }
                             ELSE rows
          /\ answer' = [code |-> IF fits THEN "stored" ELSE "failed",
                        server |-> server, path |-> "/v1", headers |-> headers,
                        batch |-> batch]
    /\ UNCHANGED <<up, boots, config>>

Shown(w) == [src |-> w.src, under |-> w.under, row |-> Scan(w.row)]

Failed(S) == { w \in S : w.row.status = "error" }

(* The tool query_job; query_run and the query API list no errors apart.   *)
IsQueryJob(server, ask) == server = "mcp" /\ ask.column = "job_id"

(* QueryByKey by run or by job, with the errors that query_job adds.       *)
Ask(server, headers, ask) ==
    /\ up
    /\ LetIn(server, "/v1", headers)
    /\ LET found == { Shown(w) : w \in { v \in rows : v.row[ask.column] = ask.text } }
       IN answer' = [code |-> "found", server |-> server, path |-> "/v1",
                     headers |-> headers, ask |-> ask, found |-> found,
                     errors |-> IF IsQueryJob(server, ask) THEN Failed(found) ELSE {}]
    /\ UNCHANGED <<up, boots, config, rows>>

(* /healthz and /readyz of the query server; the latter pings the store.   *)
Probe(path, headers) ==
    /\ up
    /\ LetIn("query", path, headers)
    /\ \E code \in {"ready"} \cup (IF path = "/readyz" THEN {"not ready"} ELSE {}) :
          answer' = [code |-> code, server |-> "query", path |-> path,
                     headers |-> headers]
    /\ UNCHANGED <<up, boots, config, rows>>

Servers == {"grpc", "ingest", "query", "mcp"}

Next ==
    \/ \E c \in Configs : Boot(c)
    \/ Stop
    \/ \E headers \in HeaderLists :
          \/ \E server \in Servers : Refuse(server, "/v1", headers)
          \/ \E server \in {"grpc", "ingest"}, batch \in Batches :
                 Export(server, headers, batch)
          \/ \E server \in {"query", "mcp"}, ask \in Asks :
                 Ask(server, headers, ask)
          \/ \E path \in Unauthenticated : Probe(path, headers)

Spec == Init /\ [][Next]_vars

-----------------------------------------------------------------------------
(* What a reader should get, without maps that are merged step by step.    *)

(* The attribute k of a record: the last one sent, most specific level.    *)
SentAttrs(src) == src.resource \o src.scope \o src.attrs

Effective(src, k) == ConvertAnyValue(Last(SentAttrs(src), k))

(* What may be shown of it.                                                *)
Visible(w, k) == IF Match(w.under, k) THEN Str(Placeholder) ELSE Effective(w.src, k)

(* Its events, and whether JSON cannot hold one of their visible values.   *)
VisibleIn(w, e, k) ==
    IF Match(w.under, k) THEN Str(Placeholder) ELSE ConvertAnyValue(Last(e.attrs, k))

SentEvents(w) ==
    [i \in DOMAIN w.src.events |->
        [name |-> w.src.events[i].name,
         attributes |-> [k \in KeysOf(w.src.events[i].attrs) |->
                            Decode(VisibleIn(w, w.src.events[i], k))]]]

Unfit(w) ==
    \E i \in DOMAIN w.src.events : \E k \in KeysOf(w.src.events[i].attrs) :
        ~ Marshals(VisibleIn(w, w.src.events[i], k))

(* The record as it would be if the values to be withheld had never been.  *)
Blank(redactor, kvs) ==
    [i \in DOMAIN kvs |-> IF Match(redactor, kvs[i].key)
                          THEN [kvs[i] EXCEPT !.value = Str(Placeholder)]
                          ELSE kvs[i]]

BlankEvent(redactor, e) == [e EXCEPT !.attrs = Blank(redactor, @)]

Blind(redactor, src) ==
    [src EXCEPT !.resource = Blank(redactor, @),
                !.scope = Blank(redactor, @),
                !.attrs = Blank(redactor, @),
                !.events = [i \in DOMAIN @ |-> BlankEvent(redactor, @[i])]]

(* Nothing in the database depends on a withheld value: two records that   *)
(* differ in such values only, at any level or in an event, have become    *)
(* the same row in every column (redact.go: nothing sensitive survives).   *)
WithheldLeavesNoTrace ==
    \A v, w \in rows :
        v.under = w.under /\ Blind(v.under, v.src) = Blind(w.under, w.src)
            => v.row = w.row

(* An operator who adds a rule, and starts the program again, shows no     *)
(* reader anything new: of a record that comes again, each attribute, each *)
(* id and each event is stored as before or as the placeholder.  (A batch  *)
(* or an event that JSON could not hold may become one that it can.)       *)
Dimmed(new, old) == new \in {old, Str(Placeholder)}

DimmedMap(m, n) ==
    DOMAIN m = DOMAIN n /\ \A k \in DOMAIN m : Dimmed(m[k], n[k])

StricterShowsLess ==
    \A v, w \in rows :
        /\ v.src = w.src
        /\ v.under.exact \subseteq w.under.exact
        /\ v.under.prefixes \subseteq w.under.prefixes
        => /\ DimmedMap(w.row.attributes, v.row.attributes)
           /\ \A column \in {"run_id", "job_id", "event_name"} :
                  w.row[column] \in {v.row[column], Placeholder}
           /\ v.row.events # <<>> =>
                  /\ DOMAIN w.row.events = DOMAIN v.row.events
                  /\ \A i \in DOMAIN v.row.events :
                         DimmedMap(w.row.events[i].attributes, v.row.events[i].attributes)

(* A reader who asks for a run or a job gets exactly the records whose     *)
(* effective id is the string asked for, whatever level it came from and   *)
(* whatever process stored it; a withheld id is found under no value but   *)
(* the placeholder.                                                        *)
FoundByKey ==
    answer.code = "found" =>
        { w.src : w \in answer.found } =
        { w.src : w \in { v \in rows :
            /\ answer.ask.column \in KeysOf(SentAttrs(v.src))
            /\ Visible(v, answer.ask.column).kind = "string"
            /\ Visible(v, answer.ask.column).text = answer.ask.text } }

(* What is shown of a record is what was sent: every attribute, with the   *)
(* most specific value, as far as JSON and the rules let it through; the   *)
(* events all or none; and among the errors are the spans that failed.     *)
ShownAsSent ==
    answer.code = "found" =>
        /\ \A w \in answer.found :
             /\ DOMAIN w.row.attributes = KeysOf(SentAttrs(w.src))
             /\ \A k \in DOMAIN w.row.attributes :
                    w.row.attributes[k] = Decode(Visible(w, k))
             /\ \/ w.row.events = SentEvents(w)
                \/ w.row.events = <<>> /\ Unfit(w)
        /\ IsQueryJob(answer.server, answer.ask) =>
             { w.src : w \in answer.errors } =
             { s \in { w.src : w \in answer.found } : s.status = "error" }

(* An export fails on a value JSON cannot hold only if that value would    *)
(* have been stored: not if a more specific one overrides it, and not if   *)
(* it is withheld.                                                         *)
FailsForCause ==
    answer.code \in {"stored", "failed"} =>
        LET culprits == { src \in Sources(answer.batch) :
                \E k \in KeysOf(SentAttrs(src)) :
                    /\ ~ Match(Redactor(config), k)
                    /\ ~ Marshals(Effective(src, k)) }
        IN answer.code = "failed" <=> culprits # {}

(* The answer to who is let in is the same at every server, follows the    *)
(* first token the operator gave (flag, environment, file), and no mistake *)
(* in giving it, short of a blank file, leaves the servers open.           *)
OneDoor ==
    /\ answer.code \notin {"none", "unauthorized"} /\ answer.path \notin Unauthenticated
         => \/ Token(config) = ""
            \/ Get(answer.headers) = [scheme |-> "Bearer", token |-> Token(config)]
    /\ answer.code = "unauthorized"
         => Get(answer.headers) # [scheme |-> "Bearer", token |-> Token(config)]
    /\ up /\ Token(config) = ""
         => /\ config.tokenFlag = "" /\ config.tokenEnv = ""
            /\ TokenFile(config) # "" => config.files[TokenFile(config)] = ""

(* What an agent does is found by the ids it gave to the emit helper, and   *)
(* under no other, whatever ids the resource and scope of its spans carry;  *)
(* a workflow span, which has no job of its own, is found by its run.       *)
EmittedFound ==
    answer.code = "found" =>
        \A call \in Calls : \A v \in rows :
            /\ v.src \in { SourceOf(v.src, GoSpan(call)), SourceOf(v.src, RustSpan(call)) }
            /\ answer.ask.column = "job_id" => call.helper # "workflow"
            /\ ~ Match(v.under, answer.ask.column)
            => ( Shown(v) \in answer.found <=>
                   answer.ask.text = IF answer.ask.column = "run_id" THEN call.run
                                                                     ELSE call.job )

(* What a row tells of a failure, besides its status.                      *)
Failures(row) ==
    [i \in DOMAIN row.events |->
        [name |-> row.events[i].name,
         message |-> row.events[i].attributes["exception.message"]]]

(* A call of an emit helper is the same to a reader in Go and in Rust,     *)
(* whatever is withheld and whatever resource and scope it is sent under:  *)
(* the same row, the same failure in it.  Two differences are left, the    *)
(* kind of a model call and the exception's type, which only Go records.   *)
HelpersAgree ==
    \A call \in Calls : \A v, w \in rows :
        /\ v.src = SourceOf(v.src, GoSpan(call))
        /\ w.src = SourceOf(v.src, RustSpan(call))
        /\ v.under = w.under
        => /\ DOMAIN v.row = DOMAIN w.row
           /\ \A column \in DOMAIN v.row \ {"kind", "events"} :
                  v.row[column] = w.row[column]
           /\ call.helper # "model" => v.row.kind = w.row.kind
           /\ Failures(v.row) = Failures(w.row)
=============================================================================
