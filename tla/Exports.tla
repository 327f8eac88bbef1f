------------------------------- MODULE Exports -------------------------------
(***************************************************************************)
(* The data of otelstore's ingest path.  An OTLP export request carries    *)
(* groups (ResourceSpans -> ScopeSpans, and the same for logs and          *)
(* metrics); the server stores one group per transaction.  A client may    *)
(* send a request several times, and every attempt is a handler of its     *)
(* own, so a stored row is named by the attempt that wrote it and by the   *)
(* place its record has in the request.                                    *)
(***************************************************************************)
EXTENDS Integers, Sequences

CONSTANTS
    Requests,      \* the export requests the clients want stored
    MaxAttempts,   \* BOUND: how often a client sends one request
    Records,       \* spans, log records and metric data points
    Content,       \* Content[q]: the groups of request q, each a sequence
    Keys,          \* values of (trace_id, span_id)
    NoKey,         \* what a log or a metric has: no key
    KeyOf,         \* KeyOf[r]: the primary key of a span, or NoKey
    Poison,        \* records the INSERT can never store: an attribute that
                   \* json.Marshal refuses (NaN, Inf), or a timestamp above
                   \* 2^63-1 that database/sql refuses to bind
    Unsupported,   \* histograms, exponential histograms and summaries
    Malformed      \* requests refused before the walk: method, size, encoding

ASSUME MaxAttemptsAssumption == MaxAttempts \in Nat \ {0}
ASSUME ContentAssumption == Content \in [Requests -> Seq(Seq(Records))]
ASSUME KeyAssumption == /\ NoKey \notin Keys
                        /\ KeyOf \in [Records -> Keys \cup {NoKey}]
ASSUME KindAssumption == /\ Poison \subseteq Records
                         /\ Unsupported \subseteq Records
                         /\ Malformed \subseteq Requests

(* An attempt: the n-th time that request q is sent. *)
Attempts == Requests \X (1 .. MaxAttempts)

Groups(h)   == DOMAIN Content[h[1]]
NGroups(h)  == Len(Content[h[1]])
Group(h, g) == Content[h[1]][g]

RecordAt(r) == Content[r.by[1]][r.grp][r.idx]
RowKey(r)   == KeyOf[RecordAt(r)]

(* The rows a group or a whole request becomes when it is stored.  A metric *)
(* of an unsupported type becomes no row.                                   *)
RowsOf(h, g) ==
    { [by |-> h, grp |-> g, idx |-> i] :
        i \in { j \in DOMAIN Group(h, g) : Group(h, g)[j] \notin Unsupported } }

AllRows(h) == UNION { RowsOf(h, g) : g \in Groups(h) }

(* A set of rows holds group g of attempt h, or has nothing of it.          *)
Holds(S, h, g) == RowsOf(h, g) \subseteq S
Lacks(S, h, g) == RowsOf(h, g) \cap S = {}

(* What a set of rows must be to come from whole groups stored in order.    *)
WholeGroups(S) == \A h \in Attempts : \A g \in Groups(h) :
                      Holds(S, h, g) \/ Lacks(S, h, g)

InOrder(S) == \A h \in Attempts : \A f, g \in Groups(h) :
                  f < g /\ ~Lacks(S, h, g) => Holds(S, h, f)

Row == [by : Attempts, grp : Nat, idx : Nat]
=============================================================================
