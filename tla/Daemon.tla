-------------------------------- MODULE Daemon --------------------------------
(***************************************************************************)
(* One process of otelstore from its first request on: the handlers of     *)
(* Ingest and the sweeper of Retention over one database, which each of    *)
(* the two modules has to itself.  Here the sweeper deletes what a handler *)
(* has stored, between two attempts of a client as well, and for a         *)
(* database in memory everybody waits for the same connection.             *)
(***************************************************************************)
EXTENDS Ingest, FiniteSets

CONSTANTS
    SignalOf,      \* SignalOf[r]: the table of record r
    StampOf,       \* StampOf[r]: start_ns or time_ns of record r
    Window, Cap, Batch,           \* -retention, -max-size, 1000
    EmptyPages,    \* page_count before the first row
    MaxNow, MaxErrors,            \* BOUNDS on the clock and on failures
    MaxSent        \* BOUND: how many of the requests are ever sent

ASSUME DaemonAssumption ==
    /\ SignalOf \in [Records -> {"spans", "logs", "metrics"}]
    /\ StampOf \in [Records -> 0 .. MaxNow]
    /\ Window \in Nat /\ Cap \in Nat /\ (Window > 0 \/ Cap > 0)
    /\ Batch \in Nat \ {0} /\ EmptyPages \in Nat
    /\ MaxNow \in Nat /\ MaxErrors \in Nat /\ MaxSent \in Nat

VARIABLES pages, now, sweep, at, cutoff, passDeleted, errors, due, doomed

sweeperVars == <<sweep, at, cutoff, passDeleted, errors, due, doomed>>
daemonVars  == <<vars, pages, now, sweeperVars>>

(* Every row any attempt may store. *)
Storable == UNION { AllRows(h) : h \in Attempts }

Batches == (UNION { { RowsOf(h, g) : g \in Groups(h) } : h \in Attempts }) \ {{}}
TableOf == [r \in Storable |-> SignalOf[RecordAt(r)]]
Stamp   == [r \in Storable |-> StampOf[RecordAt(r)]]

Retention == INSTANCE Retention WITH
    Rows <- Storable, Commits <- Batches,
    Endless <- TRUE, used <- {},
    rows <- db, pc <- sweep

DaemonInit == Init /\ Retention!Init

-----------------------------------------------------------------------------
Sent == { q \in Requests : tries[q] > 0 }

(* What a step of the ingest path does to the rest: a commit may grow the  *)
(* database.                                                               *)
Grow ==
    /\ pages' = Retention!PagesOf(db', pages)
    /\ UNCHANGED <<now, sweeperVars>>

ClientStep(q) ==
    /\ \/ Cardinality(Sent \cup {q}) <= MaxSent /\ Send(q)
       \/ Deliver(q)
       \/ GiveUp(q)
    /\ Grow

HandlerStep(h) == Handler(h) /\ Grow

Tick == Retention!Tick /\ UNCHANGED vars

(* A statement of the sweeper needs SQLite's write lock, and in memory the *)
(* connection, for which it waits behind transactions like anybody else.   *)
Turn == writer = Nobody

(* Everything else of the ingest path stays as it is under the sweeper.    *)
Beside == UNCHANGED <<synced, pending, writer, handlerVars, clientVars, serverVars>>

(* DBSize of a file only reads.                                            *)
SweeperStep ==
    /\ Beside
    /\ \/ Retention!StartSweep
       \/ Turn /\ Retention!DeleteBefore
       \/ Retention!DeleteBeforeFails
       \/ (InMemory => Turn) /\ Retention!CheckSize
       \/ Turn /\ Retention!Evict
       \/ Retention!EnforceFails

DaemonNext ==
    \/ \E q \in Requests : ClientStep(q)
    \/ \E h \in Attempts : HandlerStep(h)
    \/ Tick \/ SweeperStep

DaemonSafe == DaemonInit /\ [][DaemonNext]_daemonVars

(* As for Ingest and Retention alone: every goroutine that can run does.   *)
DaemonSpec ==
    /\ DaemonSafe
    /\ \A h \in Attempts : WF_daemonVars(HandlerStep(h))
    /\ WF_daemonVars(SweeperStep)

-----------------------------------------------------------------------------
Expired(r) == Window > 0 /\ Stamp[r] + Window < now

(* The database has not been over its cap.                                 *)
Calm == pages <= Cap \/ Cap = 0

(* What is left of AckedIsStored beside the sweeper: a row of a request    *)
(* that was acknowledged is there until the window has passed over it, as  *)
(* long as the database was never over its cap.                            *)
AckedUntilSwept ==
    Calm =>
        \A q \in Requests : client[q] = "acked" =>
            \A r \in AllRows(Current(q)) : r \in db \/ Expired(r)

(* And of AckedSpansStoredOnce: a retry may be acknowledged although an    *)
(* earlier attempt had stored spans, but only once the sweeper has taken   *)
(* them; a span that an abandoned handler stores so late that the          *)
(* acknowledged one is gone has itself expired.                            *)
OthersSpansExpired ==
    Calm =>
        \A q \in Requests, r \in db :
            client[q] = "acked" /\ r.by[1] = q /\ RowKey(r) # NoKey
                => r.by = Current(q) \/ Expired(r)

(* To the sweeper the ingest path is what Retention takes it for: whole    *)
(* groups appear, and nobody else deletes or replaces a row.               *)
KeepsRetention == Retention!SafeSpec

(* A sweep gets the connection for each of its statements, however many    *)
(* handlers are waiting for it too.                                        *)
SweepEnds == Retention!SweepEnds
=============================================================================
