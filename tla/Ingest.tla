------------------------------- MODULE Ingest -------------------------------
(***************************************************************************)
(* The ingest path of otelstore: clients, the handlers of                  *)
(* internal/receiver (OTLP/HTTP) and internal/grpcreceiver (OTLP/gRPC),    *)
(* which are the same walk over the groups of a request, and crashes of    *)
(* the server.  Each attempt is one goroutine; a client that gives up may  *)
(* send again while the old goroutine still runs.                          *)
(***************************************************************************)
EXTENDS Store

CONSTANTS
    MaxCrashes,      \* BOUND: how often the process dies
    MaxPowerLosses   \* BOUND: how often the machine dies

ASSUME CrashAssumption == MaxCrashes \in Nat /\ MaxPowerLosses \in Nat

VARIABLES
    pc,          \* pc[h]: where the handler of attempt h is
    grp,         \* grp[h]: the group its walk has come to
    item,        \* item[h]: the next record of that group (in a transaction)
    abandoned,   \* abandoned[h]: the client is gone, r.Context() is cancelled
    up,          \* the server process runs
    client,      \* client[q]: what the sender of request q knows
    tries,       \* tries[q]: how often q was sent
    crashes,
    powerLosses

handlerVars == <<pc, grp, item>>
clientVars  == <<client, tries, abandoned>>
serverVars  == <<up, crashes, powerLosses>>
vars == <<storeVars, handlerVars, clientVars, serverVars>>

Active   == {"sent", "walk", "tx"}
Answered == {"ok", "failed", "rejected"}
PC       == {"idle", "dead"} \cup Active \cup Answered

TypeOK ==
    /\ StoreTypeOK
    /\ pc \in [Attempts -> PC]
    /\ grp \in [Attempts -> Nat \ {0}]
    /\ item \in [Attempts -> Nat \ {0}]
    /\ abandoned \in [Attempts -> BOOLEAN]
    /\ up \in BOOLEAN
    /\ client \in [Requests -> {"idle", "waiting", "retry", "acked", "refused"}]
    /\ tries \in [Requests -> 0 .. MaxAttempts]
    /\ crashes \in 0 .. MaxCrashes
    /\ powerLosses \in 0 .. MaxPowerLosses

Init ==
    /\ StoreInit
    /\ pc = [h \in Attempts |-> "idle"]
    /\ grp = [h \in Attempts |-> 1]
    /\ item = [h \in Attempts |-> 1]
    /\ abandoned = [h \in Attempts |-> FALSE]
    /\ up = TRUE
    /\ client = [q \in Requests |-> "idle"]
    /\ tries = [q \in Requests |-> 0]
    /\ crashes = 0
    /\ powerLosses = 0

-----------------------------------------------------------------------------
(* The clients.                                                            *)

Current(q) == <<q, tries[q]>>

Send(q) ==
    /\ up
    /\ client[q] \in {"idle", "retry"}
    /\ tries[q] < MaxAttempts
    /\ tries' = [tries EXCEPT ![q] = @ + 1]
    /\ client' = [client EXCEPT ![q] = "waiting"]
    /\ pc' = [pc EXCEPT ![<<q, tries[q] + 1>>] = "sent"]
    /\ UNCHANGED <<storeVars, grp, item, abandoned, serverVars>>

(* The answer arrives: 200 / OK, 500 / INTERNAL, or a 4xx that says that   *)
(* sending the same bytes again is pointless.                              *)
Deliver(q) ==
    /\ client[q] = "waiting"
    /\ pc[Current(q)] \in Answered
    /\ client' = [client EXCEPT ![q] =
                    CASE pc[Current(q)] = "ok"       -> "acked"
                      [] pc[Current(q)] = "failed"   -> "retry"
                      [] pc[Current(q)] = "rejected" -> "refused"]
    /\ UNCHANGED <<storeVars, handlerVars, tries, abandoned, serverVars>>

(* Export timeout, lost connection or lost answer: the client stops        *)
(* waiting.  A handler that still runs sees its context cancelled, when    *)
(* net/http or grpc-go gets round to it.                                   *)
GiveUp(q) ==
    /\ client[q] = "waiting"
    /\ client' = [client EXCEPT ![q] = "retry"]
    /\ abandoned' = [abandoned EXCEPT ![Current(q)] = TRUE]
    /\ UNCHANGED <<storeVars, handlerVars, tries, serverVars>>

-----------------------------------------------------------------------------
(* The handlers.                                                           *)

Answer(h, a) ==
    /\ pc' = [pc EXCEPT ![h] = a]
    /\ UNCHANGED <<grp, item>>

(* readAndDecode succeeds: POST, body within the limit, it unmarshals.     *)
Decode(h) ==
    /\ pc[h] = "sent"
    /\ h[1] \notin Malformed
    /\ pc' = [pc EXCEPT ![h] = "walk"]
    /\ UNCHANGED <<storeVars, grp, item, clientVars, serverVars>>

(* readAndDecode returns false: 405 or 400, nothing was touched.  This may *)
(* happen to any request: the body is read while the client leaves, or for *)
(* longer than the server's ReadTimeout (main.go), and the read fails.     *)
Reject(h) ==
    /\ pc[h] = "sent"
    /\ Answer(h, "rejected")
    /\ UNCHANGED <<storeVars, clientVars, serverVars>>

InGroup(h) == pc[h] = "walk" /\ grp[h] \in Groups(h)

(* MUTANT of SkipEmptyGroup: the handler returns, instead of the insert.   *)
SkipEmptyGroupReturns(h) ==
    /\ InGroup(h)
    /\ Group(h, grp[h]) = <<>>
    /\ Answer(h, "ok")
    /\ UNCHANGED <<storeVars, clientVars, serverVars>>

(* InsertX returns nil at once on an empty group.                          *)
SkipEmptyGroup(h) ==
    /\ InGroup(h)
    /\ Group(h, grp[h]) = <<>>
    /\ grp' = [grp EXCEPT ![h] = @ + 1]
    /\ UNCHANGED <<storeVars, pc, item, clientVars, serverVars>>

(* MUTANT of Begin: the record index of the last group is not reset.       *)
BeginWithoutReset(h) ==
    /\ InGroup(h)
    /\ Group(h, grp[h]) # <<>>
    /\ BeginTx(h)
    /\ pc' = [pc EXCEPT ![h] = "tx"]
    /\ UNCHANGED <<grp, item, clientVars, serverVars>>

Begin(h) ==
    /\ InGroup(h)
    /\ Group(h, grp[h]) # <<>>
    /\ BeginTx(h)
    /\ pc' = [pc EXCEPT ![h] = "tx"]
    /\ item' = [item EXCEPT ![h] = 1]
    /\ UNCHANGED <<grp, clientVars, serverVars>>

(* What BeginTx, Prepare, Exec and Commit can return an error for besides  *)
(* the row itself: a cancelled context; with a file, SQLITE_BUSY when the  *)
(* lock stays taken, and the disk.                                         *)
StoreMayFail(h) == abandoned[h] \/ ~ InMemory

BeginFails(h) ==
    /\ InGroup(h)
    /\ Group(h, grp[h]) # <<>>
    /\ StoreMayFail(h)
    /\ Answer(h, "failed")
    /\ UNCHANGED <<storeVars, clientVars, serverVars>>

NextRow(h) == [by |-> h, grp |-> grp[h], idx |-> item[h]]

AtRecord(h) == pc[h] = "tx" /\ item[h] \in DOMAIN Group(h, grp[h])

AtRow(h) == AtRecord(h) /\ Group(h, grp[h])[item[h]] \notin Unsupported

InsertRow(h) ==
    /\ AtRow(h)
    /\ ExecInsert(h, NextRow(h))
    /\ item' = [item EXCEPT ![h] = @ + 1]
    /\ UNCHANGED <<pc, grp, clientVars, serverVars>>

(* MUTANT of SkipUnsupported: a histogram ends the batch (return nil where *)
(* the code has the end of the loop body).                                 *)
SkipUnsupportedReturns(h) ==
    /\ AtRecord(h)
    /\ Group(h, grp[h])[item[h]] \in Unsupported
    /\ item' = [item EXCEPT ![h] = Len(Group(h, grp[h])) + 1]
    /\ UNCHANGED <<storeVars, pc, grp, clientVars, serverVars>>

SkipUnsupported(h) ==
    /\ AtRecord(h)
    /\ Group(h, grp[h])[item[h]] \in Unsupported
    /\ item' = [item EXCEPT ![h] = @ + 1]
    /\ UNCHANGED <<storeVars, pc, grp, clientVars, serverVars>>

(* One bad row fails the group, the error fails the request: the handler   *)
(* answers 500 and the later groups are never tried.                       *)
InsertFails(h) ==
    /\ AtRow(h)
    /\ InsertRefused(h, NextRow(h))
    /\ Rollback(h)
    /\ Answer(h, "failed")
    /\ UNCHANGED <<clientVars, serverVars>>

(* MUTANT of TxFails: the error is logged and the walk goes on.            *)
TxFailsAndGoesOn(h) ==
    /\ pc[h] = "tx"
    /\ StoreMayFail(h)
    /\ Rollback(h)
    /\ pc' = [pc EXCEPT ![h] = "walk"]
    /\ grp' = [grp EXCEPT ![h] = @ + 1]
    /\ UNCHANGED <<item, clientVars, serverVars>>

(* MUTANT of TxFails: the group is tried again, as often as it takes.      *)
TxFailsRetries(h) ==
    /\ pc[h] = "tx"
    /\ StoreMayFail(h)
    /\ Rollback(h)
    /\ pc' = [pc EXCEPT ![h] = "walk"]
    /\ UNCHANGED <<grp, item, clientVars, serverVars>>

(* After a COMMIT that failed database/sql sends no ROLLBACK any more; that *)
(* SQLite ends the transaction itself then is taken from outside.          *)
TxFails(h) ==
    /\ pc[h] = "tx"
    /\ StoreMayFail(h)
    /\ Rollback(h)
    /\ Answer(h, "failed")
    /\ UNCHANGED <<clientVars, serverVars>>

(* MUTANT of CommitGroup: the error of tx.Commit() is dropped.             *)
CommitGroupUnchecked(h) ==
    /\ pc[h] = "tx"
    /\ item[h] > Len(Group(h, grp[h]))
    /\ Commit(h) \/ (StoreMayFail(h) /\ Rollback(h))
    /\ pc' = [pc EXCEPT ![h] = "walk"]
    /\ grp' = [grp EXCEPT ![h] = @ + 1]
    /\ UNCHANGED <<item, clientVars, serverVars>>

CommitGroup(h) ==
    /\ pc[h] = "tx"
    /\ item[h] > Len(Group(h, grp[h]))
    /\ Commit(h)
    /\ pc' = [pc EXCEPT ![h] = "walk"]
    /\ grp' = [grp EXCEPT ![h] = @ + 1]
    /\ UNCHANGED <<item, clientVars, serverVars>>

Respond(h) ==
    /\ pc[h] = "walk"
    /\ grp[h] > NGroups(h)
    /\ Answer(h, "ok")
    /\ UNCHANGED <<storeVars, clientVars, serverVars>>

Handler(h) ==
    \/ Decode(h) \/ Reject(h)
    \/ SkipEmptyGroup(h) \/ Begin(h) \/ BeginFails(h)
    \/ InsertRow(h) \/ SkipUnsupported(h) \/ InsertFails(h) \/ TxFails(h)
    \/ CommitGroup(h) \/ Respond(h)

-----------------------------------------------------------------------------
(* The process.                                                            *)

HandlersDie ==
    /\ up' = FALSE
    /\ pc' = [h \in Attempts |-> IF pc[h] \in Active THEN "dead" ELSE pc[h]]
    /\ UNCHANGED <<grp, item, clientVars>>

Crash ==
    /\ up
    /\ crashes < MaxCrashes
    /\ crashes' = crashes + 1
    /\ StoreCrash
    /\ HandlersDie
    /\ UNCHANGED powerLosses

PowerLoss ==
    /\ up
    /\ powerLosses < MaxPowerLosses
    /\ powerLosses' = powerLosses + 1
    /\ StorePowerLoss
    /\ HandlersDie
    /\ UNCHANGED crashes

Restart ==
    /\ ~ up
    /\ up' = TRUE
    /\ Reopen
    /\ UNCHANGED <<handlerVars, clientVars, crashes, powerLosses>>

(* A checkpoint shows only in what a later power failure takes, so after    *)
(* the last of those it is left out.                                       *)
Sync ==
    /\ up
    /\ powerLosses < MaxPowerLosses
    /\ Checkpoint
    /\ UNCHANGED <<handlerVars, clientVars, serverVars>>

(* All is said: no handler runs and no client has anything left to send.   *)
(* Any other state without a step is a deadlock.                           *)
Quiescent ==
    /\ \A h \in Attempts : pc[h] \notin Active
    /\ \A q \in Requests : \/ client[q] \in {"acked", "refused"}
                           \/ client[q] = "retry" /\ tries[q] = MaxAttempts
    /\ UNCHANGED vars

Next ==
    \/ \E q \in Requests : Send(q) \/ Deliver(q) \/ GiveUp(q)
    \/ \E h \in Attempts : Handler(h)
    \/ Crash \/ PowerLoss \/ Restart \/ Sync
    \/ Quiescent

Spec == Init /\ [][Next]_vars

(* Go's scheduler runs every goroutine that can run, and net/http and      *)
(* grpc-go start one per request.  Nothing is assumed of clients, crashes  *)
(* or restarts.  database/sql hands a freed connection to any waiter, so   *)
(* weak fairness is all a waiter for the connection gets.                  *)
FairSpec == Spec /\ \A h \in Attempts : WF_vars(Handler(h))

-----------------------------------------------------------------------------
(* What the ingest path guarantees.                                        *)

Outcome == [h \in Attempts |-> IF pc[h] \in Answered \cup {"dead"}
                               THEN pc[h] ELSE "none"]

Promise == INSTANCE AtomicIngest WITH stored <- db, reply <- Outcome

(* Committed rows are there to stay: no power failure, and no crash that   *)
(* took a database in memory with it.                                      *)
Durable == powerLosses = 0 /\ (InMemory => crashes = 0)

(* A client that was told 200 finds every row of its request in the        *)
(* database, after any crash of the process (WAL; handleTraces answers     *)
(* after the last InsertSpans, store.go commits before it returns nil).    *)
AckedIsStored ==
    Durable => \A q \in Requests :
                   client[q] = "acked" => AllRows(Current(q)) \subseteq db

(* A group is stored whole or not at all, whatever fails, is cancelled or  *)
(* dies in the middle of it (one transaction per InsertX call).            *)
GroupAtomic == WholeGroups(db)

(* No group of a request is in the database without the groups before it,  *)
(* not even after a power failure (the walk returns at the first error).   *)
GroupsInOrder == InOrder(db)

(* No two rows of spans have the same trace id and span id, though two     *)
(* attempts may check for the key at the same time.                        *)
SpanKeyUnique ==
    \A r, s \in db : RowKey(r) = RowKey(s) /\ RowKey(r) # NoKey => r = s

(* An attempt that was answered 500 left nothing of the group that failed  *)
(* nor of the groups after it, and one that was answered 4xx left nothing. *)
RefusedLeavesNothing ==
    /\ \A h \in Attempts : pc[h] = "rejected" => AllRows(h) \cap db = {}
    /\ \A h \in Attempts : pc[h] = "failed" =>
           \A g \in Groups(h) : g >= grp[h] => RowsOf(h, g) \cap db = {}

(* The write lock and the only connection of a database in memory belong   *)
(* to a transaction in progress: every return of InsertX gives them back.  *)
WriterInTx == writer # Nobody => pc[writer] = "tx"

(* When a trace export is acknowledged, no span of it was stored by an     *)
(* attempt the client had given up: what an earlier attempt left makes     *)
(* every later one fail on the primary key.  A trace that was stored in    *)
(* part, or whole with its 200 lost, is therefore never acknowledged.      *)
AckedSpansStoredOnce ==
    Durable => \A q \in Requests, r \in db :
        client[q] = "acked" /\ r.by[1] = q /\ RowKey(r) # NoKey
            => r.by = Current(q)

(* How far an attempt has come: into its group, if it has a transaction.   *)
Stage(h) ==
    CASE pc[h] = "idle" -> 0
      [] pc[h] = "sent" -> 1
      [] pc[h] \in {"walk", "tx"} -> 2
      [] OTHER -> 3

Depth(h) == IF pc[h] = "tx" THEN item[h] ELSE 0

Onward(h) ==
    \/ Stage(h)' > Stage(h)
    \/ /\ Stage(h)' = Stage(h)
       /\ \/ grp'[h] > grp[h]
          \/ grp'[h] = grp[h] /\ Depth(h)' > Depth(h)

(* Nothing that fails, waits or is repeated makes a handler do a group, a  *)
(* record or an answer again: whatever happens to it brings it nearer to   *)
(* its only answer.                                                        *)
NeverBack ==
    [][\A h \in Attempts : UNCHANGED <<pc[h], grp[h], item[h]>> \/ Onward(h)]_vars

(* What a handler can do although nothing fails.                           *)
Goes(h) ==
    \/ pc[h] = "sent"
    \/ /\ InGroup(h)
       /\ Group(h, grp[h]) = <<>> \/ writer = Nobody \/ ~ InMemory
    \/ pc[h] = "walk" /\ grp[h] > NGroups(h)
    \/ AtRecord(h) /\ Group(h, grp[h])[item[h]] \in Unsupported \cup Poison
    \/ AtRecord(h) /\ writer \in {Nobody, h}
    \/ pc[h] = "tx" /\ item[h] > Len(Group(h, grp[h]))

(* An attempt that has to wait, for the write lock or for the connection,  *)
(* waits for one that does not: nobody needs a failure, a timeout or a     *)
(* client that leaves to be answered in the end.                           *)
NobodyStuck ==
    \A h \in Attempts : pc[h] \in Active =>
        Goes(h) \/ (writer \in Attempts \ {h} /\ Goes(writer))

(* Every attempt is answered, unless the process dies first: nobody waits  *)
(* for ever for the write lock or the connection.                          *)
AttemptEnds == \A h \in Attempts : pc[h] \in Active ~> pc[h] \notin Active

(* Ingest implements the abstract specification.                           *)
KeepsPromise == Promise!Spec
=============================================================================
