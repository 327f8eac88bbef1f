-------------------------------- MODULE System --------------------------------
(***************************************************************************)
(* Handlers, sweeper and readers of one process over one database: the     *)
(* composition of Daemon and Query, each of which takes the other for      *)
(* granted.  Here the transactions that readers see are those of handlers, *)
(* the rows that vanish are those the sweeper deletes, and for a database  *)
(* in memory all of them wait for the same connection.                     *)
(***************************************************************************)
EXTENDS Daemon

CONSTANTS
    Columns,       \* Columns[r]: the columns of record r, its table among them
    Readers, Asks, NoFilter, DefaultLimit, MaxLimit     \* of Query

VARIABLES
    conn, asking, ask, part, answer, listed,   \* of Query (pc and errors there)
    stable, snap,                              \* its history
    owed           \* history: owed[r] is what was acknowledged when r was asked

readerVars == <<conn, asking, ask, part, answer, listed>>
systemVars == <<daemonVars, readerVars, stable, snap, owed>>

Data == [x \in Storable |-> Columns[RecordAt(x)]]

(* Query, with what is proved of it. *)
Q == INSTANCE QueryProofs WITH
    Rows <- Storable,
    path <- IF InMemory THEN "memory" ELSE "file",
    pc <- asking, errors <- listed

(* What Query assumes of requests and limits, and a row has its record's   *)
(* table.                                                                  *)
ReadersFit ==
    /\ DefaultLimit \in Nat \ {0} /\ MaxLimit \in Nat /\ DefaultLimit <= MaxLimit
    /\ Nobody \notin Readers
    /\ \A r \in Readers : \A a \in Asks[r] : a.kind \in Q!Kinds /\ a.limit \in Int
    /\ \A r \in Records : Columns[r].table = SignalOf[r]

SystemInit == DaemonInit /\ Q!Init /\ owed = [r \in Readers |-> {}]

-----------------------------------------------------------------------------
(* The rows of which a client knows that they are stored.                  *)
Acked ==
    UNION { AllRows(Current(q)) : q \in { p \in Requests : client[p] = "acked" } }

AskStep(r) ==
    /\ Q!Ask(r)
    /\ owed' = [owed EXCEPT ![r] = Acked]
    /\ UNCHANGED daemonVars

(* In memory a SELECT waits for the transaction that has the connection.   *)
ReaderStep(r) ==
    /\ Q!Serve(r) \/ Q!Fails(r)
    /\ conn' # conn => Turn
    /\ UNCHANGED <<daemonVars, owed>>

(* What readers are known to have met in the database goes with the rows.  *)
Forget ==
    /\ stable' = [r \in Readers |-> stable[r] \ (db \ db')]
    /\ snap' = [r \in Readers |-> snap[r] \ (db \ db')]
    /\ UNCHANGED <<readerVars, owed>>

(* A transaction, or a statement of the sweeper, waits for the reader that *)
(* has it.                                                                 *)
WriterStep(h) ==
    /\ HandlerStep(h)
    /\ writer' # writer => Q!ConnFree
    /\ Forget

Statement == Retention!DeleteBefore \/ Retention!CheckSize \/ Retention!Evict

DeleterStep ==
    /\ SweeperStep
    /\ Statement => Q!ConnFree
    /\ Forget

SystemNext ==
    \/ \E r \in Readers : AskStep(r) \/ ReaderStep(r)
    \/ \E h \in Attempts : WriterStep(h)
    \/ DeleterStep
    \/ \E q \in Requests : ClientStep(q) /\ Forget
    \/ Tick /\ Forget

SystemSpec == SystemInit /\ [][SystemNext]_systemVars

-----------------------------------------------------------------------------
(* What the components promise together: whoever asks after a client was   *)
(* told that a row is stored finds it in the answer, unless the answer is  *)
(* cut after as many rows as StatedLimit has, none of them newer, or the   *)
(* window has passed over the row; as long as the database was never over its cap.    *)
AckedFound ==
    Calm => \A r \in Readers : asking[r] = "done" =>
        \A x \in owed[r] \cap Q!AskedFor(r) :
            Q!Told(r, x, Q!StatedLimit(ask[r])) \/ Expired(x)

(* An answer has rows of committed groups only: none of a group that is    *)
(* under way, of one that failed and was rolled back, or of a request that *)
(* was refused.                                                            *)
CommittedShown ==
    \A r \in Readers : \A x \in answer[r] : x.grp < grp[x.by]

(* Whoever has the only connection can go on with it, so that nobody waits *)
(* in a ring that leads through handlers, sweeper and readers.             *)
HolderGoesOn ==
    InMemory =>
        /\ writer # Nobody => conn = Nobody /\ writer \in Attempts /\ Goes(writer)
        /\ conn # Nobody => writer = Nobody /\ asking[conn] = "scan"
=============================================================================
