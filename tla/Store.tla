-------------------------------- MODULE Store --------------------------------
(***************************************************************************)
(* internal/store as the ingest handlers use it: the committed rows, one   *)
(* open transaction per attempt, and the resource a writer must hold.      *)
(*                                                                         *)
(*  - a file database (WAL): any number of transactions may be open; the   *)
(*    first INSERT of a transaction takes SQLite's single write lock.      *)
(*  - ":memory:": the pool is pinned to one connection, BeginTx takes it   *)
(*    and everybody else waits for it, for as long as it takes.            *)
(*                                                                         *)
(* The operators are steps of a transaction; Ingest puts them together.    *)
(***************************************************************************)
EXTENDS Exports

CONSTANTS
    InMemory,      \* TRUE for ":memory:", FALSE for a database file
    Nobody         \* value of writer when the lock (connection) is free

ASSUME StoreAssumption == InMemory \in BOOLEAN /\ Nobody \notin Attempts

VARIABLES
    db,            \* committed rows of the three tables
    synced,        \* those of them that a power failure cannot take back
    pending,       \* pending[h]: rows inserted by the open transaction of h
    writer         \* who holds the write lock (file) or connection (memory)

storeVars == <<db, synced, pending, writer>>

StoreTypeOK ==
    /\ db \in SUBSET Row
    /\ synced \in SUBSET Row
    /\ pending \in [Attempts -> SUBSET Row]
    /\ writer \in Attempts \cup {Nobody}

(* Open + InitSchema on a new path. *)
StoreInit ==
    /\ db = {}
    /\ synced = {}
    /\ pending = [h \in Attempts |-> {}]
    /\ writer = Nobody

(* MUTANT of Conflicts: no primary key across transactions.                 *)
ConflictsWithinTx(h, r) ==
    \E s \in pending[h] : RowKey(s) = RowKey(r) /\ RowKey(r) # NoKey

(* PRIMARY KEY (trace_id, span_id) of spans: seen by a transaction are the  *)
(* committed rows and its own.  logs and metrics have no key.               *)
Conflicts(h, r) ==
    \E s \in db \cup pending[h] : RowKey(s) = RowKey(r) /\ RowKey(r) # NoKey

Release(h) == writer' = IF writer = h THEN Nobody ELSE writer

(* db.BeginTx: waits for a connection of the pool.  BEGIN is deferred, so a *)
(* file database locks nothing yet.                                         *)
BeginTx(h) ==
    /\ IF InMemory THEN writer = Nobody /\ writer' = h ELSE UNCHANGED writer
    /\ UNCHANGED <<db, synced, pending>>

(* MUTANT of ExecInsert: the key is checked without the write lock.         *)
ExecInsertUnlocked(h, r) ==
    /\ RecordAt(r) \notin Poison
    /\ ~ Conflicts(h, r)
    /\ pending' = [pending EXCEPT ![h] = @ \cup {r}]
    /\ UNCHANGED <<db, synced, writer>>

(* MUTANT of ExecInsert: s.db.Exec instead of stmt.Exec of the transaction. *)
ExecInsertAutocommit(h, r) ==
    /\ writer \in {Nobody, h}
    /\ RecordAt(r) \notin Poison
    /\ ~ Conflicts(h, r)
    /\ db' = db \cup {r}
    /\ UNCHANGED <<synced, pending, writer>>

(* MUTANT of ExecInsert: INSERT OR REPLACE.                                 *)
ExecInsertOrReplace(h, r) ==
    /\ writer \in {Nobody, h}
    /\ RecordAt(r) \notin Poison
    /\ writer' = h
    /\ pending' = [pending EXCEPT ![h] = @ \cup {r}]
    /\ db' = { s \in db : RowKey(s) = RowKey(r) => RowKey(s) = NoKey }
    /\ UNCHANGED synced

(* stmt.ExecContext of one INSERT that succeeds. *)
ExecInsert(h, r) ==
    /\ writer \in {Nobody, h}
    /\ RecordAt(r) \notin Poison
    /\ ~ Conflicts(h, r)
    /\ writer' = h
    /\ pending' = [pending EXCEPT ![h] = @ \cup {r}]
    /\ UNCHANGED <<db, synced>>

(* The row that cannot be stored: json.Marshal or the driver refuses it     *)
(* before SQLite is asked, or the key is there already (known only to the   *)
(* holder of the write lock).                                               *)
InsertRefused(h, r) ==
    \/ RecordAt(r) \in Poison
    \/ writer \in {Nobody, h} /\ Conflicts(h, r)

(* MUTANT of Rollback: the deferred call is missing.                        *)
RollbackMissing(h) == UNCHANGED storeVars

(* MUTANT of Rollback: the deferred call is tx.Commit().                    *)
RollbackCommits(h) ==
    /\ db' = db \cup pending[h]
    /\ pending' = [pending EXCEPT ![h] = {}]
    /\ Release(h)
    /\ UNCHANGED synced

(* defer tx.Rollback(): runs on every return of InsertX that is not behind  *)
(* a successful Commit, and gives the connection back.                      *)
Rollback(h) ==
    /\ pending' = [pending EXCEPT ![h] = {}]
    /\ Release(h)
    /\ UNCHANGED <<db, synced>>

Commit(h) ==
    /\ db' = db \cup pending[h]
    /\ pending' = [pending EXCEPT ![h] = {}]
    /\ Release(h)
    /\ UNCHANGED synced

(* WAL with synchronous=NORMAL: commits reach the disk in order, but only a *)
(* checkpoint forces them there.                                            *)
Checkpoint ==
    /\ ~ InMemory
    /\ synced # db
    /\ synced' = db
    /\ UNCHANGED <<db, pending, writer>>

(* MUTANT of StoreCrash: what a transaction had written is there after the  *)
(* next Open (journal_mode=OFF).                                            *)
StoreCrashKeepsPending ==
    /\ db' = db \cup UNION { pending[h] : h \in Attempts }
    /\ pending' = [h \in Attempts |-> {}]
    /\ writer' = Nobody
    /\ UNCHANGED synced

(* The process dies: open transactions are rolled back by the next Open.    *)
(* A database in memory goes with the process.                              *)
StoreCrash ==
    /\ db' = IF InMemory THEN {} ELSE db
    /\ pending' = [h \in Attempts |-> {}]
    /\ writer' = Nobody
    /\ UNCHANGED synced

(* MUTANT of StorePowerLoss: pages reach the disk in any order              *)
(* (journal_mode=OFF, synchronous=OFF).                                     *)
StorePowerLossTorn ==
    /\ ~ InMemory
    /\ \E lost \in SUBSET (db \ synced) : db' = db \ lost
    /\ pending' = [h \in Attempts |-> {}]
    /\ writer' = Nobody
    /\ UNCHANGED synced

(* The machine dies: what was not yet forced to the disk may be missing.    *)
StorePowerLoss ==
    /\ ~ InMemory
    /\ db' = synced
    /\ pending' = [h \in Attempts |-> {}]
    /\ writer' = Nobody
    /\ UNCHANGED synced

(* Open + InitSchema on the same path: CREATE TABLE IF NOT EXISTS.          *)
Reopen == UNCHANGED storeVars
=============================================================================
