------------------------------ MODULE Retention ------------------------------
(***************************************************************************)
(* The retention sweeper of cmd/otelstore/main.go and the two calls it     *)
(* makes at every tick: Store.DeleteBefore (-retention) and                *)
(* Store.EnforceMaxSize (-max-size), beside handlers that keep inserting.  *)
(* Each SQL statement commits by itself, so ingest runs between any two.   *)
(*                                                                         *)
(* The size of a database is page_count * page_size.  A page that a DELETE *)
(* empties goes to SQLite's freelist and is used again, but page_count     *)
(* never falls: the file is not opened with auto_vacuum and nothing runs   *)
(* VACUUM.  One row is one page here, above those that an empty database   *)
(* has, which keeps what matters: the size is the high-water mark of the   *)
(* rows.                                                                   *)
(***************************************************************************)
EXTENDS Oldest, Sequences

CONSTANTS
    Rows,        \* BOUND: rows that may be inserted
    Commits,     \* what a handler may commit at once: rows of one table
    TableOf,     \* TableOf[r]: its table
    Stamp,       \* Stamp[r]: start_ns or time_ns, as the client set it
    Window,      \* -retention; 0 disables the age sweep
    Cap,         \* -max-size; 0 disables the size sweep
    Batch,       \* rows per table and pass (1000 in the code)
    EmptyPages,  \* pages of a database without rows: the schema; Cap may be
                 \* less
    MaxNow,      \* BOUND on the clock
    MaxErrors,   \* BOUND: statements that fail (busy, disk)
    Endless      \* TRUE: ingest never runs out, a row that was deleted
                 \* stands for the next one with its stamp

Tables == <<"spans", "logs", "metrics">>

ASSUME RetentionAssumption ==
    /\ TableOf \in [Rows -> {"spans", "logs", "metrics"}]
    /\ Stamp \in [Rows -> 0 .. MaxNow]
    /\ \A group \in Commits :
          group \subseteq Rows /\ group # {} /\ IsFiniteSet(group)
    /\ Window \in Nat /\ Cap \in Nat /\ Batch \in Nat \ {0}
    /\ EmptyPages \in Nat
    /\ MaxNow \in Nat /\ MaxErrors \in Nat
    /\ Window > 0 \/ Cap > 0        \* or main starts no sweeper
    /\ Endless \in BOOLEAN

VARIABLES
    rows,         \* committed rows of the three tables
    pages,        \* PRAGMA page_count
    now,          \* time.Now() at the server
    pc,           \* what the sweeper is about to run
    at,           \* the table it has come to, an index of Tables
    cutoff,       \* DeleteBefore's cutoffNs
    passDeleted,  \* EnforceMaxSize's count for this pass
    errors,
    used,         \* rows that were ever inserted (if not Endless)
    due,          \* history: rows expired when the age sweep began
    doomed        \* history: rows there when the size sweep found the
                  \* database over its cap

sweepVars == <<pc, at, cutoff, passDeleted>>
vars == <<rows, pages, now, sweepVars, errors, used, due, doomed>>

TypeOK ==
    /\ rows \in SUBSET Rows /\ IsFiniteSet(rows)
    /\ pages \in Nat
    /\ now \in 0 .. MaxNow
    /\ pc \in {"idle", "age", "size", "evict"}
    /\ at \in 1 .. 3
    /\ cutoff \in Int
    /\ passDeleted \in Nat
    /\ errors \in 0 .. MaxErrors
    /\ used \in SUBSET Rows
    /\ due \in SUBSET Rows
    /\ doomed \in SUBSET Rows

Init ==
    /\ rows = {}
    /\ pages = EmptyPages
    /\ now = 0
    /\ pc = "idle"
    /\ at = 1
    /\ cutoff = 0
    /\ passDeleted = 0
    /\ errors = 0
    /\ used = {}
    /\ due = {}
    /\ doomed = {}

In(t) == { r \in rows : TableOf[r] = Tables[t] }

-----------------------------------------------------------------------------
(* The size of a database of these rows, which was n pages before: a row   *)
(* takes a page only if no freed one is left.                              *)
PagesOf(S, n) ==
    LET needed == EmptyPages + Cardinality(S) IN IF needed > n THEN needed ELSE n

(* A handler commits a group.                                              *)
Ingest(group) ==
    /\ group \cap (rows \cup used) = {}
    /\ rows' = rows \cup group
    /\ pages' = PagesOf(rows', pages)
    /\ used' = IF Endless THEN used ELSE used \cup group
    /\ UNCHANGED <<now, sweepVars, errors, due, doomed>>

Tick ==
    /\ now < MaxNow
    /\ now' = now + 1
    /\ UNCHANGED <<rows, pages, sweepVars, errors, used, due, doomed>>

(* MUTANT of StartSweep: the window is not subtracted from the clock.      *)
StartSweepAtNow ==
    /\ pc = "idle"
    /\ IF Window > 0
         THEN /\ pc' = "age"
              /\ at' = 1
              /\ cutoff' = now
              /\ due' = { r \in rows : Stamp[r] < now - Window }
         ELSE /\ pc' = "size"
              /\ UNCHANGED <<at, cutoff, due>>
    /\ doomed' = {}
    /\ UNCHANGED <<rows, pages, now, passDeleted, errors, used>>

(* The ticker fires.  The cutoff is read once, from the server's clock.    *)
StartSweep ==
    /\ pc = "idle"
    /\ IF Window > 0
         THEN /\ pc' = "age"
              /\ at' = 1
              /\ cutoff' = now - Window
              /\ due' = { r \in rows : Stamp[r] < now - Window }
         ELSE /\ pc' = "size"
              /\ UNCHANGED <<at, cutoff, due>>
    /\ doomed' = {}
    /\ UNCHANGED <<rows, pages, now, passDeleted, errors, used>>

(* After the age sweep, failed or not, comes the size sweep.               *)
AfterAge ==
    /\ pc' = IF Cap > 0 THEN "size" ELSE "idle"
    /\ at' = 1
    /\ cutoff' = 0

(* MUTANT of DeleteBefore: the third statement is missing.                 *)
DeleteBeforeForgetsMetrics ==
    /\ pc = "age"
    /\ rows' = rows \ { r \in In(at) : Stamp[r] < cutoff }
    /\ IF at < 2 THEN at' = at + 1 /\ UNCHANGED <<pc, cutoff>>
                 ELSE AfterAge
    /\ UNCHANGED <<pages, now, passDeleted, errors, used, due, doomed>>

(* MUTANT of DeleteBefore: the metrics statement has the spans cutoff the  *)
(* wrong way round.                                                        *)
DeleteBeforeReversed ==
    /\ pc = "age"
    /\ rows' = rows \ { r \in In(at) : IF at = 3 THEN Stamp[r] > cutoff
                                                 ELSE Stamp[r] < cutoff }
    /\ IF at < 3 THEN at' = at + 1 /\ UNCHANGED <<pc, cutoff>>
                 ELSE AfterAge
    /\ UNCHANGED <<pages, now, passDeleted, errors, used, due, doomed>>

(* DELETE FROM <table> WHERE <stamp> < cutoffNs, table after table.        *)
DeleteBefore ==
    /\ pc = "age"
    /\ rows' = rows \ { r \in In(at) : Stamp[r] < cutoff }
    /\ IF at < 3 THEN at' = at + 1 /\ UNCHANGED <<pc, cutoff>>
                 ELSE AfterAge
    /\ UNCHANGED <<pages, now, passDeleted, errors, used, due, doomed>>

(* A statement fails: DeleteBefore returns, the tables after it wait for   *)
(* the next tick.                                                          *)
DeleteBeforeFails ==
    /\ pc = "age"
    /\ errors < MaxErrors
    /\ errors' = errors + 1
    /\ AfterAge
    /\ due' = {}
    /\ UNCHANGED <<rows, pages, now, passDeleted, used, doomed>>

(* MUTANT of CheckSize: passDeleted is declared outside the loop.          *)
CheckSizeKeepsCount ==
    /\ pc = "size"
    /\ IF pages <= Cap
         THEN pc' = "idle" /\ UNCHANGED <<at, doomed>>
         ELSE /\ pc' = "evict"
              /\ at' = 1
              /\ doomed' = IF doomed = {} THEN rows ELSE doomed
    /\ UNCHANGED <<rows, pages, now, cutoff, passDeleted, errors, used, due>>

(* The head of EnforceMaxSize's loop.                                      *)
CheckSize ==
    /\ pc = "size"
    /\ IF pages <= Cap
         THEN pc' = "idle" /\ UNCHANGED <<at, passDeleted, doomed>>
         ELSE /\ pc' = "evict"
              /\ at' = 1
              /\ passDeleted' = 0
              /\ doomed' = IF doomed = {} THEN rows ELSE doomed
    /\ UNCHANGED <<rows, pages, now, cutoff, errors, used, due>>

(* MUTANT of Evict: the loop never asks whether the pass deleted anything. *)
EvictForEver ==
    /\ pc = "evict"
    /\ \E V \in OldestOf(In(at), Batch, Stamp) :
          /\ rows' = rows \ V
          /\ passDeleted' = passDeleted + Cardinality(V)
    /\ IF at < 3 THEN at' = at + 1 /\ UNCHANGED pc
                 ELSE at' = 1 /\ pc' = "size"
    /\ UNCHANGED <<pages, now, cutoff, errors, used, due, doomed>>

(* MUTANT of Evict: the pass ends the loop, whatever is left.              *)
EvictOnePass ==
    /\ pc = "evict"
    /\ \E V \in OldestOf(In(at), Batch, Stamp) :
          /\ rows' = rows \ V
          /\ passDeleted' = passDeleted + Cardinality(V)
    /\ IF at < 3 THEN at' = at + 1 /\ UNCHANGED pc
                 ELSE at' = 1 /\ pc' = "idle"
    /\ UNCHANGED <<pages, now, cutoff, errors, used, due, doomed>>

(* One statement of a pass, DELETE ... WHERE rowid IN (SELECT rowid ...    *)
(* ORDER BY stamp LIMIT Batch).  After the third: a pass that deleted      *)
(* nothing ends the sweep with a WAL checkpoint, which leaves page_count   *)
(* alone.                                                                  *)
Evict ==
    /\ pc = "evict"
    /\ \E V \in OldestOf(In(at), Batch, Stamp) :
          /\ rows' = rows \ V
          /\ passDeleted' = passDeleted + Cardinality(V)
    /\ IF at < 3 THEN at' = at + 1 /\ UNCHANGED pc
                 ELSE at' = 1 /\ pc' = IF passDeleted' = 0 THEN "idle" ELSE "size"
    /\ UNCHANGED <<pages, now, cutoff, errors, used, due, doomed>>

(* DBSize or an eviction statement fails: EnforceMaxSize returns.          *)
EnforceFails ==
    /\ pc \in {"size", "evict"}
    /\ errors < MaxErrors
    /\ errors' = errors + 1
    /\ pc' = "idle"
    /\ doomed' = {}
    /\ UNCHANGED <<rows, pages, now, at, cutoff, passDeleted, used, due>>

Sweeper == \/ StartSweep \/ DeleteBefore \/ DeleteBeforeFails
           \/ CheckSize \/ Evict \/ EnforceFails

Next == Tick \/ Sweeper \/ \E group \in Commits : Ingest(group)

SafeSpec == Init /\ [][Next]_vars

(* The sweeper goroutine runs: ticks keep coming and each statement ends.  *)
Spec == SafeSpec /\ WF_vars(Sweeper)

-----------------------------------------------------------------------------
(* An age sweep that is not cut short deletes every row that had expired   *)
(* when it began, in all three tables, whatever is inserted meanwhile.     *)
AgeSweepComplete ==
    /\ pc = "age" => \A r \in due \cap rows : \E t \in at .. 3 : r \in In(t)
    /\ pc # "age" => due \cap rows = {}

(* A row leaves the database only when it is older than the window by the  *)
(* server's clock, or while the database is over its cap.                  *)
DeletedForCause ==
    [][ \A r \in rows \ rows' :
            \/ Window > 0 /\ Stamp[r] + Window < now
            \/ Cap > 0 /\ pages > Cap ]_vars

(* What the cap comes to: a size sweep that finds the database over it     *)
(* does not stop at the oldest rows, every row it found is gone when it is *)
(* done, because the size it waits for cannot fall.                        *)
OverCapWipesAll == pc = "idle" => doomed \cap rows = {}

(* No more statements than this are left of the sweep if nothing more is   *)
(* inserted: each pass but the last deletes a row, and takes four.         *)
LeftOfSize == IF Cap > 0 THEN 4 * Cardinality(rows) + 4 ELSE 0

LeftOfSweep ==
    CASE pc = "idle"  -> 0
      [] pc = "age"   -> (4 - at) + LeftOfSize
      [] pc = "size"  -> LeftOfSize
      [] pc = "evict" -> (4 - at) + IF passDeleted > 0
                                    THEN 4 * Cardinality(rows) + 4
                                    ELSE 4 * Cardinality(rows)

(* A sweep runs down: each of its statements leaves fewer to come, and     *)
(* only rows that are inserted meanwhile prolong it, each by one pass.     *)
(* (The loop of EnforceMaxSize has no other bound than that.)              *)
SweepRunsDown ==
    [][ \/ pc = "idle"
        \/ LeftOfSweep' < LeftOfSweep
        \/ /\ UNCHANGED sweepVars /\ rows \subseteq rows'
           /\ LeftOfSweep' <= LeftOfSweep + 4 * Cardinality(rows' \ rows) ]_vars

(* EnforceMaxSize returns and the sweeper comes back for its next tick.    *)
SweepEnds == pc # "idle" ~> pc = "idle"

(* A row that outlives the window is deleted in the end, even if a         *)
(* statement failed on the way.                                            *)
ExpiredRowsGo ==
    Window > 0 => \A r \in Rows :
        (r \in rows /\ Stamp[r] + Window < now) ~> r \notin rows

(* docs/usage.md on -max-size: "evicts the oldest rows once the database   *)
(* file exceeds the cap, until it's back under".  When a size sweep that   *)
(* began over the cap has ended, the size is within the cap.               *)
BackUnderCap == pc = "idle" /\ doomed # {} => pages <= Cap
=============================================================================
