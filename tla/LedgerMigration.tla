--------------------------- MODULE LedgerMigration ---------------------------
(***************************************************************************)
(* Opening the Progress Recorder (progress/mod.rs, from_connection): every *)
(* process that opens the database creates the tables, adds the scope      *)
(* columns a version 1 table lacks, and backfills the rows without scope.  *)
(* Each statement commits on its own, so the upgrades of two processes can *)
(* interleave and a crash can leave one half done.                         *)
(*                                                                         *)
(* CheckpointPages adds the rows and the queries of the open ledger; what  *)
(* is here leaves them alone.                                              *)
(***************************************************************************)
EXTENDS Naturals, FiniteSets

CONSTANTS
    Procs,          \* processes that open the database
    OldRows,        \* rows written by version 1
    MaxCrashes      \* bound on crashes

ASSUME BoundAssumption == MaxCrashes \in Nat

VARIABLES
    tables,         \* the checkpoint table exists
    columns,        \* its scope columns
    unscoped,       \* rows whose project_id is NULL
    pc,             \* where each process is in from_connection
    missing,        \* the column a process has found missing
    crashes

migrationVars == <<tables, columns, unscoped, pc, missing, crashes>>

Columns == {"project_id", "work_item_id"}

MigrationTypeOK ==
    /\ tables \in BOOLEAN
    /\ columns \in SUBSET Columns
    /\ unscoped \in SUBSET OldRows
    /\ pc \in [Procs -> {"closed", "created", "first", "second", "columns", "open", "failed"}]
    /\ missing \in [Procs -> BOOLEAN]
    /\ crashes \in 0 .. MaxCrashes

\* A database that does not exist yet, one of version 1, or one of version 2.
MigrationInit ==
    /\ \/ tables = FALSE /\ columns = {} /\ unscoped = {}
       \/ tables = TRUE /\ columns = {} /\ unscoped = OldRows
       \/ tables = TRUE /\ columns = Columns /\ unscoped = {}
    /\ pc = [p \in Procs |-> "closed"]
    /\ missing = [p \in Procs |-> FALSE]
    /\ crashes = 0

-----------------------------------------------------------------------------
\* CREATE TABLE IF NOT EXISTS: a new table already has the scope columns.
NewColumns == Columns

CreateTables(p) ==
    /\ pc[p] = "closed"
    /\ pc' = [pc EXCEPT ![p] = "created"]
    /\ tables' = TRUE
    /\ columns' = IF tables THEN columns ELSE NewColumns
    /\ UNCHANGED <<unscoped, missing, crashes>>

(* ensure_checkpoint_scope_columns looks for one column and then, in another
   statement, adds it; first project_id, then work_item_id. *)
LooksFor(column, p) == IF column = "project_id" THEN pc[p] = "created" ELSE pc[p] = "first"
Found(column) == IF column = "project_id" THEN "first" ELSE "columns"

\* Faulty variant: the column is added without looking for it.
NeverPresent(column) == FALSE
IsPresent(column) == column \in columns

CheckColumn(p, column) ==
    /\ LooksFor(column, p)
    /\ ~missing[p]
    /\ IF IsPresent(column)
       THEN pc' = [pc EXCEPT ![p] = Found(column)] /\ UNCHANGED missing
       ELSE missing' = [missing EXCEPT ![p] = TRUE] /\ UNCHANGED pc
    /\ UNCHANGED <<tables, columns, unscoped, crashes>>

\* ALTER TABLE fails with "duplicate column name" if another process came first.
IsDuplicate(column) == column \in columns

AddColumn(p, column) ==
    /\ LooksFor(column, p)
    /\ missing[p]
    /\ missing' = [missing EXCEPT ![p] = FALSE]
    /\ columns' = columns \cup {column}
    /\ pc' = [pc EXCEPT ![p] = IF IsDuplicate(column) THEN "failed" ELSE Found(column)]
    /\ UNCHANGED <<tables, unscoped, crashes>>

\* Faulty variant: the rows are left to another process.
BackfilledByOther(p) == unscoped
\* What the UPDATE leaves without scope.
Backfilled(p) == {}

\* UPDATE ... WHERE project_id IS NULL; then the recorder is open.
Backfill(p) ==
    /\ pc[p] = "columns"
    /\ unscoped' = Backfilled(p)
    /\ pc' = [pc EXCEPT ![p] = "open"]
    /\ UNCHANGED <<tables, columns, missing, crashes>>

\* The open returned an error: the command ends and may be run again.
Retry(p) ==
    /\ pc[p] = "failed"
    /\ pc' = [pc EXCEPT ![p] = "closed"]
    /\ UNCHANGED <<tables, columns, unscoped, missing, crashes>>

Crash(p) ==
    /\ pc[p] \notin {"closed", "failed"}
    /\ crashes < MaxCrashes
    /\ crashes' = crashes + 1
    /\ pc' = [pc EXCEPT ![p] = "closed"]
    /\ missing' = [missing EXCEPT ![p] = FALSE]
    /\ UNCHANGED <<tables, columns, unscoped>>

OpenStep(p) ==
    \/ CreateTables(p)
    \/ \E column \in Columns : CheckColumn(p, column) \/ AddColumn(p, column)
    \/ Backfill(p)

Migrate == \E p \in Procs : OpenStep(p) \/ Retry(p) \/ Crash(p)

IsOpen == \E p \in Procs : pc[p] = "open"

-----------------------------------------------------------------------------
(* Properties *)

(* A process that has the ledger open finds every row scoped and both columns
   present, whichever process upgraded the database and wherever an earlier
   upgrade crashed: `list` filters by the columns and would miss other rows. *)
OpenIsScoped ==
    \A p \in Procs : pc[p] = "open" => columns = Columns /\ unscoped = {}

(* Every process gets the ledger open in the end, although two upgrades at once
   may make one of them fail. *)
EveryProcessOpens == \A p \in Procs : <>[](pc[p] = "open")

=============================================================================
