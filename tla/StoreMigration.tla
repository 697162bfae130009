---------------------------- MODULE StoreMigration ----------------------------
(***************************************************************************)
(* core/idb-repository.js, initialize and recoverMigration: the one row of *)
(* chrome.storage.local that held everything (schema 5) becomes a database *)
(* and a small control row (schema 6).  A backup is taken, rows are copied *)
(* in chunks with a cursor, compared with the backup, the local row is     *)
(* sealed, and the backup dropped.  Any transaction or write may fail, the *)
(* worker may die at every await, and a seal it dispatched may land later. *)
(* A worker keeps only the migration row it last read or wrote, so its     *)
(* memory is its program counter.                                          *)
(***************************************************************************)
EXTENDS Naturals

CONSTANTS Chunks,       \* how many chunks the copy takes
          MaxFailures,  \* bound: failures and deaths of the worker
          MaxResets     \* bound: uses of recoverMigration

ASSUME MigrationAssumption == Chunks \in Nat

VARIABLES localRow, \* the row of chrome.storage.local: 5, or the database id of a sealed row
          phase,   \* meta: the migration row's phase, or "none"
          id,      \* its database id
          copyCursor, \* its cursor
          chunks,  \* the chunks in the database
          control, \* whether the control and sequence rows are there
          backup,  \* whether the schema 5 backup is there
          opened,  \* whether the gate is there
          seals,   \* seals dispatched to chrome.storage.local and not landed
          pc, failures, resets

database == <<phase, id, copyCursor, chunks, control, backup, opened>>
migrationVars == <<localRow, database, seals, pc, failures, resets>>

All == 1..Chunks
Old == 0  \* the local row of schema 5; database ids are positive

MigrationInit ==
    /\ localRow = Old /\ phase = "none" /\ id = 0 /\ copyCursor = 0 /\ chunks = {}
    /\ control = FALSE /\ backup = FALSE /\ opened = FALSE
    /\ seals = {} /\ pc = "idle" /\ failures = 0 /\ resets = 0

(* initialize reads the migration row and goes on from its phase; an      *)
(* active database must be the one the local row names.                    *)
Start ==
    /\ pc = "idle"
    /\ pc' = CASE phase = "none" /\ localRow = Old -> "back up"
               [] phase = "copying" /\ backup -> "copy"
               [] phase = "verified" -> "verified"
               [] phase = "active" /\ localRow = id -> "loaded"
               [] OTHER -> "stuck"
    /\ UNCHANGED <<localRow, database, seals, failures, resets>>

BackUp ==
    /\ pc = "back up"
    /\ backup' = TRUE /\ phase' = "copying" /\ id' = id + 1 /\ copyCursor' = 0
    /\ pc' = "copy"
    /\ UNCHANGED <<localRow, chunks, control, opened, seals, failures, resets>>

(* A chunk and the cursor behind it are one transaction. *)
CopyCursorFirst == \* mutant
    /\ pc = "copy" /\ copyCursor < Chunks
    /\ IF copyCursor \in chunks \/ copyCursor = 0
       THEN copyCursor' = copyCursor + 1 /\ UNCHANGED chunks
       ELSE chunks' = chunks \cup {copyCursor} /\ UNCHANGED copyCursor
    /\ UNCHANGED <<localRow, phase, id, control, backup, opened, seals, pc, failures, resets>>
Copy ==
    /\ pc = "copy" /\ copyCursor < Chunks
    /\ chunks' = chunks \cup {copyCursor + 1}
    /\ copyCursor' = copyCursor + 1
    /\ UNCHANGED <<localRow, phase, id, control, backup, opened, seals, pc, failures, resets>>

CopyControl ==
    /\ pc = "copy" /\ copyCursor = Chunks
    /\ control' = TRUE
    /\ pc' = "compare"
    /\ UNCHANGED <<localRow, phase, id, copyCursor, chunks, backup, opened, seals, failures, resets>>

(* materialize: the database must give back the whole backup. *)
Same == backup /\ chunks = All /\ control

Verify ==
    /\ pc = "compare"
    /\ IF Same THEN phase' = "verified" /\ pc' = "verified"
               ELSE pc' = "stuck" /\ UNCHANGED phase
    /\ UNCHANGED <<localRow, id, copyCursor, chunks, control, backup, opened, seals, failures, resets>>

Seal ==
    /\ pc = "verified"
    /\ IF Same THEN seals' = seals \cup {id} /\ pc' = "sealing"
               ELSE pc' = "stuck" /\ UNCHANGED seals
    /\ UNCHANGED <<localRow, database, failures, resets>>

Land(n) ==
    /\ n \in seals
    /\ seals' = seals \ {n}
    /\ localRow' = n
    /\ pc' = IF pc = "sealing" /\ n = id THEN "sealed" ELSE pc
    /\ UNCHANGED <<database, failures, resets>>

Activate ==
    /\ pc = "sealed"
    /\ backup' = FALSE /\ opened' = TRUE /\ control' = FALSE /\ phase' = "active"
    /\ pc' = "idle"
    /\ UNCHANGED <<localRow, id, copyCursor, chunks, seals, failures, resets>>

(* A step fails or the worker dies; the next request begins again. A seal  *)
(* may have been lost with it.                                             *)
Fail ==
    /\ pc \notin {"idle", "loaded"} /\ failures < MaxFailures
    /\ failures' = failures + 1
    /\ pc' = "idle"
    /\ seals' \in {seals, {}}
    /\ UNCHANGED <<localRow, database, resets>>

Again ==
    /\ pc \in {"stuck", "loaded"}
    /\ pc' = "idle"
    /\ UNCHANGED <<localRow, database, seals, failures, resets>>

(* recoverMigration: clear everything but the backup and copy again. *)
Reset ==
    /\ pc = "idle" /\ resets < MaxResets
    /\ phase \in {"copying", "verified"} /\ backup
    /\ resets' = resets + 1
    /\ phase' = "copying" /\ copyCursor' = 0 /\ chunks' = {} /\ control' = FALSE /\ opened' = FALSE
    /\ pc' = "copy"
    /\ UNCHANGED <<localRow, id, backup, seals, failures>>

Work == \/ Start \/ BackUp \/ Copy \/ CopyControl \/ Verify \/ Seal \/ Activate \/ Again
        \/ \E n \in seals : Land(n)

MigrationNext == Work \/ Fail \/ Reset

MigrationSpec == MigrationInit /\ [][MigrationNext]_migrationVars
MigrationFairness == WF_migrationVars(Work)

-----------------------------------------------------------------------------
MigrationTypeOK ==
    /\ localRow \in 0..id /\ seals \subseteq 1..id /\ copyCursor \in 0..Chunks
    /\ chunks \subseteq All
    /\ (phase = "none" <=> id = 0)

(* At every moment something holds the whole library: the old row, the     *)
(* backup, or a complete database that is active.                          *)
NothingIsLost == \/ localRow = Old
                 \/ backup
                 \/ phase = "active" /\ chunks = All

(* The database is in use only when every chunk is there and the local row *)
(* is the sealed row that names it.                                        *)
ActiveIsWhole == phase = "active" => chunks = All /\ localRow = id /\ opened /\ ~control

(* The cursor never runs ahead of the chunks: a restart skips nothing. *)
CursorIsCovered == 1..copyCursor \subseteq chunks

(* Whatever fails on the way, the migration ends with a database in use. *)
MigrationEnds == <>[](phase = "active" /\ localRow = id)

(* What holds throughout: nothing of the library is lost on the way, and a *)
(* database in use is whole.                                               *)
MigrationIsSafe == MigrationTypeOK /\ NothingIsLost /\ ActiveIsWhole /\ CursorIsCovered
=============================================================================
