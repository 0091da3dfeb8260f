------------------------------ MODULE Migration ------------------------------
(* migrate, in the write transaction of every initialize_storage.  Engines of   *)
(* two versions can open one database by turns (a server that still runs and a  *)
(* newer command line), and a process can die between any two statements.       *)
EXTENDS Naturals, FiniteSets

CONSTANTS Engine,       \* the schema versions of the engines
          PathSince,    \* the version whose findings table has the file_path column
          MaxOpens,     \* transactions that begin
          Closed

ASSUME EngineAssumption == Engine \subseteq Nat \ {0} /\ PathSince \in Nat
ASSUME ClosedAssumption ==
    Closed \notin [user : Nat, table : Nat, base : BOOLEAN, steps : SUBSET Nat, column : BOOLEAN,
                   finding : [path : {"none", "empty", "set"}, linked : BOOLEAN]]

VARIABLES db,       \* the committed database
          work,     \* what the open transaction sees, or Closed
          engine,   \* whose transaction it is
          todo,     \* its next statement
          opens

migrationVars == <<db, work, engine, todo, opens>>

Newest == CHOOSE v \in Engine : \A w \in Engine : w <= v

\* A finding's file_path is unset or set; its file_id resolves or not.
NoFinding == [path |-> "none", linked |-> FALSE]

Blank == [user |-> 0, table |-> 0, base |-> FALSE, steps |-> {}, column |-> FALSE,
          finding |-> NoFinding]

\* A database of the second version: no user_version pragma yet.
Legacy == [Blank EXCEPT !.table = 2, !.base = TRUE, !.steps = 1..2,
                        !.finding = [path |-> "empty", linked |-> TRUE]]

MigrationInit ==
    /\ db \in {Blank, Legacy}
    /\ work = Closed
    /\ engine = 0
    /\ todo = "begin"
    /\ opens = 0

-----------------------------------------------------------------------------

Begin(e) ==
    /\ work = Closed /\ opens < MaxOpens
    /\ opens' = opens + 1
    /\ work' = db
    /\ engine' = e
    /\ todo' = "base"
    /\ UNCHANGED db

Statement(from, to) == todo = from /\ todo' = to /\ UNCHANGED <<db, engine, opens>>

\* BASE_TABLE_STATEMENTS: create table if not exists leaves an old shape alone.
CreateBase ==
    /\ Statement("base", "steps")
    /\ work' = [work EXCEPT !.base = TRUE,
                            !.column = IF work.base THEN @ ELSE engine >= PathSince]

\* _current_schema_version: the pragma, or else the table.
CurrentVersion == IF work.user > 0 THEN work.user ELSE work.table

\* Mutant of DueSteps: the last version is left out.
DueStepsShort == CurrentVersion + 1..engine - 1

\* An older engine runs none on a newer database.
DueSteps == CurrentVersion + 1..engine

\* MIGRATION_STATEMENTS, every one of them idempotent.
RunStep(v) ==
    /\ todo = "steps" /\ v \in DueSteps \ work.steps
    /\ \A w \in DueSteps \ work.steps : v <= w
    /\ work' = [work EXCEPT !.steps = @ \cup {v}]
    /\ UNCHANGED <<db, engine, todo, opens>>

\* _reconcile_columns: add the columns a table was created without.
Reconcile ==
    /\ Statement("steps", "backfill")
    /\ DueSteps \subseteq work.steps
    /\ work' = [work EXCEPT !.column = @ \/ engine >= PathSince]

\* _backfill_finding_file_paths.
Backfill ==
    /\ Statement("backfill", "stamp")
    /\ work' = IF work.column /\ engine >= PathSince /\ work.finding.path = "empty"
                  /\ work.finding.linked
               THEN [work EXCEPT !.finding.path = "set"] ELSE work

\* Pragma and table; an older engine stamps a newer database back.
Stamp ==
    /\ Statement("stamp", "commit")
    /\ work' = [work EXCEPT !.user = engine, !.table = engine]

CommitMigration ==
    /\ todo = "commit"
    /\ db' = work
    /\ work' = Closed /\ engine' = 0 /\ todo' = "begin"
    /\ UNCHANGED opens

\* The process dies or a statement raises; DDL rolls back with the transaction.
RollBack ==
    /\ work # Closed
    /\ work' = Closed /\ engine' = 0 /\ todo' = "begin"
    /\ UNCHANGED <<db, opens>>

\* Between migrations a scan stores a finding, or its file loses its row or gets it
\* again.  An engine that does not know file_path leaves it empty.
StoreFinding ==
    /\ work = Closed /\ db.user > 0
    /\ \E linked \in BOOLEAN :
          db' = [db EXCEPT !.finding =
                   [path |-> IF db.user >= PathSince \/ db.finding.path = "set" THEN "set" ELSE "empty",
                    linked |-> linked]]
    /\ db' # db
    /\ UNCHANGED <<work, engine, todo, opens>>

MigrationStep ==
    \/ \E e \in Engine : Begin(e)
    \/ CreateBase
    \/ \E v \in 1..Newest : RunStep(v)
    \/ Reconcile \/ Backfill \/ Stamp \/ CommitMigration \/ RollBack

MigrationNext == MigrationStep \/ StoreFinding

MigrationSpec == MigrationInit /\ [][MigrationNext]_migrationVars

-----------------------------------------------------------------------------
(* Properties *)

\* What a database of its version needs.
Whole(d) ==
    d.user > 0 =>
        /\ d.table = d.user
        /\ d.base /\ 1..d.user \subseteq d.steps
        /\ d.user >= PathSince => d.column

\* Wherever a process dies, and whichever engine opened the database last, the
\* committed database has everything the version it states needs: the tables and
\* indexes of each step up to it, the file_path column, and a path on every finding
\* whose file is known; both places agree on the version.  No migration takes away
\* what another engine has made (schema.py:357).
MigrationIsWhole ==
    [][/\ Whole(db')
       /\ db.steps \subseteq db'.steps /\ (db.column => db'.column) /\ (db.base => db'.base)
       /\ db.finding.path = "set" => db'.finding.path = "set"
       /\ work # Closed /\ db' # db =>
             /\ db'.user = engine
             /\ engine >= PathSince /\ db'.finding.linked => db'.finding.path # "empty"]_migrationVars
=============================================================================
