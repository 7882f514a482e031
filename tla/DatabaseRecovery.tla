-------------------------- MODULE DatabaseRecovery --------------------------
(***************************************************************************)
(* How the program opens its database (SqliteWorkspaceRepository::open in  *)
(* src-tauri/src/infrastructure/sqlite/repository): inspection, a snapshot *)
(* of the file before a migration, the migrations in one transaction, the  *)
(* cookies of the last session, and a read-only "safe mode" when one of    *)
(* these fails.  lib.rs opens the database once for each of its services,  *)
(* one after the other, and shows the mode of the first.                   *)
(*                                                                         *)
(* Programs of several builds may be started on one database.  The         *)
(* database is in WAL mode once it has been opened: what is committed may  *)
(* be in the log beside the file, and the snapshot copies the file alone.  *)
(***************************************************************************)
EXTENDS Integers, Sequences

CONSTANTS
  Builds,      \* builds of the program, each the number of migrations it has
  Retention,   \* PRE_MIGRATION_SNAPSHOT_RETENTION
  Opens,       \* repositories that lib.rs opens
  MaxCommits,  \* bound: commits of the program's work
  MaxCopies    \* bound: snapshots

ASSUME BuildsAssumption == Builds \subseteq Nat \ {0}
ASSUME RecoveryAssumption == {Retention, Opens} \subseteq Nat \ {0} /\ {MaxCommits, MaxCopies} \subseteq Nat

VARIABLES
  file,       \* what the database file holds
  committed,  \* what is committed, in the file or in the log
  condition,  \* of the file: "sound", "damaged", or "torn": a journal is left that only a writer can roll back
  copies,     \* snapshots, in the order of their names
  program     \* the running program: its build, how far it is, the mode of each repository it has opened

recoveryVars == <<file, committed, condition, copies, program>>

\* A database: the migrations that are applied, and the commits since.
Content == [version : Nat, commits : Nat]
NoFile == [version |-> 0, commits |-> 0]
Off == [build |-> 0, stage |-> "off", modes |-> <<>>]

RecoveryInit ==
  /\ file = NoFile /\ committed = NoFile /\ condition = "sound"
  /\ copies = <<>> /\ program = Off

At(stage) == program.stage = stage
GoTo(stage) == program' = [program EXCEPT !.stage = stage]

\* The next repository is opened, or all are.
Opened(mode) ==
  LET modes == Append(program.modes, mode)
  IN  program' = [program EXCEPT !.modes = modes,
                                 !.stage = IF Len(modes) = Opens THEN "up" ELSE "inspect"]

StartProgram(b) ==
  /\ At("off")
  /\ program' = [build |-> b, stage |-> "inspect", modes |-> <<>>]
  /\ UNCHANGED <<file, committed, condition, copies>>

Pending == committed.version < program.build

TooNew == committed.version > program.build

\* inspect_database_before_migration, over a connection that reads the log as
\* well.  An error of a newer schema ends the start, every other opens the
\* database read-only.
Inspect ==
  /\ At("inspect")
  /\ \/ condition # "sound" /\ Opened("safe")
     \/ condition = "sound" /\ TooNew /\ program' = Off
     \/ /\ condition = "sound" /\ ~TooNew
        /\ GoTo(IF Pending /\ file # NoFile THEN "copy" ELSE "migrate")
  /\ UNCHANGED <<file, committed, condition, copies>>

\* create_pre_migration_snapshot.  An error of the copy or of the rotation ends
\* the start.
CopyFile ==
  /\ At("copy") /\ Len(copies) < MaxCopies
  /\ \/ copies' = Append(copies, file) /\ GoTo("rotate")
     \/ UNCHANGED copies /\ program' = Off
  /\ UNCHANGED <<file, committed, condition>>

\* Mutant: the newest ones go.
RotatedNewest == IF Len(copies) <= Retention THEN copies ELSE SubSeq(copies, 1, Retention)

\* rotate_pre_migration_snapshots.
Rotated ==
  IF Len(copies) <= Retention THEN copies
  ELSE SubSeq(copies, Len(copies) - Retention + 1, Len(copies))

Rotate ==
  /\ At("rotate")
  /\ \/ copies' = Rotated /\ GoTo("migrate")
     \/ \* it stops at a file that cannot be removed
        /\ \E n \in 0..(Len(copies) - Len(Rotated)) : copies' = SubSeq(copies, n + 1, Len(copies))
        /\ program' = Off
  /\ UNCHANGED <<file, committed, condition>>

\* apply_migrations.  The first one writes the file itself, as the log is only
\* switched on after it.
Migrate ==
  /\ At("migrate")
  /\ \/ /\ committed' = [committed EXCEPT !.version = program.build]
        /\ file' = IF file = NoFile THEN committed' ELSE file
        /\ GoTo("clear")
     \/ Opened("safe") /\ UNCHANGED <<file, committed>>
  /\ UNCHANGED <<condition, copies>>

\* clear_session_cookie_metadata.
ClearCookies ==
  /\ At("clear")
  /\ Opened("normal") \/ Opened("safe")
  /\ UNCHANGED <<file, committed, condition, copies>>

\* A command that writes, through a repository that may.
Work ==
  /\ At("up") /\ \E i \in 1..Opens : program.modes[i] = "normal"
  /\ committed.commits < MaxCommits
  /\ committed' = [committed EXCEPT !.commits = @ + 1]
  /\ UNCHANGED <<file, condition, copies, program>>

\* SQLite moves the log into the file when it is long, or when it is closed by
\* its last connection.
Checkpoint ==
  /\ program.stage \in {"clear", "up"} /\ \E i \in DOMAIN program.modes : program.modes[i] = "normal"
  /\ file' = committed
  /\ UNCHANGED <<committed, condition, copies, program>>

\* The program ends, or is ended at any point; the log may be left behind.  If
\* that is in the first migration, its journal may be left too.
EndProgram ==
  /\ ~At("off") /\ program' = Off
  /\ condition' \in IF At("migrate") /\ file = NoFile THEN {condition, "torn"} ELSE {condition}
  /\ UNCHANGED <<file, committed, copies>>

Damage ==
  /\ At("off") /\ file # NoFile
  /\ condition' = "damaged"
  /\ UNCHANGED <<file, committed, copies, program>>

RecoveryNext ==
  \/ \E b \in Builds : StartProgram(b)
  \/ Inspect \/ CopyFile \/ Rotate \/ Migrate \/ ClearCookies
  \/ Work \/ Checkpoint \/ EndProgram \/ Damage

RecoverySpec == RecoveryInit /\ [][RecoveryNext]_recoveryVars

-----------------------------------------------------------------------------
(* Properties *)

\* Every variable has its type, and a program that writes has the schema of its
\* build.
RecoveryTypeOK ==
  /\ file \in Content /\ committed \in Content
  /\ condition \in {"sound", "damaged", "torn"}
  /\ copies \in Seq(Content)
  /\ program.build \in Builds \union {0}
  /\ program.stage \in {"off", "inspect", "copy", "rotate", "migrate", "clear", "up"}
  /\ program.modes \in Seq({"normal", "safe"}) /\ Len(program.modes) <= Opens

\* A repository that may write sees the schema its build knows, whatever builds
\* were run on the database before and wherever they were ended.
WritersKnowTheSchema ==
  \A i \in DOMAIN program.modes :
    program.modes[i] = "normal" => committed.version = program.build

\* Before a database that holds something is migrated, the newest snapshot is
\* what its file held, and no more snapshots are kept than they should be.
UpgradesAreCopied ==
  [][committed'.version # committed.version /\ file # NoFile =>
       /\ copies # <<>> /\ copies[Len(copies)] = file
       /\ Len(copies) <= Retention]_recoveryVars

\* A program leaves a database of a newer build alone: nothing is migrated or
\* written, and no snapshot is taken that pushes others out.
NewerIsLeftAlone ==
  [][committed.version > program.build /\ ~At("off") =>
       UNCHANGED <<committed, copies>> /\ program'.modes \in Seq({"safe"})]_recoveryVars

\* What opening the database promises: a program writes to a schema that it
\* knows, an upgrade can be undone, a newer database is left alone.
RecoveryCorrect ==
  /\ [](RecoveryTypeOK /\ WritersKnowTheSchema)
  /\ UpgradesAreCopied
  /\ NewerIsLeftAlone

=============================================================================
