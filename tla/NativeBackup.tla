---------------------------- MODULE NativeBackup ----------------------------
(***************************************************************************)
(* The backup of a workspace in an archive and its restoration under new   *)
(* ids: NativeBackupService (src-tauri/src/application/backup.rs) over     *)
(* infrastructure/sqlite/repository/backups.rs.                            *)
(*                                                                         *)
(* A row stands for a folder, an environment, a variable, a request, a     *)
(* draft, a tab, a record or a cookie.  All that a backup keeps of it is   *)
(* its name here; apart from that it refers to rows and to a body file,    *)
(* and has a value, which may be secret.                                   *)
(***************************************************************************)
EXTENDS Integers, Sequences, FiniteSets

CONSTANTS
  Samples,      \* contents of a workspace that are tried: functions of ids to rows
  Titles,       \* names of workspaces
  Directories,
  FileNames,    \* names of files that the user has
  Hashes,       \* contents of files, known by their SHA-256
  Nowhere,      \* no directory, no file, no workspace, no archive
  MaxRowId      \* bound: ids drawn

ASSUME MaxRowIdAssumption == MaxRowId \in Nat

VARIABLES
  spaceOf,    \* each workspace: its rows and its base directory
  disk,       \* content of the files in each directory, by name
  archive,    \* the file of the backup
  drawnIds,   \* ids up to this one are or were in use
  cameFrom    \* history: the rows that each restored workspace was exported from

backupVars == <<spaceOf, disk, archive, drawnIds, cameFrom>>

\* A body file in the archive has its hash as its name.
Names == FileNames \union Hashes
NoBodyFile == [at |-> Nowhere, name |-> Nowhere, hash |-> Nowhere]
BodyFile == [at : Directories \union {"relative"}, name : Names, hash : Hashes]
Kinds == {"folder", "environment", "variable", "request", "draft", "tab", "record", "cookie"}
Row(values) ==
  [kind : Kinds, name : STRING, of : Seq(1..MaxRowId), file : BodyFile \union {NoBodyFile}, value : values]

IsRows(rows, values) == \A id \in DOMAIN rows : id \in 1..MaxRowId /\ rows[id] \in Row(values)

\* Rows that refer to one another only.
Closed(rows) == \A id \in DOMAIN rows : \A i \in DOMAIN rows[id].of : rows[id].of[i] \in DOMAIN rows

ASSUME SamplesAssumption ==
  /\ Samples # {}
  /\ \A rows \in Samples : IsRows(rows, {"plain", "secret"}) /\ Closed(rows)
ASSUME NowhereAssumption ==
  /\ Nowhere \notin Directories \union FileNames \union Hashes \union Titles
  /\ \A ids \in SUBSET (1..MaxRowId) : Nowhere \notin [ids -> Row({"plain", "excluded"})]

HasFile(row) == row.kind \in {"request", "draft"} /\ row.file # NoBodyFile
FilesIn(rows) == {rows[id].file : id \in {id \in DOMAIN rows : HasFile(rows[id])}}
There == {w \in Titles : spaceOf[w] # Nowhere}

\* The ids that a user's own rows have.
FirstIds == CHOOSE n \in 0..MaxRowId :
  /\ \A rows \in Samples : DOMAIN rows \subseteq 1..n
  /\ \A m \in 0..(n - 1) : \E rows \in Samples : ~(DOMAIN rows \subseteq 1..m)

BackupInit ==
  /\ spaceOf = [v \in Titles |-> IF v = CHOOSE w \in Titles : TRUE
                                 THEN [rows |-> CHOOSE rows \in Samples : TRUE, base |-> Nowhere] ELSE Nowhere]
  /\ disk \in [Directories \X Names -> {Nowhere}]
  /\ archive = Nowhere
  /\ drawnIds = FirstIds
  /\ cameFrom = [w \in Titles |-> Nowhere]

-----------------------------------------------------------------------------
(* Export *)

\* sanitize_backup_data.
Sanitized(rows) ==
  [id \in DOMAIN rows |-> IF rows[id].value = "secret"
                          THEN [rows[id] EXCEPT !.value = "excluded"] ELSE rows[id]]

\* resolve_body_file_path.
PathOf(file, base) == <<IF file.at = "relative" THEN base ELSE file.at, file.name>>

\* Every file can be found, and is what its reference says.
CanBeRead(rows, base) ==
  \A file \in FilesIn(rows) :
    /\ PathOf(file, base)[1] # Nowhere
    /\ disk[PathOf(file, base)] = file.hash

EntryFile(hash) == [at |-> "relative", name |-> hash, hash |-> hash]

\* Mutant: the drafts keep the paths they had.
RewrittenInRequests(rows) ==
  [id \in DOMAIN rows |-> IF HasFile(rows[id]) /\ rows[id].kind = "request"
                          THEN [rows[id] EXCEPT !.file = EntryFile(@.hash)] ELSE rows[id]]

\* rewrite_body_file_paths for every file: records keep the paths they had.
Rewritten(rows) ==
  [id \in DOMAIN rows |-> IF HasFile(rows[id])
                          THEN [rows[id] EXCEPT !.file = EntryFile(@.hash)] ELSE rows[id]]

\* export.  An earlier backup at the same path is overwritten, and all of it is
\* lost if the program ends before the new one is whole.
Export(w, withFiles, base) ==
  LET rows == Sanitized(spaceOf[w].rows) IN
  /\ w \in There
  /\ withFiles => CanBeRead(rows, base)
  /\ \/ archive' = [rows |-> IF withFiles THEN Rewritten(rows) ELSE rows,
                    base |-> spaceOf[w].base,
                    files |-> IF withFiles THEN {file.hash : file \in FilesIn(rows)} ELSE {},
                    state |-> "whole", original |-> rows, complete |-> withFiles]
     \/ archive' = Nowhere
  /\ UNCHANGED <<spaceOf, disk, drawnIds, cameFrom>>

\* The archive is changed outside of the program: an entry is cut or replaced, one
\* is added, or the manifest is of another version; or a body file is left out.
DamageArchive(state) ==
  /\ archive # Nowhere /\ archive.state = "whole"
  /\ archive' = [archive EXCEPT !.state = state,
                   !.files = IF state = "fileMissing" THEN {} ELSE @]
  /\ UNCHANGED <<spaceOf, disk, drawnIds, cameFrom>>

-----------------------------------------------------------------------------
(* Restoration *)

\* read_verified_archive: what the manifest lists need not be there, except for
\* the workspace itself.
Verified == archive # Nowhere /\ archive.state \in {"whole", "fileMissing"}

\* restore_backup_requests: every row under a new id, and every reference to the
\* new id of what it referred to.
Renumbered(rows) ==
  [new \in {drawnIds + id : id \in DOMAIN rows} |->
     LET row == rows[new - drawnIds]
     IN  [row EXCEPT !.of = [i \in DOMAIN @ |-> drawnIds + @[i]]]]

\* restore_body_files: all of them, or those before one that cannot be written.
WritesFiles(directory, hashes) ==
  disk' = [place \in DOMAIN disk |->
             IF place[1] = directory /\ place[2] \in hashes THEN place[2] ELSE disk[place]]

\* restore.  The workspace is committed before the files are written: without a
\* directory for them the command fails and the workspace stays.
Restore(w, directory) ==
  /\ w \notin There /\ Verified
  /\ drawnIds + drawnIds <= MaxRowId
  /\ spaceOf' = [spaceOf EXCEPT ![w] = [rows |-> Renumbered(archive.rows), base |-> archive.base]]
  /\ cameFrom' = [cameFrom EXCEPT ![w] = archive.original]
  /\ drawnIds' = drawnIds + drawnIds
  /\ IF directory = Nowhere THEN UNCHANGED disk
     ELSE \E written \in SUBSET archive.files : WritesFiles(directory, written)
  /\ UNCHANGED archive

\* The command succeeded.
Restored(w, directory) ==
  /\ Restore(w, directory)
  /\ IF directory = Nowhere THEN archive.files = {} ELSE WritesFiles(directory, archive.files)

-----------------------------------------------------------------------------
(* What happens to the workspaces and the files *)

\* The user works on a workspace.
EditWorkspace(w, rows) ==
  /\ w \in There /\ cameFrom[w] = Nowhere
  /\ spaceOf' = [spaceOf EXCEPT ![w].rows = rows]
  /\ UNCHANGED <<disk, archive, drawnIds, cameFrom>>

\* set_workspace_base_directory.
SetBase(w, base) ==
  /\ w \in There /\ cameFrom[w] = Nowhere
  /\ spaceOf' = [spaceOf EXCEPT ![w].base = base]
  /\ UNCHANGED <<disk, archive, drawnIds, cameFrom>>

\* delete_workspace: never the last one.
DropWorkspace(w) ==
  /\ w \in There /\ There # {w}
  /\ spaceOf' = [spaceOf EXCEPT ![w] = Nowhere]
  /\ cameFrom' = [cameFrom EXCEPT ![w] = Nowhere]
  /\ UNCHANGED <<disk, archive, drawnIds>>

ChangeFile(place, hash) ==
  /\ disk' = [disk EXCEPT ![place] = hash]
  /\ UNCHANGED <<spaceOf, archive, drawnIds, cameFrom>>

BackupNext ==
  \/ \E w \in Titles :
       \/ DropWorkspace(w)
       \/ \E rows \in Samples : EditWorkspace(w, rows)
       \/ \E base \in Directories \union {Nowhere} :
            SetBase(w, base) \/ Restore(w, base) \/ \E files \in BOOLEAN : Export(w, files, base)
  \/ \E state \in {"changed", "fileMissing"} : DamageArchive(state)
  \/ \E place \in Directories \X FileNames, hash \in Hashes \union {Nowhere} : ChangeFile(place, hash)

BackupSpec == BackupInit /\ [][BackupNext]_backupVars

-----------------------------------------------------------------------------
(* Properties *)

\* Every variable has its type; an archive has no secret.
BackupTypeOK ==
  /\ \A w \in There :
       /\ IsRows(spaceOf[w].rows, {"plain", "secret", "excluded"})
       /\ spaceOf[w].base \in Directories \union {Nowhere}
  /\ disk \in [Directories \X Names -> Hashes \union {Nowhere}]
  /\ archive # Nowhere =>
       IsRows(archive.rows, {"plain", "excluded"}) /\ archive.files \subseteq Hashes
  /\ drawnIds \in 0..MaxRowId

\* What a row is, and what all are, in terms that do not change with the ids.
Described(rows, id) ==
  [kind |-> rows[id].kind, name |-> rows[id].name, value |-> rows[id].value,
   hash |-> rows[id].file.hash,
   of |-> [i \in DOMAIN rows[id].of |-> rows[rows[id].of[i]].name]]
DescribedRows(rows) == {Described(rows, id) : id \in DOMAIN rows}

\* Whatever happened to the archive in between: a workspace that a restoration
\* made has exactly the rows that were exported, and they refer to one another
\* as they did.
RestoredIsWhole ==
  \A w \in There : cameFrom[w] # Nowhere =>
    DescribedRows(spaceOf[w].rows) = DescribedRows(cameFrom[w])

\* A workspace refers to rows of its own only, and shares none with another.
RowsAreOwn ==
  \A w \in There :
    /\ Closed(spaceOf[w].rows)
    /\ \A v \in There \ {w} : DOMAIN spaceOf[w].rows \intersect DOMAIN spaceOf[v].rows = {}

\* After a restoration that succeeds, from an archive with body files of which
\* none was taken away, every file of a request and of a draft is in the
\* directory that was asked for, under the path that the restored row has.
FilesComeBack ==
  [][spaceOf' # spaceOf => \A w \in Titles, directory \in Directories :
       /\ Restored(w, directory)
       /\ archive.complete /\ archive.state = "whole"
       => \A body \in FilesIn(spaceOf'[w].rows) :
            /\ body.at = "relative"
            /\ disk'[PathOf(body, directory)] = body.hash]_backupVars

\* What a backup promises: it restores all of a workspace and nothing but it.
BackupCorrect ==
  /\ [](BackupTypeOK /\ RowsAreOwn /\ RestoredIsWhole)
  /\ FilesComeBack

=============================================================================
