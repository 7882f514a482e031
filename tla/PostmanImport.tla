---------------------------- MODULE PostmanImport ----------------------------
(***************************************************************************)
(* Importing Postman documents into a workspace, and importing them again: *)
(* PostmanImportService (src-tauri/src/application/postman_import.rs) over *)
(* the tables of infrastructure/sqlite/repository and the secret store.    *)
(*                                                                         *)
(* An import first writes the secrets of the document to the store and     *)
(* then all rows in one transaction, with a record of the root folder and  *)
(* the environment that it made.  An update of an import deletes what the  *)
(* record names and imports anew.  What a document says of requests is     *)
(* left to PostmanDocument.                                                *)
(***************************************************************************)
EXTENDS Integers, Sequences, FiniteSets

CONSTANTS
  Documents,         \* pairs of files: [source, env, protected]: _postman_id, the name of
                     \* the environment or Missing, the number of its secret variables
  ImportIds,         \* ids of root folders
  ImportEnvs,        \* ids of environments
  ImportSecrets,     \* references
  Missing,
  MaxImports         \* bound: import records

ASSUME DocumentsAssumption ==
  \A doc \in Documents : doc.protected \in Nat /\ doc.source # "user"
ASSUME ImportSecretsAssumption == IsFiniteSet(ImportSecrets)
ASSUME MissingAssumption ==
  Missing \notin ImportIds /\ Missing \notin ImportEnvs /\ Missing \notin Documents
ASSUME MaxImportsAssumption == MaxImports \in Nat

VARIABLES
  rootFolders,    \* table collections: what each root folder was made of
  environments,   \* table environments with their variables
  chosen,         \* table selected_environments
  imports,        \* table postman_import_records, in the order of imported_at
  stored,         \* references in the secret store
  wanted,         \* history: copies of each source that were asked for
  spilled,        \* history: references that a refused or an updated import left behind
  smooth          \* history: the store and the program have never failed

tableVars == <<rootFolders, environments, chosen, imports>>
importVars == <<tableVars, stored, wanted, spilled, smooth>>

Sources == {doc.source : doc \in Documents}
EnvNames == {doc.env : doc \in Documents} \ {Missing}
OwnFolder == [source |-> "user", env |-> Missing, protected |-> 0]
Environment == [name : EnvNames, refs : SUBSET ImportSecrets]
ASSUME RowsAssumption == Missing # OwnFolder /\ Missing \notin Environment
ImportRecord == [source : Sources, folder : ImportIds, env : ImportEnvs \union {Missing}]

FoldersThere == {f \in ImportIds : rootFolders[f] # Missing}
Present == {e \in ImportEnvs : environments[e] # Missing}
ReferredIn(envs) ==
  UNION {envs[e].refs : e \in {e \in ImportEnvs : envs[e] # Missing}}

\* CollectionId::new and EnvironmentId::new draw ids that were never in use, of
\* which any is as good as another.
Recorded == {imports[i].folder : i \in DOMAIN imports}
NewFolders == ImportIds \ (FoldersThere \union Recorded)
AnyOf(S) == {x \in S : x = CHOOSE y \in S : TRUE}
NewEnvs == ImportEnvs \ (Present \union {imports[i].env : i \in DOMAIN imports})

ImportInit ==
  /\ rootFolders = [f \in ImportIds |-> Missing]
  /\ environments = [e \in ImportEnvs |-> Missing] /\ chosen = Missing
  /\ imports = <<>> /\ stored = {}
  /\ wanted = [s \in Sources |-> 0] /\ spilled = {} /\ smooth = TRUE

-----------------------------------------------------------------------------
(* Steps of a command *)

\* convert_environment: every secret variable is written under a new reference.
Written(doc, made) == stored' = stored \union made

\* References for the secrets of a document, which no one has.
NewSecrets(doc) ==
  AnyOf({made \in SUBSET (ImportSecrets \ (stored \union ReferredIn(environments))) :
           Cardinality(made) = IF doc.env = Missing THEN 0 ELSE doc.protected})

\* Mutant: the latest import of any document.
LatestOfAny(source) == Len(imports)

\* find_latest_postman_import.
Latest(source) ==
  LET found == {i \in DOMAIN imports : imports[i].source = source}
  IN  IF found = {} THEN 0 ELSE CHOOSE i \in found : \A j \in found : j <= i

\* insert_converted_postman_import, into what an update has left.
Inserted(doc, made, folders, envs) ==
  \E f \in AnyOf(NewFolders), e \in IF doc.env = Missing THEN {Missing} ELSE AnyOf(NewEnvs) :
    /\ rootFolders' = [folders EXCEPT ![f] = doc]
    /\ environments' = [x \in ImportEnvs |-> IF x = e THEN [name |-> doc.env, refs |-> made] ELSE envs[x]]
    /\ imports' = Append(imports, [source |-> doc.source, folder |-> f, env |-> e])

\* environments has UNIQUE (workspace_id, name).
NameIsTaken(doc, envs) ==
  \E e \in ImportEnvs : envs[e] # Missing /\ envs[e].name = doc.env

\* The transaction fails: nothing is written, and the secrets are deleted that
\* were made for it, as far as the store lets them.
RolledBack(made) ==
  \/ stored' = stored /\ UNCHANGED <<spilled, smooth>>
  \/ /\ smooth' = FALSE /\ UNCHANGED spilled
     /\ \E stay \in SUBSET made : stay # {} /\ stored' = stored \union stay

TablesStay == UNCHANGED <<tableVars, wanted>>

\* A secret cannot be written: those before it stay.
WriteFails(doc) ==
  \E made \in NewSecrets(doc) : \E before \in SUBSET made :
    /\ before # made
    /\ stored' = stored \union before /\ smooth' = FALSE
    /\ TablesStay /\ UNCHANGED spilled

-----------------------------------------------------------------------------
(* Commands *)

\* import, and reimport with the decision Duplicate.
Import(doc) ==
  /\ Len(imports) < MaxImports
  /\ \/ WriteFails(doc)
     \/ \E made \in NewSecrets(doc) :
          \/ /\ ~NameIsTaken(doc, environments)
             /\ Written(doc, made)
             /\ Inserted(doc, made, rootFolders, environments)
             /\ wanted' = [wanted EXCEPT ![doc.source] = @ + 1]
             /\ UNCHANGED <<chosen, spilled, smooth>>
          \/ RolledBack(made) /\ TablesStay

\* The selection goes with the environment it names.
Deselected(prior) == chosen' = IF chosen = prior.env THEN Missing ELSE chosen

\* update_postman_import: what the record names is deleted, if it is still
\* there, with all that the user has put into the folder.
Replaced(doc, made, prior) ==
  LET folders == [rootFolders EXCEPT ![prior.folder] = Missing]
      envs == [e \in ImportEnvs |-> IF e = prior.env THEN Missing ELSE environments[e]]
  IN  /\ ~NameIsTaken(doc, envs)
      /\ Written(doc, made)
      /\ Inserted(doc, made, folders, envs)
      /\ Deselected(prior)
      /\ spilled' = spilled \union (ReferredIn(environments) \ ReferredIn(envs))

\* reimport with the decision Update.  Without an earlier import it is refused,
\* after the secrets have been written.
Update(doc) ==
  /\ Len(imports) < MaxImports
  /\ \/ WriteFails(doc)
     \/ \E made \in NewSecrets(doc) :
          \/ /\ Latest(doc.source) = 0
             /\ stored' = stored \union made /\ spilled' = spilled \union made
             /\ TablesStay /\ UNCHANGED smooth
          \/ /\ Latest(doc.source) # 0
             /\ Replaced(doc, made, imports[Latest(doc.source)])
             /\ IF rootFolders[imports[Latest(doc.source)].folder] = Missing
                THEN wanted' = [wanted EXCEPT ![doc.source] = @ + 1] ELSE UNCHANGED wanted
             /\ UNCHANGED smooth
          \/ Latest(doc.source) # 0 /\ RolledBack(made) /\ TablesStay

\* The program ends between the writing of the secrets and the commit.
Interrupted(doc) ==
  /\ \E made \in NewSecrets(doc) : made # {} /\ stored' = stored \union made
  /\ smooth' = FALSE
  /\ UNCHANGED <<tableVars, wanted, spilled>>

-----------------------------------------------------------------------------
(* What the user does to the same tables *)

MakeFolder(f) ==
  /\ f \in AnyOf(NewFolders)
  /\ rootFolders' = [rootFolders EXCEPT ![f] = OwnFolder]
  /\ UNCHANGED <<environments, chosen, imports, stored, wanted, spilled, smooth>>

\* delete_collection_folder.
DropFolder(f) ==
  /\ f \in FoldersThere
  /\ rootFolders' = [rootFolders EXCEPT ![f] = Missing]
  /\ wanted' = IF rootFolders[f] = OwnFolder THEN wanted
               ELSE [wanted EXCEPT ![rootFolders[f].source] = @ - 1]
  /\ UNCHANGED <<environments, chosen, imports, stored, spilled, smooth>>

\* delete_environment, with its secrets (EnvironmentSecrets has its failures).
DropEnvironment(e) ==
  /\ e \in Present
  /\ environments' = [environments EXCEPT ![e] = Missing]
  /\ stored' = stored \ environments[e].refs
  /\ chosen' = IF chosen = e THEN Missing ELSE chosen
  /\ UNCHANGED <<rootFolders, imports, wanted, spilled, smooth>>

Choose(e) ==
  /\ e \in Present
  /\ chosen' = e
  /\ UNCHANGED <<rootFolders, environments, imports, stored, wanted, spilled, smooth>>

ImportNext ==
  \/ \E doc \in Documents : Import(doc) \/ Update(doc) \/ Interrupted(doc)
  \/ \E f \in ImportIds : MakeFolder(f) \/ DropFolder(f)
  \/ \E e \in ImportEnvs : DropEnvironment(e) \/ Choose(e)

ImportSpec == ImportInit /\ [][ImportNext]_importVars

-----------------------------------------------------------------------------
(* Properties *)

\* Every variable has its type.
ImportTypeOK ==
  /\ rootFolders \in [ImportIds -> Documents \union {OwnFolder, Missing}]
  /\ environments \in [ImportEnvs -> Environment \union {Missing}]
  /\ chosen \in ImportEnvs \union {Missing}
  /\ imports \in Seq(ImportRecord)
  /\ stored \subseteq ImportSecrets /\ spilled \subseteq ImportSecrets
  /\ wanted \in [Sources -> Nat] /\ smooth \in BOOLEAN

\* A document is there as often as it was asked for: every update takes away
\* exactly one copy, the one the latest import of its source made, also after
\* duplicates, deletions by hand and updates that were refused.
OneCopyEach ==
  \A s \in Sources : Cardinality({f \in FoldersThere : rootFolders[f].source = s}) = wanted[s]

\* Every secret variable that an import wrote can be resolved; the selection
\* is of an environment that is there.
ImportedVariablesResolve ==
  /\ ReferredIn(environments) \subseteq stored
  /\ chosen # Missing => chosen \in Present

\* While nothing fails, the only secrets without a variable are those of the
\* environments that updates replaced and of updates without an earlier import.
OnlySpilledSecretsStay == smooth => stored \subseteq ReferredIn(environments) \union spilled

\* An update takes nothing that the user made, nothing of other sources, and of
\* its own source one copy only.  What the user put into that copy goes with it.
UpdatesSpareTheRest ==
  [][rootFolders' # rootFolders => \A doc \in Documents : Update(doc) =>
       /\ \A f \in FoldersThere :
            rootFolders'[f] # rootFolders[f] => rootFolders[f].source = doc.source
       /\ Cardinality({f \in FoldersThere : rootFolders'[f] # rootFolders[f]}) <= 1
       /\ \A e \in Present : environments'[e] # environments[e] =>
            \E i \in DOMAIN imports : imports[i].env = e /\ imports[i].source = doc.source]_importVars

\* What importing promises: every document is there as often as it was asked for,
\* its secrets can be read, and nothing else is touched.
ImportCorrect ==
  /\ [](ImportTypeOK /\ OneCopyEach /\ ImportedVariablesResolve /\ OnlySpilledSecretsStay)
  /\ UpdatesSpareTheRest

=============================================================================
