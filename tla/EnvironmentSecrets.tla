------------------------- MODULE EnvironmentSecrets -------------------------
(***************************************************************************)
(* The secret variables of environments: the environment commands of       *)
(* RequestService (src-tauri/src/application/request/service/drafts.rs)    *)
(* and the deletion of a workspace (application/workspace.rs), over the    *)
(* tables of infrastructure/sqlite/repository and the two secret stores.   *)
(* Names, order and selection are left to WorkspaceData.                   *)
(*                                                                         *)
(* A secret is known by its reference.  The tables and the stores have no  *)
(* transaction in common, so a command is a job of several steps: it may   *)
(* fail at any of them, and the program may crash between any two.         *)
(***************************************************************************)
EXTENDS FiniteSets

CONSTANTS
  Spaces,     \* ids of workspaces
  Envs,       \* ids of environments
  Names,      \* names of variables
  Secrets,    \* references
  Plain,      \* a value that is not secret
  NoId

ASSUME NoIdAssumption ==
  /\ NoId \notin Spaces \union Envs \union Names \union Secrets \union {Plain}
  /\ Plain \notin Secrets

VARIABLES
  workspaces,     \* table workspaces
  home,           \* table environments: the workspace of each
  variables,      \* table environment_variables: a reference, Plain or nothing
  keyring,        \* references in the secret service
  sessionStore,   \* references in the session store
  owner,          \* workspace that each stored secret was stored for
  ring,           \* the secret service: "open", "locked" or "gone"
  job,            \* the command under way
  lost,           \* history: references that a restart or a half deleted workspace left without a secret
  calm            \* history: no store has failed, and no command was cut short

rowVars == <<workspaces, home, variables>>
vaultVars == <<keyring, sessionStore, owner>>
secretHistoryVars == <<lost, calm>>
secretVars == <<rowVars, vaultVars, ring, job, secretHistoryVars>>

VariableValues == Secrets \union {Plain, NoId}
VariableDrafts == [name : Names, kind : {"plain", "secret"}, previous : {NoId}]
            \union [name : Names, kind : {"kept"}, previous : Names \union {NoId}]

\* The command under way: nothing, an update, references still to be deleted,
\* or a workspace whose secrets are gone and whose row is not.
Nothing == [kind |-> "nothing"]
CleanupJob(refs) == IF refs = {} THEN Nothing ELSE [kind |-> "cleanup", refs |-> refs]
Deletion(w) == [kind |-> "deletion", space |-> w]
Update(e, rows, made) == [kind |-> "update", env |-> e, rows |-> rows, made |-> made]

LiveEnvs == {e \in Envs : home[e] # NoId}
EnvsOf(w) == {e \in Envs : home[e] = w}
Empty == [n \in Names |-> NoId]
RefsIn(rows) == {rows[n] : n \in Names} \intersect Secrets
EnvRefs(e) == RefsIn(variables[e])
ReferredSecrets == UNION {EnvRefs(e) : e \in LiveEnvs}
StoredSecrets == keyring \union sessionStore
JobSecrets == IF job.kind = "update" THEN job.made
              ELSE IF job.kind = "cleanup" THEN job.refs ELSE {}

\* Uuid::new_v4 draws an id that is in use nowhere.
FreeSecrets == Secrets \ (StoredSecrets \union ReferredSecrets \union JobSecrets)
FreeEnvs == {e \in Envs : home[e] = NoId}

\* WorkspaceRepository::initialize on an empty database.
SecretsInit ==
  \E w \in Spaces :
    /\ workspaces = {w}
    /\ home = [e \in Envs |-> NoId]
    /\ variables = [e \in Envs |-> Empty]
    /\ keyring = {} /\ sessionStore = {} /\ owner = [r \in Secrets |-> NoId]
    /\ ring = "open" /\ job = Nothing /\ lost = {} /\ calm = TRUE

Trouble == calm' = FALSE

-----------------------------------------------------------------------------
(* Workspaces and environments: one transaction each *)

\* A name that is invalid or taken, or a failing database, changes nothing.
AddWorkspace(w) ==
  /\ job = Nothing /\ w \notin workspaces
  /\ workspaces' = workspaces \union {w}
  /\ UNCHANGED <<home, variables, vaultVars, ring, job, secretHistoryVars>>

AddEnvironment(w, e) ==
  /\ job = Nothing /\ w \in workspaces /\ e \in FreeEnvs
  /\ home' = [home EXCEPT ![e] = w]
  /\ UNCHANGED <<workspaces, variables, vaultVars, ring, job, secretHistoryVars>>

-----------------------------------------------------------------------------
(* The secret stores *)

\* FallbackSecretStore::delete.  Nothing is deleted of a reference that the
\* locked secret service holds; a service that is gone counts as empty.
CanDelete(ref) == ~(ring = "locked" /\ ref \in keyring)
ForgetSecrets(refs) ==
  /\ keyring' = IF ring = "gone" THEN keyring ELSE keyring \ refs
  /\ sessionStore' = sessionStore \ refs
  /\ owner' = [r \in Secrets |->
                 IF r \in keyring' \union sessionStore' THEN owner[r] ELSE NoId]

\* cleanup_secret_references and the last loop of update_environment: one
\* reference; what cannot be deleted stays.
CleanUp(ref) ==
  /\ job.kind = "cleanup" /\ ref \in job.refs
  /\ job' = CleanupJob(job.refs \ {ref})
  /\ \/ CanDelete(ref) /\ ForgetSecrets({ref}) /\ UNCHANGED calm
     \/ UNCHANGED vaultVars /\ Trouble
  /\ UNCHANGED <<rowVars, ring, lost>>

-----------------------------------------------------------------------------
(* update_environment *)

BeginUpdate(e) ==
  /\ job = Nothing /\ home[e] # NoId
  /\ job' = Update(e, Empty, {})
  /\ UNCHANGED <<rowVars, vaultVars, ring, secretHistoryVars>>

\* An error return: the references made so far are deleted.
Abandon == job' = CleanupJob(job.made) /\ UNCHANGED vaultVars

Takes(name, value, made) ==
  job' = Update(job.env, [job.rows EXCEPT ![name] = value], job.made \union made)

\* A new value: FallbackSecretStore::put.
PutSecret(name, ref) ==
  /\ ref \in FreeSecrets
  /\ Takes(name, ref, {ref})
  /\ keyring' = IF ring = "open" THEN keyring \union {ref} ELSE keyring
  /\ sessionStore' = IF ring = "open" THEN sessionStore ELSE sessionStore \union {ref}
  /\ owner' = [owner EXCEPT ![ref] = home[job.env]]

\* What current_variables has under the previous name.
KeptValue(draft) ==
  IF draft.previous = NoId THEN NoId ELSE variables[job.env][draft.previous]

\* The draft is taken: its value is plain, stored or kept.
Accept(draft) ==
  /\ job.rows[draft.name] = NoId
  /\ \/ draft.kind = "plain" /\ Takes(draft.name, Plain, {}) /\ UNCHANGED vaultVars
     \/ draft.kind = "secret" /\ \E ref \in Secrets : PutSecret(draft.name, ref)
     \/ /\ draft.kind = "kept" /\ KeptValue(draft) \in Secrets
        /\ Takes(draft.name, KeptValue(draft), {}) /\ UNCHANGED vaultVars

\* Mutant: a refusal leaves the secrets made so far.
TakeDraftLeaving(draft) ==
  /\ job.kind = "update"
  /\ Accept(draft) \/ (job' = Nothing /\ UNCHANGED vaultVars)
  /\ UNCHANGED <<rowVars, ring, secretHistoryVars>>

\* The loop of update_environment.  A draft is refused if its name is invalid
\* or comes twice, its secret cannot be stored, or there is none to keep.
TakeDraft(draft) ==
  /\ job.kind = "update"
  /\ Accept(draft) \/ Abandon
  /\ UNCHANGED <<rowVars, ring, secretHistoryVars>>

\* The references that no variable of the environment has any more.
Dropped == EnvRefs(job.env) \ RefsIn(job.rows)

\* The transaction of the repository: the rows are replaced, or nothing is.
CommitUpdate ==
  /\ job.kind = "update"
  /\ \/ /\ variables' = [variables EXCEPT ![job.env] = job.rows]
        /\ job' = CleanupJob(Dropped)
        /\ UNCHANGED vaultVars
     \/ Abandon /\ UNCHANGED variables
  /\ UNCHANGED <<workspaces, home, ring, secretHistoryVars>>

-----------------------------------------------------------------------------
(* Deletion *)

\* The rows of environments and, by a foreign key, of their variables.
RemoveEnvs(gone) ==
  /\ home' = [e \in Envs |-> IF e \in gone THEN NoId ELSE home[e]]
  /\ variables' = [e \in Envs |-> IF e \in gone THEN Empty ELSE variables[e]]

\* delete_environment: the row first, then the secrets.
DeleteEnvironment(e) ==
  /\ job = Nothing /\ home[e] # NoId
  /\ RemoveEnvs({e})
  /\ job' = CleanupJob(EnvRefs(e))
  /\ UNCHANGED <<workspaces, vaultVars, ring, secretHistoryVars>>

\* delete_workspace: the secrets first.  The secret service may fail in the
\* middle, and refuses while it is locked and holds one of them.
OwnedBy(w) == {r \in Secrets : owner[r] = w}

DeleteWorkspaceSecrets(w) ==
  /\ job = Nothing /\ w \in workspaces /\ workspaces # {w}
  /\ \/ /\ ring = "locked" => keyring \intersect OwnedBy(w) = {}
        /\ ForgetSecrets(OwnedBy(w))
        /\ job' = Deletion(w)
        /\ UNCHANGED calm
     \/ /\ ring = "open"
        /\ \E some \in SUBSET (keyring \intersect OwnedBy(w)) : keyring' = keyring \ some
        /\ Trouble
        /\ UNCHANGED <<sessionStore, owner, job>>
  /\ lost' = ((lost \union UNION {EnvRefs(e) : e \in EnvsOf(w)}) \intersect ReferredSecrets)
               \ (keyring' \union sessionStore')
  /\ UNCHANGED <<rowVars, ring>>

\* The row and the rows that refer to it.
DeleteWorkspaceRow ==
  /\ job.kind = "deletion"
  /\ \/ /\ workspaces' = workspaces \ {job.space}
        /\ RemoveEnvs(EnvsOf(job.space))
     \/ UNCHANGED rowVars
  /\ job' = Nothing
  /\ UNCHANGED <<vaultVars, ring, secretHistoryVars>>

-----------------------------------------------------------------------------
\* The user locks or unlocks the key ring; the service stops or starts.
RingChanges ==
  /\ ring' \in {"open", "locked", "gone"} \ {ring}
  /\ IF ring' = "open" THEN UNCHANGED calm ELSE Trouble
  /\ UNCHANGED <<rowVars, vaultVars, job, lost>>

\* The program ends or crashes, and starts again.
SecretsRestart ==
  /\ sessionStore' = {}
  /\ lost' = (lost \union sessionStore) \intersect ReferredSecrets
  /\ job' = Nothing
  /\ IF job = Nothing THEN UNCHANGED calm ELSE Trouble
  /\ owner' = [r \in Secrets |-> IF r \in keyring THEN owner[r] ELSE NoId]
  /\ UNCHANGED <<rowVars, keyring, ring>>

SecretsNext ==
  \/ \E w \in Spaces :
       \/ AddWorkspace(w) \/ DeleteWorkspaceSecrets(w)
       \/ \E e \in Envs : AddEnvironment(w, e)
  \/ \E e \in Envs : BeginUpdate(e) \/ DeleteEnvironment(e)
  \/ \E draft \in VariableDrafts : TakeDraft(draft)
  \/ \E ref \in Secrets : CleanUp(ref)
  \/ CommitUpdate \/ DeleteWorkspaceRow \/ RingChanges \/ SecretsRestart

SecretsSpec == SecretsInit /\ [][SecretsNext]_secretVars

-----------------------------------------------------------------------------
(* Properties *)

Jobs ==
  {Nothing} \union [kind : {"cleanup"}, refs : SUBSET Secrets]
    \union [kind : {"deletion"}, space : Spaces]
    \union [kind : {"update"}, env : Envs, rows : [Names -> VariableValues],
            made : SUBSET Secrets]

\* Every variable has its type.
SecretsTypeOK ==
  /\ workspaces \subseteq Spaces
  /\ home \in [Envs -> Spaces \union {NoId}]
  /\ variables \in [Envs -> [Names -> VariableValues]]
  /\ keyring \subseteq Secrets /\ sessionStore \subseteq Secrets
  /\ owner \in [Secrets -> Spaces \union {NoId}]
  /\ ring \in {"open", "locked", "gone"}
  /\ job \in Jobs
  /\ lost \subseteq Secrets
  /\ calm \in BOOLEAN

\* A variable that refers to a secret can be resolved, whatever was renamed,
\* kept, refused or half cleaned up: the only secrets that are ever missing
\* went with a session, or with a workspace whose deletion stopped half way.
ReferencesResolve == ReferredSecrets \subseteq StoredSecrets \union lost

\* Between commands, and while no store has failed and no crash has cut a
\* command short, every stored secret is one that a variable refers to: the
\* refusals of a command leave nothing behind.
NoSecretIsLeft == calm /\ job = Nothing => StoredSecrets \subseteq ReferredSecrets

\* A stored secret that a variable refers to belongs to the workspace of that
\* variable, so the deletion of another cannot take it; and no two environments
\* share one, so a command on one of them cannot take it either.
SecretsAreNotShared ==
  \A e \in LiveEnvs : \A ref \in EnvRefs(e) :
    /\ ref \in StoredSecrets => owner[ref] = home[e]
    /\ \A f \in LiveEnvs \ {e} : ref \notin EnvRefs(f)

\* What secret variables promise: they can be read as long as they are there, they
\* are nobody else's, and they leave nothing behind.
SecretsCorrect ==
  /\ SecretsTypeOK
  /\ ReferencesResolve
  /\ NoSecretIsLeft
  /\ SecretsAreNotShared

=============================================================================
