--------------------------- MODULE Secrets_proofs ---------------------------
(***************************************************************************)
(* Proofs about the two components that keep secrets: the variables of     *)
(* environments (EnvironmentSecrets), for any sets of workspaces,          *)
(* environments, names and references, and the cookies of a workspace      *)
(* (CookieJar), for any scopes, values, faults and bounds.                 *)
(*                                                                         *)
(* Environments.  The tables and the two secret stores share no            *)
(* transaction, so what they promise together holds only because of what   *)
(* the command under way still has in hand.  The inductive invariant       *)
(* SecretsInv says what that is: the secrets that an update has made are   *)
(* stored and referred to by nothing but its own rows, a cleanup holds no  *)
(* reference that a variable has, and once the secrets of a workspace are  *)
(* deleted none is left of it.                                             *)
(*                                                                         *)
(* Cookies.  A command is one step whose outcomes are sets of jars, so the *)
(* invariant has to hold inside it too: SoundJar of every jar that a step  *)
(* of the command reaches.  Reached adds that a row has either a reference *)
(* that is new or the one it had, with the secret as it was, and Shrinks   *)
(* is what a purge, a cleanup and a deletion do.  What the headers of a    *)
(* response leave follows by a least counterexample from what one leaves   *)
(* (StoresLemma, HeaderStep); Captured recurses over the headers, and      *)
(* FoldExists shows that the function it names exists.                     *)
(***************************************************************************)
EXTENDS EnvironmentSecrets, CookieJar, FiniteSetTheorems, WellFoundedInduction, TLAPS

-----------------------------------------------------------------------------
(* The variables of environments *)


\* An environment that does not exist has no variables.
FreeIsEmpty == \A e \in Envs : home[e] = NoId => variables[e] = Empty

Resolves ==
  \A e \in Envs : \A r \in EnvRefs(e) : r \in StoredSecrets \/ r \in lost

Owned == \A e \in Envs : \A r \in EnvRefs(e) : r \in StoredSecrets => owner[r] = home[e]

Unshared ==
  \A e, f \in Envs : e # f => \A r \in EnvRefs(e) : r \notin EnvRefs(f)

NoVariableHas(r) == \A e \in Envs : r \notin EnvRefs(e)

\* While no store has failed, a secret that no variable has is in the hands of
\* the command under way.
Accounted ==
  calm => /\ ring = "open"
          /\ \A r \in StoredSecrets : NoVariableHas(r) => r \in JobSecrets

UpdateSound ==
  job.kind = "update" =>
    /\ home[job.env] # NoId
    /\ job.made \subseteq RefsIn(job.rows)
    /\ RefsIn(job.rows) \subseteq job.made \union EnvRefs(job.env)
    /\ \A r \in job.made : /\ r \in StoredSecrets
                           /\ owner[r] = home[job.env]
                           /\ NoVariableHas(r)

CleanupSound == job.kind = "cleanup" => \A r \in job.refs : NoVariableHas(r)

DeletionSound ==
  calm /\ job.kind = "deletion" => \A r \in StoredSecrets : owner[r] # job.space

SecretsInv ==
  /\ SecretsTypeOK
  /\ FreeIsEmpty /\ Resolves /\ Owned /\ Unshared
  /\ Accounted
  /\ UpdateSound /\ CleanupSound /\ DeletionSound

-----------------------------------------------------------------------------
(* References of variables *)

\* A reference is one of a set of rows if some name has it.
LEMMA RefIsOfAName ==
  \A rows, r : r \in RefsIn(rows) <=> r \in Secrets /\ \E n \in Names : rows[n] = r
  BY DEF RefsIn

\* Rows that have not changed have the same references.
LEMMA SameRefs ==
  ASSUME variables' = variables
  PROVE  /\ \A e : EnvRefs(e)' = EnvRefs(e)
         /\ \A r : NoVariableHas(r)' = NoVariableHas(r)
  BY DEF EnvRefs, RefsIn, NoVariableHas

\* Empty rows have no reference.
LEMMA EmptyHasNoRefs == RefsIn(Empty) = {}
  BY NoIdAssumption DEF RefsIn, Empty

\* A row that is added adds its reference and nothing else.
LEMMA AddingARow ==
  ASSUME NEW rows \in [Names -> VariableValues], NEW n \in Names,
         NEW v \in VariableValues, rows[n] = NoId
  PROVE  /\ [rows EXCEPT ![n] = v] \in [Names -> VariableValues]
         /\ \A r : r \in RefsIn([rows EXCEPT ![n] = v])
                     <=> r \in RefsIn(rows) \/ (r = v /\ r \in Secrets)
  <1> DEFINE new == [rows EXCEPT ![n] = v]
  <1>1. /\ new \in [Names -> VariableValues]
        /\ new[n] = v
        /\ \A m \in Names \ {n} : new[m] = rows[m]
    OBVIOUS
  <1>2. \A r \in Secrets : rows[n] # r
    BY NoIdAssumption
  <1> HIDE DEF new
  <1>3. \A r : r \in RefsIn(new) <=> r \in RefsIn(rows) \/ (r = v /\ r \in Secrets)
    BY <1>1, <1>2, RefIsOfAName
  <1> QED
    BY <1>1, <1>3 DEF new

\* What the referred secrets are, environment by environment: one that does not
\* exist has none.
LEMMA ReferredByAnEnv ==
  ASSUME FreeIsEmpty
  PROVE  /\ \A r : r \in ReferredSecrets <=> \E e \in Envs : r \in EnvRefs(e)
         /\ \A e \in Envs : \A r \in EnvRefs(e) : home[e] # NoId
  BY EmptyHasNoRefs DEF FreeIsEmpty, ReferredSecrets, LiveEnvs, EnvRefs

\* The job that deletes references deletes those.
LEMMA CleanupIs ==
  ASSUME NEW refs \in SUBSET Secrets
  PROVE  /\ CleanupJob(refs) \in Jobs
         /\ CleanupJob(refs).kind \in {"nothing", "cleanup"}
         /\ CleanupJob(refs).kind = "cleanup" => CleanupJob(refs).refs = refs
         /\ CleanupJob(refs).kind = "nothing" => refs = {}
  BY DEF CleanupJob, Jobs, Nothing

\* What kind of job there can be.
LEMMA JobKinds ==
  ASSUME SecretsTypeOK
  PROVE  /\ job.kind \in {"nothing", "cleanup", "deletion", "update"}
         /\ job.kind = "cleanup" => job.refs \in SUBSET Secrets
         /\ job.kind = "deletion" => job.space \in Spaces
         /\ job.kind = "update" => /\ job.env \in Envs
                                   /\ job.rows \in [Names -> VariableValues]
                                   /\ job.made \in SUBSET Secrets
         /\ job.kind = "nothing" <=> job = Nothing
  BY DEF SecretsTypeOK, Jobs, Nothing

-----------------------------------------------------------------------------
(* The invariant *)

\* It gives what the secrets promise.
LEMMA InvGivesSecrets == SecretsInv => SecretsCorrect
  <1> SUFFICES ASSUME SecretsInv PROVE SecretsCorrect
    OBVIOUS
  <1> USE DEF SecretsInv
  <1>1. ReferencesResolve
    BY ReferredByAnEnv DEF ReferencesResolve, Resolves
  <1>2. NoSecretIsLeft
    BY ReferredByAnEnv DEF NoSecretIsLeft, Accounted, NoVariableHas, JobSecrets, Nothing
  <1>3. SecretsAreNotShared
    BY DEF SecretsAreNotShared, LiveEnvs, Owned, Unshared
  <1> QED
    BY <1>1, <1>2, <1>3 DEF SecretsCorrect

\* It holds on an empty database.
LEMMA SecretsInitInv == SecretsInit => SecretsInv
  <1> SUFFICES ASSUME SecretsInit PROVE SecretsInv
    OBVIOUS
  <1>1. /\ workspaces \subseteq Spaces
        /\ home = [e \in Envs |-> NoId] /\ variables = [e \in Envs |-> Empty]
        /\ keyring = {} /\ sessionStore = {} /\ owner = [r \in Secrets |-> NoId]
        /\ ring = "open" /\ job = Nothing /\ lost = {} /\ calm = TRUE
    BY DEF SecretsInit
  <1>2. Empty \in [Names -> VariableValues]
    BY DEF Empty, VariableValues
  <1>3. SecretsTypeOK
    BY <1>1, <1>2 DEF SecretsTypeOK, Jobs
  <1>4. \A e \in Envs : EnvRefs(e) = {}
    BY <1>1, EmptyHasNoRefs DEF EnvRefs
  <1>5. StoredSecrets = {}
    BY <1>1 DEF StoredSecrets
  <1>6. FreeIsEmpty /\ Resolves /\ Owned /\ Unshared /\ Accounted
    BY <1>1, <1>4, <1>5 DEF FreeIsEmpty, Resolves, Owned, Unshared, Accounted
  <1>7. UpdateSound /\ CleanupSound /\ DeletionSound
    BY <1>1 DEF UpdateSound, CleanupSound, DeletionSound, Nothing
  <1> QED
    BY <1>3, <1>6, <1>7 DEF SecretsInv

\* Nothing that the invariant speaks of changes.
LEMMA SecretsStutter ==
  ASSUME SecretsInv, UNCHANGED secretVars
  PROVE  SecretsInv'
  BY SameRefs DEF SecretsInv, secretVars, rowVars, vaultVars, secretHistoryVars,
     SecretsTypeOK, FreeIsEmpty, Resolves, Owned, Unshared, Accounted, UpdateSound,
     CleanupSound, DeletionSound, StoredSecrets, JobSecrets, NoVariableHas, EnvRefs

-----------------------------------------------------------------------------
(* Steps that leave the stores alone *)

\* A new workspace has no secret yet.
LEMMA AddWorkspaceStep ==
  ASSUME SecretsInv, NEW w \in Spaces, AddWorkspace(w)
  PROVE  SecretsInv'
  <1> USE DEF AddWorkspace, vaultVars, secretHistoryVars
  <1>1. SecretsTypeOK'
    BY DEF SecretsInv, SecretsTypeOK
  <1>2. FreeIsEmpty' /\ Resolves' /\ Owned' /\ Unshared'
    BY SameRefs DEF SecretsInv, FreeIsEmpty, Resolves, Owned, Unshared, StoredSecrets
  <1>3. Accounted'
    BY SameRefs DEF SecretsInv, Accounted, StoredSecrets, JobSecrets
  <1>4. UpdateSound' /\ CleanupSound' /\ DeletionSound'
    BY DEF UpdateSound, CleanupSound, DeletionSound, Nothing
  <1> QED
    BY <1>1, <1>2, <1>3, <1>4 DEF SecretsInv

\* A new environment has no variables.
LEMMA AddEnvironmentStep ==
  ASSUME SecretsInv, NEW w \in Spaces, NEW e \in Envs, AddEnvironment(w, e)
  PROVE  SecretsInv'
  <1> USE DEF AddEnvironment, vaultVars, secretHistoryVars
  <1>1. SecretsTypeOK'
    BY DEF SecretsInv, SecretsTypeOK
  <1>2. EnvRefs(e) = {} /\ \A f \in Envs \ {e} : home'[f] = home[f]
    BY EmptyHasNoRefs DEF SecretsInv, SecretsTypeOK, FreeIsEmpty, FreeEnvs, EnvRefs
  <1>3. FreeIsEmpty'
    BY <1>2, NoIdAssumption DEF SecretsInv, FreeIsEmpty, SecretsTypeOK
  <1>4. Resolves' /\ Owned' /\ Unshared'
    BY <1>2, SameRefs DEF SecretsInv, Resolves, Owned, Unshared, StoredSecrets
  <1>5. Accounted'
    BY SameRefs DEF SecretsInv, Accounted, StoredSecrets, JobSecrets
  <1>6. UpdateSound' /\ CleanupSound' /\ DeletionSound'
    BY DEF UpdateSound, CleanupSound, DeletionSound, Nothing
  <1> QED
    BY <1>1, <1>3, <1>4, <1>5, <1>6 DEF SecretsInv

\* An update begins with no rows and nothing made.
LEMMA BeginUpdateStep ==
  ASSUME SecretsInv, NEW e \in Envs, BeginUpdate(e)
  PROVE  SecretsInv'
  <1> USE DEF BeginUpdate, rowVars, vaultVars, secretHistoryVars
  <1>1. /\ job' \in Jobs /\ job'.kind = "update" /\ job'.env = e
        /\ job'.rows = Empty /\ job'.made = {}
    BY DEF Update, Jobs, Empty, VariableValues
  <1>2. SecretsTypeOK'
    BY <1>1 DEF SecretsInv, SecretsTypeOK
  <1>3. FreeIsEmpty' /\ Resolves' /\ Owned' /\ Unshared'
    BY SameRefs DEF SecretsInv, FreeIsEmpty, Resolves, Owned, Unshared, StoredSecrets
  <1>4. Accounted'
    BY <1>1, SameRefs DEF SecretsInv, Accounted, StoredSecrets, JobSecrets, Nothing
  <1>5. UpdateSound'
    BY <1>1, EmptyHasNoRefs DEF UpdateSound
  <1>6. CleanupSound' /\ DeletionSound'
    BY <1>1 DEF CleanupSound, DeletionSound
  <1> QED
    BY <1>2, <1>3, <1>4, <1>5, <1>6 DEF SecretsInv

\* A change of the ring that is not to open is trouble; to open it, the ring was
\* not open, and there was trouble before.
LEMMA RingChangesStep ==
  ASSUME SecretsInv, RingChanges
  PROVE  SecretsInv'
  <1> USE DEF RingChanges, rowVars, vaultVars, Trouble
  <1>1. SecretsTypeOK'
    BY DEF SecretsInv, SecretsTypeOK
  <1>2. calm' = FALSE
    BY DEF SecretsInv, SecretsTypeOK, Accounted
  <1>3. FreeIsEmpty' /\ Resolves' /\ Owned' /\ Unshared'
    BY SameRefs DEF SecretsInv, FreeIsEmpty, Resolves, Owned, Unshared, StoredSecrets
  <1>4. UpdateSound' /\ CleanupSound'
    BY SameRefs DEF SecretsInv, UpdateSound, CleanupSound, StoredSecrets, EnvRefs, RefsIn
  <1> QED
    BY <1>1, <1>2, <1>3, <1>4 DEF SecretsInv, Accounted, DeletionSound

-----------------------------------------------------------------------------
(* Steps that delete secrets *)

\* What the stores hold after secrets have been deleted.
LEMMA Forgetting ==
  ASSUME SecretsTypeOK, NEW refs \in SUBSET Secrets, ForgetSecrets(refs)
  PROVE  /\ keyring' \subseteq Secrets /\ sessionStore' \subseteq Secrets
         /\ owner' \in [Secrets -> Spaces \union {NoId}]
         /\ StoredSecrets' \subseteq StoredSecrets
         /\ StoredSecrets \ refs \subseteq StoredSecrets'
         /\ \A r \in StoredSecrets' : owner'[r] = owner[r]
         /\ ring = "open" => StoredSecrets' = StoredSecrets \ refs
  BY DEF SecretsTypeOK, ForgetSecrets, StoredSecrets

\* A cleanup deletes what no variable has.
LEMMA CleanUpStep ==
  ASSUME SecretsInv, NEW ref \in Secrets, CleanUp(ref)
  PROVE  SecretsInv'
  <1> USE DEF CleanUp, rowVars, vaultVars, Trouble
  <1>1. job.kind = "cleanup" /\ ref \in job.refs /\ job.refs \in SUBSET Secrets
    BY JobKinds DEF SecretsInv
  <1>2. /\ job' \in Jobs /\ job'.kind \in {"nothing", "cleanup"}
        /\ job'.kind = "cleanup" => job'.refs = job.refs \ {ref}
        /\ job'.kind = "nothing" => job.refs \ {ref} = {}
    BY <1>1, CleanupIs
  <1>3. JobSecrets' = JobSecrets \ {ref}
    BY <1>1, <1>2 DEF JobSecrets
  <1>4. /\ keyring' \subseteq Secrets /\ sessionStore' \subseteq Secrets
        /\ owner' \in [Secrets -> Spaces \union {NoId}]
        /\ StoredSecrets' \subseteq StoredSecrets
        /\ StoredSecrets \ {ref} \subseteq StoredSecrets'
        /\ \A r \in StoredSecrets' : owner'[r] = owner[r]
    BY Forgetting DEF SecretsInv, SecretsTypeOK, StoredSecrets
  <1>5. calm' => calm /\ (ring = "open" => StoredSecrets' = StoredSecrets \ {ref})
    BY Forgetting DEF SecretsInv
  <1>6. SecretsTypeOK'
    BY <1>2, <1>4 DEF SecretsInv, SecretsTypeOK
  <1>7. NoVariableHas(ref)
    BY <1>1 DEF SecretsInv, CleanupSound
  <1>8. FreeIsEmpty' /\ Resolves' /\ Owned' /\ Unshared'
    <2>1. FreeIsEmpty' /\ Unshared'
      BY SameRefs DEF SecretsInv, FreeIsEmpty, Unshared
    <2>2. Resolves'
      BY <1>4, <1>7, SameRefs DEF SecretsInv, Resolves, NoVariableHas
    <2>3. Owned'
      BY <1>4, SameRefs DEF SecretsInv, Owned
    <2> QED
      BY <2>1, <2>2, <2>3
  <1>9. Accounted'
    BY <1>3, <1>5, SameRefs DEF SecretsInv, Accounted
  <1>10. CleanupSound'
    BY <1>1, <1>2, SameRefs DEF SecretsInv, CleanupSound
  <1>11. UpdateSound' /\ DeletionSound'
    BY <1>2 DEF UpdateSound, DeletionSound
  <1> QED
    BY <1>6, <1>8, <1>9, <1>10, <1>11 DEF SecretsInv

\* The secrets of a workspace are deleted: what a variable loses, it had in that
\* workspace, and it is on record as lost.
LEMMA DeleteWorkspaceSecretsStep ==
  ASSUME SecretsInv, NEW w \in Spaces, DeleteWorkspaceSecrets(w)
  PROVE  SecretsInv'
  <1> USE DEF DeleteWorkspaceSecrets, rowVars, Trouble
  <1>1. job = Nothing /\ JobSecrets = {} /\ w # NoId
    BY NoIdAssumption DEF JobSecrets, Nothing
  <1>2. OwnedBy(w) \in SUBSET Secrets
    BY DEF OwnedBy
  <1>3. /\ keyring' \subseteq Secrets /\ sessionStore' \subseteq Secrets
        /\ owner' \in [Secrets -> Spaces \union {NoId}]
        /\ StoredSecrets' \subseteq StoredSecrets
        /\ StoredSecrets \ OwnedBy(w) \subseteq StoredSecrets'
        /\ \A r \in StoredSecrets' : owner'[r] = owner[r]
    <2>1. CASE ForgetSecrets(OwnedBy(w))
      BY <1>2, <2>1, Forgetting DEF SecretsInv
    <2>2. CASE /\ \E some \in SUBSET (keyring \intersect OwnedBy(w)) : keyring' = keyring \ some
               /\ UNCHANGED <<sessionStore, owner, job>>
      BY <2>2 DEF SecretsInv, SecretsTypeOK, StoredSecrets
    <2> QED
      BY <2>1, <2>2
  <1>4. /\ job' \in Jobs
        /\ job'.kind \in {"nothing", "deletion"}
        /\ job'.kind = "deletion" => job'.space = w
        /\ JobSecrets' = {}
    BY <1>1 DEF Deletion, Jobs, Nothing, JobSecrets
  <1>5. calm' => /\ calm /\ job' = Deletion(w)
                 /\ ring = "open" => StoredSecrets' = StoredSecrets \ OwnedBy(w)
    BY <1>2, Forgetting DEF SecretsInv
  <1>6. SecretsTypeOK'
    <2>1. lost' \subseteq Secrets
      BY DEF ReferredSecrets, EnvRefs, RefsIn
    <2> QED
      BY <1>3, <1>4, <2>1 DEF SecretsInv, SecretsTypeOK
  <1>7. FreeIsEmpty' /\ Unshared'
    BY SameRefs DEF SecretsInv, FreeIsEmpty, Unshared
  <1>8. Owned'
    BY <1>3, SameRefs DEF SecretsInv, Owned
  <1>9. Resolves'
    <2> SUFFICES ASSUME NEW e \in Envs, NEW r \in EnvRefs(e), r \notin StoredSecrets'
                 PROVE  r \in lost'
      BY SameRefs DEF Resolves
    <2>1. r \in ReferredSecrets /\ r \in Secrets
      BY ReferredByAnEnv DEF SecretsInv, EnvRefs, RefsIn
    <2>2. r \notin keyring' \union sessionStore'
      BY DEF StoredSecrets
    <2>3. CASE r \in StoredSecrets
      <3>1. r \in OwnedBy(w) /\ owner[r] = home[e]
        BY <1>3, <2>3 DEF SecretsInv, Owned
      <3>2. e \in EnvsOf(w)
        BY <3>1 DEF OwnedBy, EnvsOf
      <3> QED
        BY <2>1, <2>2, <3>2
    <2>4. CASE r \in lost
      BY <2>1, <2>2, <2>4
    <2> QED
      BY <2>3, <2>4 DEF SecretsInv, Resolves
  <1>10. Accounted'
    BY <1>1, <1>3, <1>5, SameRefs DEF SecretsInv, Accounted
  <1>11. DeletionSound'
    <2> SUFFICES ASSUME calm', job'.kind = "deletion", NEW r \in StoredSecrets'
                 PROVE  owner'[r] # w
      BY <1>4 DEF DeletionSound
    <2>1. StoredSecrets' = StoredSecrets \ OwnedBy(w)
      BY <1>5 DEF SecretsInv, Accounted
    <2>2. r \in Secrets /\ r \notin OwnedBy(w)
      BY <2>1, <1>3 DEF StoredSecrets
    <2> QED
      BY <1>3, <2>2 DEF OwnedBy
  <1>12. UpdateSound' /\ CleanupSound'
    BY <1>4 DEF UpdateSound, CleanupSound
  <1> QED
    BY <1>6, <1>7, <1>8, <1>9, <1>10, <1>11, <1>12 DEF SecretsInv

-----------------------------------------------------------------------------
(* The steps of an update *)

\* An error return hands what was made to a cleanup.
LEMMA AbandonStep ==
  ASSUME SecretsInv, job.kind = "update", Abandon,
         UNCHANGED <<rowVars, ring, secretHistoryVars>>
  PROVE  SecretsInv'
  <1> USE DEF Abandon, rowVars, vaultVars, secretHistoryVars
  <1>1. job.made \in SUBSET Secrets
    BY JobKinds DEF SecretsInv
  <1>2. /\ job' \in Jobs /\ job'.kind \in {"nothing", "cleanup"}
        /\ job'.kind = "cleanup" => job'.refs = job.made
        /\ job'.kind = "nothing" => job.made = {}
    BY <1>1, CleanupIs
  <1>3. JobSecrets' = JobSecrets
    BY <1>2 DEF JobSecrets
  <1>4. SecretsTypeOK'
    BY <1>2 DEF SecretsInv, SecretsTypeOK
  <1>5. FreeIsEmpty' /\ Resolves' /\ Owned' /\ Unshared'
    BY SameRefs DEF SecretsInv, FreeIsEmpty, Resolves, Owned, Unshared, StoredSecrets
  <1>6. Accounted'
    BY <1>3, SameRefs DEF SecretsInv, Accounted, StoredSecrets
  <1>7. CleanupSound'
    BY <1>2, SameRefs DEF SecretsInv, CleanupSound, UpdateSound
  <1>8. UpdateSound' /\ DeletionSound'
    BY <1>2 DEF UpdateSound, DeletionSound
  <1> QED
    BY <1>4, <1>5, <1>6, <1>7, <1>8 DEF SecretsInv

\* A row is added whose reference is kept, or has been made just now.
LEMMA TakesStep ==
  ASSUME SecretsInv, job.kind = "update",
         NEW name \in Names, NEW value \in VariableValues, NEW made \in SUBSET Secrets,
         job.rows[name] = NoId, Takes(name, value, made)
  PROVE  /\ job' \in Jobs /\ job'.kind = "update" /\ job'.env = job.env
         /\ job'.made = job.made \union made
         /\ \A r : r \in RefsIn(job'.rows)
                     <=> r \in RefsIn(job.rows) \/ (r = value /\ r \in Secrets)
  <1>1. /\ job.env \in Envs /\ job.made \in SUBSET Secrets
        /\ job.rows \in [Names -> VariableValues]
    BY JobKinds DEF SecretsInv
  <1>2. /\ job'.kind = "update" /\ job'.env = job.env
        /\ job'.rows = [job.rows EXCEPT ![name] = value]
        /\ job'.made = job.made \union made
        /\ job' = Update(job'.env, job'.rows, job'.made)
    BY DEF Takes, Update
  <1>3. job'.rows \in [Names -> VariableValues]
    BY <1>1, <1>2, AddingARow
  <1>4. job' \in Jobs
    BY <1>1, <1>2, <1>3 DEF Update, Jobs
  <1>5. \A r : r \in RefsIn(job'.rows)
                <=> r \in RefsIn(job.rows) \/ (r = value /\ r \in Secrets)
    BY <1>1, <1>2, AddingARow
  <1> QED
    BY <1>2, <1>4, <1>5

\* A plain value, or a reference that the environment has already.
LEMMA KeepingStep ==
  ASSUME SecretsInv, job.kind = "update", NEW name \in Names, NEW value \in VariableValues,
         job.rows[name] = NoId, Takes(name, value, {}),
         value \in Secrets => value \in EnvRefs(job.env),
         UNCHANGED <<rowVars, vaultVars, ring, secretHistoryVars>>
  PROVE  SecretsInv'
  <1> USE DEF rowVars, vaultVars, secretHistoryVars
  <1>1. /\ job' \in Jobs /\ job'.kind = "update" /\ job'.env = job.env /\ job'.made = job.made
        /\ \A r : r \in RefsIn(job'.rows)
                    <=> r \in RefsIn(job.rows) \/ (r = value /\ r \in Secrets)
    BY TakesStep
  <1>2. JobSecrets' = JobSecrets
    BY <1>1 DEF JobSecrets
  <1>3. SecretsTypeOK'
    BY <1>1 DEF SecretsInv, SecretsTypeOK
  <1>4. FreeIsEmpty' /\ Resolves' /\ Owned' /\ Unshared'
    BY SameRefs DEF SecretsInv, FreeIsEmpty, Resolves, Owned, Unshared, StoredSecrets
  <1>5. Accounted'
    BY <1>2, SameRefs DEF SecretsInv, Accounted, StoredSecrets
  <1>6. UpdateSound'
    <2>1. job'.made \subseteq RefsIn(job'.rows)
      BY <1>1 DEF SecretsInv, UpdateSound
    <2>2. RefsIn(job'.rows) \subseteq job'.made \union RefsIn(variables'[job'.env])
      BY <1>1, SameRefs DEF SecretsInv, UpdateSound, EnvRefs
    <2>3. \A r \in job'.made : r \in StoredSecrets' /\ owner'[r] = home'[job'.env]
                                /\ \A e \in Envs : r \notin RefsIn(variables'[e])
      BY <1>1 DEF SecretsInv, UpdateSound, StoredSecrets, NoVariableHas, EnvRefs
    <2>4. home'[job'.env] # NoId
      BY <1>1 DEF SecretsInv, UpdateSound
    <2> QED
      BY <2>1, <2>2, <2>3, <2>4 DEF UpdateSound, EnvRefs, NoVariableHas
  <1>7. CleanupSound' /\ DeletionSound'
    BY <1>1 DEF CleanupSound, DeletionSound
  <1> QED
    BY <1>3, <1>4, <1>5, <1>6, <1>7 DEF SecretsInv

\* A new secret is stored under a reference that is in use nowhere.
LEMMA PuttingStep ==
  ASSUME SecretsInv, job.kind = "update", NEW name \in Names, NEW ref \in Secrets,
         job.rows[name] = NoId, PutSecret(name, ref),
         UNCHANGED <<rowVars, ring, secretHistoryVars>>
  PROVE  SecretsInv'
  <1> USE DEF rowVars, secretHistoryVars
  <1>1. /\ ref \notin StoredSecrets /\ ref \notin JobSecrets
        /\ ref \notin ReferredSecrets
        /\ Takes(name, ref, {ref})
    BY DEF PutSecret, FreeSecrets
  <1>2. ref \in VariableValues /\ {ref} \in SUBSET Secrets
    BY DEF VariableValues
  <1>3. /\ job' \in Jobs /\ job'.kind = "update" /\ job'.env = job.env
        /\ job'.made = job.made \union {ref}
        /\ \A r : r \in RefsIn(job'.rows) <=> r \in RefsIn(job.rows) \/ r = ref
    BY <1>1, <1>2, TakesStep
  <1>4. NoVariableHas(ref)
    BY <1>1, ReferredByAnEnv DEF SecretsInv, NoVariableHas
  <1>5. /\ job.env \in Envs /\ home[job.env] \in Spaces \union {NoId}
    BY JobKinds DEF SecretsInv, SecretsTypeOK
  <1>6. /\ keyring' \subseteq Secrets /\ sessionStore' \subseteq Secrets
        /\ StoredSecrets' = StoredSecrets \union {ref}
        /\ owner' \in [Secrets -> Spaces \union {NoId}]
        /\ owner'[ref] = home[job.env]
        /\ \A r \in Secrets \ {ref} : owner'[r] = owner[r]
    BY <1>5 DEF SecretsInv, SecretsTypeOK, PutSecret, StoredSecrets
  <1>7. JobSecrets' = JobSecrets \union {ref}
    BY <1>3 DEF JobSecrets
  <1>8. SecretsTypeOK'
    BY <1>3, <1>6 DEF SecretsInv, SecretsTypeOK
  <1>9. FreeIsEmpty' /\ Unshared'
    BY SameRefs DEF SecretsInv, FreeIsEmpty, Unshared
  <1>10. Resolves'
    BY <1>6, SameRefs DEF SecretsInv, Resolves
  <1>11. Owned'
    <2> SUFFICES ASSUME NEW e \in Envs, NEW r \in EnvRefs(e), r \in StoredSecrets'
                 PROVE  owner'[r] = home[e]
      BY SameRefs DEF Owned
    <2>1. r # ref /\ r \in Secrets
      BY <1>4 DEF NoVariableHas, EnvRefs, RefsIn
    <2> QED
      BY <1>6, <2>1 DEF SecretsInv, Owned
  <1>12. Accounted'
    BY <1>6, <1>7, SameRefs DEF SecretsInv, Accounted
  <1>13. UpdateSound'
    <2>1. job'.made \subseteq RefsIn(job'.rows)
      BY <1>3 DEF SecretsInv, UpdateSound
    <2>2. RefsIn(job'.rows) \subseteq job'.made \union RefsIn(variables'[job'.env])
      BY <1>3, SameRefs DEF SecretsInv, UpdateSound, EnvRefs
    <2>3. \A r \in job'.made : r \in StoredSecrets' /\ owner'[r] = home'[job'.env]
                                /\ \A e \in Envs : r \notin RefsIn(variables'[e])
      <3> SUFFICES ASSUME NEW r \in job'.made
                   PROVE  r \in StoredSecrets' /\ owner'[r] = home[job.env] /\ NoVariableHas(r)
        BY <1>3 DEF NoVariableHas, EnvRefs
      <3>1. CASE r = ref
        BY <1>4, <1>6, <3>1
      <3>2. CASE r # ref /\ r \in job.made
        <4>1. r \in StoredSecrets /\ owner[r] = home[job.env] /\ NoVariableHas(r)
          BY <3>2 DEF SecretsInv, UpdateSound
        <4>2. r \in Secrets
          BY <4>1 DEF SecretsInv, SecretsTypeOK, StoredSecrets
        <4> QED
          BY <1>6, <3>2, <4>1, <4>2
      <3> QED
        BY <1>3, <3>1, <3>2
    <2>4. home'[job'.env] # NoId
      BY <1>3 DEF SecretsInv, UpdateSound
    <2> QED
      BY <2>1, <2>2, <2>3, <2>4 DEF UpdateSound, EnvRefs, NoVariableHas
  <1>14. CleanupSound' /\ DeletionSound'
    BY <1>3 DEF CleanupSound, DeletionSound
  <1> QED
    BY <1>8, <1>9, <1>10, <1>11, <1>12, <1>13, <1>14 DEF SecretsInv

\* A draft is taken in one of three ways, or the update is abandoned.
LEMMA TakeDraftStep ==
  ASSUME SecretsInv, NEW draft \in VariableDrafts, TakeDraft(draft)
  PROVE  SecretsInv'
  <1>1. draft.name \in Names /\ (draft.kind = "kept" => draft.previous \in Names \union {NoId})
    BY DEF VariableDrafts
  <1>2. /\ job.kind = "update" /\ UNCHANGED <<rowVars, ring, secretHistoryVars>>
        /\ Accept(draft) \/ Abandon
    BY DEF TakeDraft
  <1>3. CASE Abandon
    BY <1>2, <1>3, AbandonStep
  <1>4. CASE Accept(draft)
    <2>1. job.rows[draft.name] = NoId
      BY <1>4 DEF Accept
    <2>2. CASE Takes(draft.name, Plain, {}) /\ UNCHANGED vaultVars
      <3>1. Plain \in VariableValues /\ Plain \notin Secrets
        BY NoIdAssumption DEF VariableValues
      <3> QED
        BY <1>1, <1>2, <2>1, <2>2, <3>1, KeepingStep
    <2>3. ASSUME NEW ref \in Secrets, PutSecret(draft.name, ref)
          PROVE  SecretsInv'
      BY <1>1, <1>2, <2>1, <2>3, PuttingStep
    <2>4. CASE /\ draft.kind = "kept" /\ KeptValue(draft) \in Secrets
               /\ Takes(draft.name, KeptValue(draft), {}) /\ UNCHANGED vaultVars
      <3>1. draft.previous \in Names /\ KeptValue(draft) = variables[job.env][draft.previous]
        BY <1>1, <2>4, NoIdAssumption DEF KeptValue
      <3>2. KeptValue(draft) \in EnvRefs(job.env)
        BY <2>4, <3>1, RefIsOfAName DEF EnvRefs
      <3>3. KeptValue(draft) \in VariableValues
        BY <2>4 DEF VariableValues
      <3> QED
        BY <1>1, <1>2, <2>1, <2>4, <3>2, <3>3, KeepingStep
    <2> QED
      BY <1>4, <2>2, <2>3, <2>4 DEF Accept
  <1> QED
    BY <1>2, <1>3, <1>4

\* The rows are replaced in one transaction.  What the environment had and has no
\* more goes to a cleanup; no other environment can have it.
LEMMA CommitUpdateStep ==
  ASSUME SecretsInv, CommitUpdate
  PROVE  SecretsInv'
  <1>1. /\ job.kind = "update" /\ UNCHANGED <<workspaces, home, ring, secretHistoryVars>>
        /\ job.env \in Envs /\ job.rows \in [Names -> VariableValues]
        /\ job.made \in SUBSET Secrets
    BY JobKinds DEF SecretsInv, CommitUpdate
  <1>2. CASE Abandon /\ UNCHANGED variables
    BY <1>1, <1>2, AbandonStep DEF rowVars, secretHistoryVars
  <1>3. CASE /\ variables' = [variables EXCEPT ![job.env] = job.rows]
             /\ job' = CleanupJob(Dropped)
             /\ UNCHANGED vaultVars
    <2> USE <1>1, <1>3 DEF vaultVars, secretHistoryVars
    <2>1. Dropped \in SUBSET Secrets
      BY DEF Dropped, EnvRefs, RefsIn
    <2>2. /\ job' \in Jobs /\ job'.kind \in {"nothing", "cleanup"}
          /\ job'.kind = "cleanup" => job'.refs = Dropped
          /\ job'.kind = "nothing" => Dropped = {}
      BY <2>1, CleanupIs
    <2>3. JobSecrets' = Dropped
      BY <2>2 DEF JobSecrets
    <2>4. /\ variables' \in [Envs -> [Names -> VariableValues]]
          /\ variables'[job.env] = job.rows
          /\ \A f \in Envs \ {job.env} : variables'[f] = variables[f]
      BY DEF SecretsInv, SecretsTypeOK
    <2>5. SecretsTypeOK'
      BY <2>2, <2>4 DEF SecretsInv, SecretsTypeOK
    <2>6. /\ RefsIn(variables'[job.env]) = RefsIn(job.rows)
          /\ \A f \in Envs \ {job.env} : RefsIn(variables'[f]) = RefsIn(variables[f])
      BY <2>4
    \* What the rows have, the environment had, or it is new.
    <2>7. \A r \in RefsIn(job.rows) :
            \/ r \in RefsIn(variables[job.env])
            \/ /\ r \in StoredSecrets /\ owner[r] = home[job.env]
               /\ \A f \in Envs : r \notin RefsIn(variables[f])
      BY DEF SecretsInv, UpdateSound, EnvRefs, NoVariableHas
    <2>8. FreeIsEmpty'
      <3> SUFFICES ASSUME NEW f \in Envs, home[f] = NoId PROVE variables'[f] = Empty
        BY DEF FreeIsEmpty, Empty
      <3>1. f # job.env
        BY DEF SecretsInv, UpdateSound
      <3> QED
        BY <2>4, <3>1 DEF SecretsInv, FreeIsEmpty
    <2>9. Resolves'
      <3> SUFFICES ASSUME NEW f \in Envs, NEW r \in RefsIn(variables'[f])
                   PROVE  r \in StoredSecrets \/ r \in lost
        BY DEF Resolves, StoredSecrets, EnvRefs
      <3> QED
        BY <2>6, <2>7 DEF SecretsInv, Resolves, EnvRefs
    <2>10. Owned'
      <3> SUFFICES ASSUME NEW f \in Envs, NEW r \in RefsIn(variables'[f]), r \in StoredSecrets
                   PROVE  owner[r] = home[f]
        BY DEF Owned, StoredSecrets, EnvRefs
      <3> QED
        BY <2>6, <2>7 DEF SecretsInv, Owned, EnvRefs
    <2>11. Unshared'
      <3> SUFFICES ASSUME NEW f \in Envs, NEW g \in Envs, f # g,
                          NEW r \in RefsIn(variables'[f]), r \in RefsIn(variables'[g])
                   PROVE  FALSE
        BY DEF Unshared, EnvRefs
      <3>1. \A x, y \in Envs : x # y =>
              \A s \in RefsIn(variables[x]) : s \notin RefsIn(variables[y])
        BY DEF SecretsInv, Unshared, EnvRefs
      <3>2. CASE f = job.env
        BY <2>6, <2>7, <3>1, <3>2
      <3>3. CASE g = job.env
        BY <2>6, <2>7, <3>1, <3>3
      <3>4. CASE f # job.env /\ g # job.env
        BY <2>6, <3>1, <3>4
      <3> QED
        BY <3>2, <3>3, <3>4
    <2>12. Accounted'
      <3> SUFFICES ASSUME calm, NEW r \in StoredSecrets,
                          \A f \in Envs : r \notin RefsIn(variables'[f])
                   PROVE  r \in Dropped
        BY <2>3 DEF SecretsInv, Accounted, StoredSecrets, NoVariableHas, EnvRefs
      <3>1. r \notin RefsIn(job.rows) /\ r \notin job.made
        BY <2>6 DEF SecretsInv, UpdateSound
      <3>2. ~NoVariableHas(r)
        BY <3>1 DEF SecretsInv, Accounted, JobSecrets
      <3>3. r \in EnvRefs(job.env)
        BY <2>6, <3>2 DEF NoVariableHas, EnvRefs
      <3> QED
        BY <3>1, <3>3 DEF Dropped
    <2>13. CleanupSound'
      <3> SUFFICES ASSUME NEW r \in Dropped, NEW f \in Envs
                   PROVE  r \notin RefsIn(variables'[f])
        BY <2>2 DEF CleanupSound, NoVariableHas, EnvRefs
      <3>1. r \in RefsIn(variables[job.env]) /\ r \notin RefsIn(job.rows)
        BY DEF Dropped, EnvRefs
      <3> QED
        BY <2>6, <3>1 DEF SecretsInv, Unshared, EnvRefs
    <2>14. UpdateSound' /\ DeletionSound'
      BY <2>2 DEF UpdateSound, DeletionSound
    <2> QED
      BY <2>5, <2>8, <2>9, <2>10, <2>11, <2>12, <2>13, <2>14 DEF SecretsInv
  <1> QED
    BY <1>2, <1>3 DEF CommitUpdate

-----------------------------------------------------------------------------
(* Rows that are removed *)

\* What is left of the tables when environments are removed.
LEMMA Removing ==
  ASSUME SecretsInv, NEW gone \in SUBSET Envs, RemoveEnvs(gone)
  PROVE  /\ home' \in [Envs -> Spaces \union {NoId}]
         /\ variables' \in [Envs -> [Names -> VariableValues]]
         /\ \A e \in gone : EnvRefs(e)' = {}
         /\ \A e \in Envs \ gone : EnvRefs(e)' = EnvRefs(e) /\ home'[e] = home[e]
         /\ FreeIsEmpty' /\ Unshared'
  <1>1. Empty \in [Names -> VariableValues]
    BY DEF Empty, VariableValues
  <1>2. /\ home' \in [Envs -> Spaces \union {NoId}]
        /\ variables' \in [Envs -> [Names -> VariableValues]]
        /\ \A e \in gone : variables'[e] = Empty /\ home'[e] = NoId
        /\ \A e \in Envs \ gone : variables'[e] = variables[e] /\ home'[e] = home[e]
    BY <1>1 DEF RemoveEnvs, SecretsInv, SecretsTypeOK
  <1>3. \A e \in gone : EnvRefs(e)' = {}
    BY <1>2, EmptyHasNoRefs DEF EnvRefs
  <1>4. \A e \in Envs \ gone : EnvRefs(e)' = EnvRefs(e) /\ home'[e] = home[e]
    BY <1>2 DEF EnvRefs
  <1>5. Empty' = Empty
    BY DEF Empty
  <1>6. FreeIsEmpty'
    BY <1>2, <1>5 DEF SecretsInv, FreeIsEmpty
  <1>7. Unshared'
    BY <1>3, <1>4 DEF SecretsInv, Unshared
  <1> QED
    BY <1>2, <1>3, <1>4, <1>6, <1>7

\* The row of an environment goes first, its secrets follow.
LEMMA DeleteEnvironmentStep ==
  ASSUME SecretsInv, NEW e \in Envs, DeleteEnvironment(e)
  PROVE  SecretsInv'
  <1> USE DEF DeleteEnvironment, vaultVars, secretHistoryVars
  <1>1. EnvRefs(e) \in SUBSET Secrets
    BY DEF EnvRefs, RefsIn
  <1>2. /\ job' \in Jobs /\ job'.kind \in {"nothing", "cleanup"}
        /\ job'.kind = "cleanup" => job'.refs = EnvRefs(e)
        /\ job'.kind = "nothing" => EnvRefs(e) = {}
    BY <1>1, CleanupIs
  <1>3. JobSecrets' = EnvRefs(e) /\ JobSecrets = {}
    BY <1>2 DEF JobSecrets, Nothing
  <1>4. /\ home' \in [Envs -> Spaces \union {NoId}]
        /\ variables' \in [Envs -> [Names -> VariableValues]]
        /\ EnvRefs(e)' = {}
        /\ \A f \in Envs \ {e} : EnvRefs(f)' = EnvRefs(f) /\ home'[f] = home[f]
        /\ FreeIsEmpty' /\ Unshared'
    BY Removing
  <1>5. SecretsTypeOK'
    BY <1>2, <1>4 DEF SecretsInv, SecretsTypeOK
  <1>6. Resolves' /\ Owned'
    BY <1>4 DEF SecretsInv, Resolves, Owned, StoredSecrets
  <1>7. Accounted'
    BY <1>3, <1>4 DEF SecretsInv, Accounted, StoredSecrets, NoVariableHas
  <1>8. CleanupSound'
    BY <1>2, <1>4 DEF SecretsInv, CleanupSound, Unshared, NoVariableHas
  <1>9. UpdateSound' /\ DeletionSound'
    BY <1>2 DEF UpdateSound, DeletionSound
  <1> QED
    BY <1>4, <1>5, <1>6, <1>7, <1>8, <1>9 DEF SecretsInv

\* The row of a workspace goes last, or stays when the transaction fails.
LEMMA DeleteWorkspaceRowStep ==
  ASSUME SecretsInv, DeleteWorkspaceRow
  PROVE  SecretsInv'
  <1> USE DEF DeleteWorkspaceRow, vaultVars, secretHistoryVars
  <1>1. job.kind = "deletion" /\ job.space \in Spaces /\ JobSecrets = {}
    BY JobKinds DEF SecretsInv, JobSecrets
  <1>2. job' = Nothing /\ JobSecrets' = {}
    BY DEF Nothing, JobSecrets
  <1>3. UpdateSound' /\ CleanupSound' /\ DeletionSound'
    BY <1>2 DEF UpdateSound, CleanupSound, DeletionSound, Nothing
  <1>4. CASE UNCHANGED rowVars
    <2> USE <1>4 DEF rowVars
    <2>1. SecretsTypeOK'
      BY <1>2 DEF SecretsInv, SecretsTypeOK, Jobs
    <2>2. FreeIsEmpty' /\ Resolves' /\ Owned' /\ Unshared'
      BY SameRefs DEF SecretsInv, FreeIsEmpty, Resolves, Owned, Unshared, StoredSecrets
    <2>3. Accounted'
      BY <1>1, <1>2, SameRefs DEF SecretsInv, Accounted, StoredSecrets
    <2> QED
      BY <1>3, <2>1, <2>2, <2>3 DEF SecretsInv
  <1>5. CASE workspaces' = workspaces \ {job.space} /\ RemoveEnvs(EnvsOf(job.space))
    <2> DEFINE gone == EnvsOf(job.space)
    <2> USE <1>5
    <2>1. gone \in SUBSET Envs /\ \A e \in Envs : e \in gone <=> home[e] = job.space
      BY DEF EnvsOf
    <2>2. /\ home' \in [Envs -> Spaces \union {NoId}]
          /\ variables' \in [Envs -> [Names -> VariableValues]]
          /\ \A e \in gone : EnvRefs(e)' = {}
          /\ \A e \in Envs \ gone : EnvRefs(e)' = EnvRefs(e) /\ home'[e] = home[e]
          /\ FreeIsEmpty' /\ Unshared'
      BY <2>1, Removing
    <2> HIDE DEF gone
    <2>3. SecretsTypeOK'
      BY <1>2, <2>2 DEF SecretsInv, SecretsTypeOK, Jobs
    <2>4. Resolves' /\ Owned'
      BY <2>2 DEF SecretsInv, Resolves, Owned, StoredSecrets
    <2>5. Accounted'
      <3> SUFFICES ASSUME calm, NEW r \in StoredSecrets
                   PROVE  \E e \in Envs : r \in EnvRefs(e)'
        BY <1>2 DEF SecretsInv, Accounted, StoredSecrets, NoVariableHas
      <3>1. PICK e \in Envs : r \in EnvRefs(e)
        BY <1>1 DEF SecretsInv, Accounted, NoVariableHas
      <3>2. owner[r] = home[e] /\ owner[r] # job.space
        BY <1>1, <3>1 DEF SecretsInv, Owned, DeletionSound
      <3> QED
        BY <2>1, <2>2, <3>1, <3>2
    <2> QED
      BY <1>3, <2>2, <2>3, <2>4, <2>5 DEF SecretsInv
  <1> QED
    BY <1>4, <1>5

\* The session store ends with the program, and so does the command under way.
LEMMA SecretsRestartStep ==
  ASSUME SecretsInv, SecretsRestart
  PROVE  SecretsInv'
  <1> USE DEF SecretsRestart, rowVars, Trouble
  <1>1. JobSecrets' = {} /\ (calm' => calm /\ JobSecrets = {})
    BY DEF JobSecrets, Nothing
  <1>2. StoredSecrets' = keyring /\ StoredSecrets' \subseteq StoredSecrets
        /\ \A r \in StoredSecrets' : r \in Secrets /\ owner'[r] = owner[r]
    BY DEF SecretsInv, SecretsTypeOK, StoredSecrets
  <1>3. SecretsTypeOK'
    <2>1. owner' \in [Secrets -> Spaces \union {NoId}] /\ lost' \subseteq Secrets
      BY DEF SecretsInv, SecretsTypeOK
    <2> QED
      BY <2>1 DEF SecretsInv, SecretsTypeOK, Jobs
  <1>4. FreeIsEmpty' /\ Unshared'
    BY SameRefs DEF SecretsInv, FreeIsEmpty, Unshared
  <1>5. Owned'
    BY <1>2, SameRefs DEF SecretsInv, Owned
  <1>6. Resolves'
    <2> SUFFICES ASSUME NEW e \in Envs, NEW r \in EnvRefs(e), r \notin keyring
                 PROVE  r \in lost'
      BY <1>2, SameRefs DEF Resolves
    <2>1. r \in ReferredSecrets
      BY ReferredByAnEnv DEF SecretsInv
    <2> QED
      BY <2>1 DEF SecretsInv, Resolves, StoredSecrets
  <1>7. Accounted'
    BY <1>1, <1>2, SameRefs DEF SecretsInv, Accounted
  <1>8. UpdateSound' /\ CleanupSound' /\ DeletionSound'
    BY DEF UpdateSound, CleanupSound, DeletionSound, Nothing
  <1> QED
    BY <1>3, <1>4, <1>5, <1>6, <1>7, <1>8 DEF SecretsInv

-----------------------------------------------------------------------------
(* The theorem *)

\* Every step keeps the invariant.
LEMMA SecretsNextInv ==
  ASSUME SecretsInv, [SecretsNext]_secretVars
  PROVE  SecretsInv'
  <1>1. ASSUME NEW w \in Spaces, AddWorkspace(w) PROVE SecretsInv'
    BY <1>1, AddWorkspaceStep
  <1>2. ASSUME NEW w \in Spaces, DeleteWorkspaceSecrets(w) PROVE SecretsInv'
    BY <1>2, DeleteWorkspaceSecretsStep
  <1>3. ASSUME NEW w \in Spaces, NEW e \in Envs, AddEnvironment(w, e) PROVE SecretsInv'
    BY <1>3, AddEnvironmentStep
  <1>4. ASSUME NEW e \in Envs, BeginUpdate(e) PROVE SecretsInv'
    BY <1>4, BeginUpdateStep
  <1>5. ASSUME NEW e \in Envs, DeleteEnvironment(e) PROVE SecretsInv'
    BY <1>5, DeleteEnvironmentStep
  <1>6. ASSUME NEW draft \in VariableDrafts, TakeDraft(draft) PROVE SecretsInv'
    BY <1>6, TakeDraftStep
  <1>7. ASSUME NEW ref \in Secrets, CleanUp(ref) PROVE SecretsInv'
    BY <1>7, CleanUpStep
  <1>8. CASE CommitUpdate
    BY <1>8, CommitUpdateStep
  <1>9. CASE DeleteWorkspaceRow
    BY <1>9, DeleteWorkspaceRowStep
  <1>10. CASE RingChanges
    BY <1>10, RingChangesStep
  <1>11. CASE SecretsRestart
    BY <1>11, SecretsRestartStep
  <1>12. CASE UNCHANGED secretVars
    BY <1>12, SecretsStutter
  <1> QED
    BY <1>1, <1>2, <1>3, <1>4, <1>5, <1>6, <1>7, <1>8, <1>9, <1>10, <1>11, <1>12
       DEF SecretsNext

\* Whatever fails, whenever the program ends, and however the user renames, keeps,
\* replaces and deletes: a variable that refers to a secret can be resolved unless
\* a session or a half deleted workspace took it, no command on one environment or
\* workspace takes the secret of another, and while no store fails and no command
\* is cut short nothing is left in the stores that no variable refers to.
THEOREM SecretsKeepTheirPromise == SecretsSpec => []SecretsCorrect
  <1>1. SecretsInit => SecretsInv
    BY SecretsInitInv
  <1>2. SecretsInv /\ [SecretsNext]_secretVars => SecretsInv'
    BY SecretsNextInv
  <1>3. SecretsInv => SecretsCorrect
    BY InvGivesSecrets
  <1> QED
    BY <1>1, <1>2, <1>3, PTL DEF SecretsSpec

-----------------------------------------------------------------------------
(* The cookies of a workspace *)


\* Ids that a row or a value in memory has, and secrets that no row refers to.
UsedIds(j) == {j.rows[s].id : s \in Live(j)} \union {i \in CookieIds : j.memory[i] # Nil}
Orphans(j) == Stored(j) \ Referred(j)

\* Rows share neither ids nor references, a session cookie is one without a
\* reference, and what is kept for a row is the value last stored for it.
SoundJar(j) ==
  /\ j \in Jar
  /\ \A s, t \in Live(j) : s # t => j.rows[s].id # j.rows[t].id
  /\ \A s, t \in Live(j) : s # t /\ j.rows[s].ref # Nil => j.rows[s].ref # j.rows[t].ref
  /\ \A s \in Live(j) :
       /\ j.rows[s].expires = Nil <=> j.rows[s].ref = Nil
       /\ j.memory[j.rows[s].id] \in {Nil, j.latest[s]}
       /\ j.rows[s].ref # Nil => /\ j.native[j.rows[s].ref] \in {Nil, j.latest[s]}
                                 /\ j.session[j.rows[s].ref] \in {Nil, j.latest[s]}

\* A jar that a command has reached: a reference that was known when it began,
\* and that a row has, is the one the row had, and nobody has written to it.
Reached(j) ==
  /\ SoundJar(j)
  /\ \A s \in Live(j) : j.rows[s].ref \in Used(jar) =>
       /\ jar.rows[s] # Nil /\ jar.rows[s].ref = j.rows[s].ref
       /\ j.native[j.rows[s].ref] = jar.native[j.rows[s].ref]
       /\ j.session[j.rows[s].ref] = jar.session[j.rows[s].ref]

\* Rows and values go; those of the rows that stay do not, except from memory.
Shrinks(j, k) ==
  /\ k \in Jar /\ k.latest = j.latest
  /\ \A s \in Scopes : k.rows[s] \in {j.rows[s], Nil}
  /\ \A i \in CookieIds : k.memory[i] \in {j.memory[i], Nil}
  /\ \A r \in Refs : k.native[r] \in {j.native[r], Nil} /\ k.session[r] \in {j.session[r], Nil}
  /\ \A s \in Live(k) : k.rows[s].ref # Nil =>
       /\ k.native[k.rows[s].ref] = j.native[k.rows[s].ref]
       /\ k.session[k.rows[s].ref] = j.session[k.rows[s].ref]

\* The fields of a jar and of a row.
LEMMA JarFields ==
  ASSUME NEW j \in Jar
  PROVE  /\ j.rows \in [Scopes -> CookieRow \union {Nil}]
         /\ j.memory \in [CookieIds -> CookieValues \union {Nil}]
         /\ j.native \in [Refs -> CookieValues \union {Nil}]
         /\ j.session \in [Refs -> CookieValues \union {Nil}]
         /\ j.latest \in [Scopes -> CookieValues \union {Nil}]
  BY DEF Jar

\* The fields of a row that is in the table.
LEMMA RowFields ==
  ASSUME NEW j \in Jar, NEW s \in Live(j)
  PROVE  /\ s \in Scopes /\ j.rows[s] \in CookieRow
         /\ j.rows[s].id \in CookieIds /\ j.rows[s].expires \in Expiries \union {Nil}
         /\ j.rows[s].ref \in Refs \union {Nil}
  BY JarFields DEF Live, CookieRow

\* Nil is no id, reference, time, value or row.
LEMMA NilLemma ==
  /\ Nil \notin Refs /\ Nil \notin CookieIds /\ Nil \notin Expiries
  /\ Nil \notin CookieValues /\ Nil \notin CookieRow
  /\ MaxSecrets \in Nat /\ MaxCookies \in Nat
  <1>1. Nil \notin Nat /\ {MaxCookies, MaxSecrets, MaxTime, MaxHeaders} \subseteq Nat
    BY NilAssumption, BoundsAssumption
  <1>2. Refs \subseteq Nat /\ CookieIds \subseteq Nat /\ Expiries \subseteq Nat
    BY <1>1 DEF Refs, CookieIds, Expiries
  <1> QED
    BY <1>1, <1>2, NilAssumption, CookieRowAssumption

\* A reference that is referred to is that of a row.
LEMMA ReferredLemma ==
  ASSUME NEW j \in Jar
  PROVE  /\ \A r : r \in Referred(j) <=> \E s \in Live(j) : j.rows[s].ref = r /\ r # Nil
         /\ Referred(j) \subseteq Refs /\ Stored(j) \subseteq Refs
  BY RowFields DEF Referred, Stored

\* A jar that stays as it is shrinks, and shrinking goes on.
LEMMA ShrinksSame ==
  ASSUME NEW j \in Jar
  PROVE  Shrinks(j, j)
  BY DEF Shrinks

\* What has shrunk twice has shrunk.
LEMMA ShrinksTwice ==
  ASSUME NEW j, NEW k, NEW l, Shrinks(j, k), Shrinks(k, l)
  PROVE  Shrinks(j, l)
  <1>1. \A s \in Live(l) : s \in Scopes /\ l.rows[s] # Nil /\ s \in Live(k) /\ l.rows[s] = k.rows[s]
    BY DEF Shrinks, Live
  <1>2. \A s \in Live(l) : l.rows[s].ref # Nil =>
          /\ l.native[l.rows[s].ref] = j.native[l.rows[s].ref]
          /\ l.session[l.rows[s].ref] = j.session[l.rows[s].ref]
    BY <1>1 DEF Shrinks
  <1>3. /\ \A s \in Scopes : l.rows[s] \in {j.rows[s], Nil}
        /\ \A i \in CookieIds : l.memory[i] \in {j.memory[i], Nil}
        /\ \A r \in Refs : l.native[r] \in {j.native[r], Nil} /\ l.session[r] \in {j.session[r], Nil}
    BY DEF Shrinks
  <1> QED
    BY <1>2, <1>3 DEF Shrinks

\* What shrinks stays sound, and uses nothing new.
LEMMA ShrinksLemma ==
  ASSUME NEW j, NEW k, Reached(j), Shrinks(j, k)
  PROVE  /\ Reached(k) /\ Used(k) \subseteq Used(j) /\ UsedIds(k) \subseteq UsedIds(j)
  <1>1. j \in Jar /\ k \in Jar
    BY DEF Reached, SoundJar, Shrinks
  <1>2. \A s \in Live(k) : s \in Live(j) /\ k.rows[s] = j.rows[s]
    BY DEF Shrinks, Live
  <1>3. \A s \in Live(k) : k.rows[s].id \in CookieIds /\ k.rows[s].ref \in Refs \union {Nil}
    BY <1>1, RowFields
  <1>4. ASSUME NEW s \in Live(k)
        PROVE  /\ k.rows[s].expires = Nil <=> k.rows[s].ref = Nil
               /\ k.memory[k.rows[s].id] \in {Nil, k.latest[s]}
               /\ k.rows[s].ref # Nil => /\ k.native[k.rows[s].ref] \in {Nil, k.latest[s]}
                                         /\ k.session[k.rows[s].ref] \in {Nil, k.latest[s]}
    <2>1. /\ s \in Live(j) /\ k.rows[s] = j.rows[s] /\ k.latest = j.latest
          /\ k.rows[s].id \in CookieIds
      BY <1>2, <1>3 DEF Shrinks
    <2>2. /\ j.rows[s].expires = Nil <=> j.rows[s].ref = Nil
          /\ j.memory[j.rows[s].id] \in {Nil, j.latest[s]}
          /\ j.rows[s].ref # Nil => /\ j.native[j.rows[s].ref] \in {Nil, j.latest[s]}
                                    /\ j.session[j.rows[s].ref] \in {Nil, j.latest[s]}
      BY <2>1 DEF Reached, SoundJar
    <2>3. k.memory[k.rows[s].id] \in {j.memory[k.rows[s].id], Nil}
      BY <2>1 DEF Shrinks
    <2>4. k.rows[s].ref # Nil => /\ k.native[k.rows[s].ref] = j.native[k.rows[s].ref]
                                 /\ k.session[k.rows[s].ref] = j.session[k.rows[s].ref]
      BY DEF Shrinks
    <2> QED
      BY <2>1, <2>2, <2>3, <2>4
  <1>5. /\ \A s, t \in Live(k) : s # t => k.rows[s].id # k.rows[t].id
        /\ \A s, t \in Live(k) : s # t /\ k.rows[s].ref # Nil => k.rows[s].ref # k.rows[t].ref
    BY <1>2 DEF Reached, SoundJar
  <1>6. SoundJar(k)
    BY <1>1, <1>4, <1>5 DEF SoundJar
  <1>7. ASSUME NEW s \in Live(k), k.rows[s].ref \in Used(jar)
        PROVE  /\ jar.rows[s] # Nil /\ jar.rows[s].ref = k.rows[s].ref
               /\ k.native[k.rows[s].ref] = jar.native[k.rows[s].ref]
               /\ k.session[k.rows[s].ref] = jar.session[k.rows[s].ref]
    <2>1. s \in Live(j) /\ k.rows[s] = j.rows[s]
      BY <1>2
    <2>2. CASE k.rows[s].ref # Nil
      BY <1>7, <2>1, <2>2 DEF Reached, Shrinks
    <2>3. CASE k.rows[s].ref = Nil
      <3>1. jar.rows[s] # Nil /\ jar.rows[s].ref = k.rows[s].ref
        BY <1>7, <2>1 DEF Reached
      <3>2. Nil \notin Used(jar)
        BY NilLemma DEF Used, Stored, Referred
      <3> QED
        BY <1>7, <2>3, <3>2
    <2> QED
      BY <2>2, <2>3
  <1>8. Used(k) \subseteq Used(j)
    <2>1. Stored(k) \subseteq Stored(j)
      BY DEF Stored, Shrinks
    <2>2. Referred(k) \subseteq Referred(j)
      BY <1>2 DEF Referred
    <2> QED
      BY <2>1, <2>2 DEF Used
  <1>9. UsedIds(k) \subseteq UsedIds(j)
    <2>1. {k.rows[s].id : s \in Live(k)} \subseteq {j.rows[s].id : s \in Live(j)}
      BY <1>2
    <2>2. {i \in CookieIds : k.memory[i] # Nil} \subseteq {i \in CookieIds : j.memory[i] # Nil}
      BY DEF Shrinks
    <2> QED
      BY <2>1, <2>2 DEF UsedIds
  <1> QED
    BY <1>6, <1>7, <1>8, <1>9 DEF Reached

\* Deleting from the stores.
LEMMA ForgetLemma ==
  ASSUME NEW j \in Jar, NEW refs
  PROVE  LET k == Forget(j, refs) IN
         /\ k \in Jar /\ k.rows = j.rows /\ k.memory = j.memory /\ k.latest = j.latest
         /\ \A r \in Refs : /\ k.native[r] = IF r \in refs /\ service # "gone" THEN Nil ELSE j.native[r]
                            /\ k.session[r] = IF r \in refs THEN Nil ELSE j.session[r]
  <1> DEFINE native == [r \in Refs |-> IF r \in refs /\ service # "gone" THEN Nil ELSE j.native[r]]
             session == [r \in Refs |-> IF r \in refs THEN Nil ELSE j.session[r]]
             k == [j EXCEPT !.native = native, !.session = session]
  <1>1. Forget(j, refs) = k
    BY DEF Forget
  <1>2. /\ native \in [Refs -> CookieValues \union {Nil}]
        /\ session \in [Refs -> CookieValues \union {Nil}]
    BY JarFields
  <1>3. \A r \in Refs : /\ native[r] = IF r \in refs /\ service # "gone" THEN Nil ELSE j.native[r]
                        /\ session[r] = IF r \in refs THEN Nil ELSE j.session[r]
    OBVIOUS
  <1> HIDE DEF native, session
  <1>4. /\ k \in Jar /\ k.rows = j.rows /\ k.memory = j.memory /\ k.latest = j.latest
        /\ k.native = native /\ k.session = session
    BY <1>2 DEF Jar
  <1> QED
    BY <1>1, <1>3, <1>4

\* Rows that go with the values of some of them: the jar shrinks, and with the
\* values of all of them, by an open service, leaves nothing without a row.
LEMMA CleanedLemma ==
  ASSUME NEW j, SoundJar(j), NEW old \in SUBSET Live(j), NEW done \in SUBSET {j.rows[s] : s \in old},
         NEW tried, NEW k, k = Cleaned(Without(j, old), done, tried)
  PROVE  /\ Shrinks(j, k)
         /\ done = {j.rows[s] : s \in old} /\ service = "open" => Orphans(k) \subseteq Orphans(j)
  <1> DEFINE w == Without(j, old)
             f == Forget(w, RefsOf(done))
  <1>1. j \in Jar
    BY DEF SoundJar
  <1>2. /\ w \in Jar /\ w.memory = j.memory /\ w.native = j.native /\ w.session = j.session
        /\ w.latest = j.latest
        /\ \A s \in Scopes : w.rows[s] = IF s \in old THEN Nil ELSE j.rows[s]
    <2> DEFINE rows == [s \in Scopes |-> IF s \in old THEN Nil ELSE j.rows[s]]
    <2>1. rows \in [Scopes -> CookieRow \union {Nil}]
      BY <1>1, JarFields
    <2>2. \A s \in Scopes : rows[s] = IF s \in old THEN Nil ELSE j.rows[s]
      OBVIOUS
    <2>3. w = [j EXCEPT !.rows = rows]
      BY DEF Without
    <2> HIDE DEF rows, w
    <2> QED
      BY <1>1, <2>1, <2>2, <2>3 DEF Jar
  <1> HIDE DEF w
  <1>3. /\ f \in Jar /\ f.rows = w.rows /\ f.memory = w.memory /\ f.latest = w.latest
        /\ \A r \in Refs :
             /\ f.native[r] = IF r \in RefsOf(done) /\ service # "gone" THEN Nil ELSE w.native[r]
             /\ f.session[r] = IF r \in RefsOf(done) THEN Nil ELSE w.session[r]
    BY <1>2, ForgetLemma
  <1> HIDE DEF f
  <1>4. /\ k \in Jar /\ k.rows = f.rows /\ k.native = f.native /\ k.session = f.session
        /\ k.latest = f.latest
        /\ \A i \in CookieIds : k.memory[i] \in {j.memory[i], Nil}
    <2> DEFINE memory == [i \in CookieIds |->
                 IF \E row \in done \union tried : row.id = i THEN Nil ELSE w.memory[i]]
    <2>1. memory \in [CookieIds -> CookieValues \union {Nil}]
      BY <1>2, JarFields
    <2>2. \A i \in CookieIds : memory[i] \in {j.memory[i], Nil}
      BY <1>2
    <2>3. k = [f EXCEPT !.memory = memory]
      BY DEF Cleaned, f, w
    <2> HIDE DEF memory
    <2> QED
      BY <1>3, <2>1, <2>2, <2>3 DEF Jar
  <1>5. \A s \in Live(k) : s \in Live(j) /\ s \notin old /\ k.rows[s] = j.rows[s]
    BY <1>2, <1>3, <1>4 DEF Live
  <1>6. \A s \in Live(k) : k.rows[s].ref # Nil => k.rows[s].ref \in Refs \ RefsOf(done)
    <2> SUFFICES ASSUME NEW s \in Live(k), k.rows[s].ref # Nil
                 PROVE  k.rows[s].ref \in Refs /\ k.rows[s].ref \notin RefsOf(done)
      OBVIOUS
    <2>1. k.rows[s].ref \in Refs
      BY <1>4, RowFields
    <2>2. ASSUME NEW row \in done, row.ref = k.rows[s].ref PROVE FALSE
      <3>1. PICK t \in old : row = j.rows[t]
        OBVIOUS
      <3>2. t # s /\ t \in Live(j) /\ s \in Live(j) /\ j.rows[s].ref # Nil /\ j.rows[s].ref = j.rows[t].ref
        BY <1>5, <2>2, <3>1
      <3> QED
        BY <3>2 DEF SoundJar
    <2> QED
      BY <2>1, <2>2 DEF RefsOf
  <1>7. Shrinks(j, k)
    <2>1. \A s \in Scopes : k.rows[s] \in {j.rows[s], Nil}
      BY <1>2, <1>3, <1>4
    <2>2. \A r \in Refs : k.native[r] \in {j.native[r], Nil} /\ k.session[r] \in {j.session[r], Nil}
      BY <1>2, <1>3, <1>4
    <2>3. \A s \in Live(k) : k.rows[s].ref # Nil =>
            /\ k.native[k.rows[s].ref] = j.native[k.rows[s].ref]
            /\ k.session[k.rows[s].ref] = j.session[k.rows[s].ref]
      BY <1>2, <1>3, <1>4, <1>6
    <2> QED
      BY <1>2, <1>3, <1>4, <2>1, <2>2, <2>3 DEF Shrinks
  <1>8. ASSUME done = {j.rows[s] : s \in old}, service = "open", NEW r \in Orphans(k)
        PROVE  r \in Orphans(j)
    <2>1. r \in Refs /\ r \in Stored(k) /\ r \notin Referred(k)
      BY <1>8 DEF Orphans, Stored
    <2>2. r \notin RefsOf(done)
      BY <1>3, <1>4, <1>8, <2>1 DEF Stored
    <2>3. r \in Stored(j)
      BY <1>7, <2>1 DEF Stored, Shrinks
    <2>4. ASSUME NEW s \in Live(j), j.rows[s].ref = r PROVE FALSE
      <3>1. r # Nil
        BY <2>1, NilLemma
      <3>2. CASE s \in old
        BY <1>8, <2>2, <2>4, <3>1, <3>2 DEF RefsOf
      <3>3. CASE s \notin old
        <4>1. s \in Live(k) /\ k.rows[s] = j.rows[s]
          BY <1>2, <1>3, <1>4, <3>3 DEF Live
        <4> QED
          BY <1>4, <2>1, <2>4, <3>1, <4>1, ReferredLemma
      <3> QED
        BY <3>2, <3>3
    <2> QED
      BY <1>1, <2>3, <2>4, ReferredLemma DEF Orphans
  <1> QED
    BY <1>7, <1>8

\* So does a purge, whichever secret it fails to delete.
LEMMA PurgeLemma ==
  ASSUME NEW j, SoundJar(j), NEW old \in SUBSET Live(j),
         NEW o \in Purge(Without(j, old), {j.rows[s] : s \in old})
  PROVE  /\ Shrinks(j, o.jar) /\ o.ok \in BOOLEAN
         /\ o.ok /\ service = "open" => Orphans(o.jar) \subseteq Orphans(j)
  <1> DEFINE w == Without(j, old)
             gone == {j.rows[s] : s \in old}
  <1>1. \/ o = Done(Cleaned(w, gone, {}))
        \/ \E try \in (SUBSET gone) \X gone : o = Failed(Cleaned(w, try[1], {try[2]}))
    BY DEF Purge
  <1>2. CASE o = Done(Cleaned(w, gone, {}))
    <2>1. o.jar = Cleaned(w, gone, {}) /\ o.ok = TRUE
      BY <1>2 DEF Done
    <2> QED
      BY <2>1, CleanedLemma
  <1>3. CASE \E try \in (SUBSET gone) \X gone : o = Failed(Cleaned(w, try[1], {try[2]}))
    <2>1. PICK try \in (SUBSET gone) \X gone : o = Failed(Cleaned(w, try[1], {try[2]}))
      BY <1>3
    <2>2. o.jar = Cleaned(w, try[1], {try[2]}) /\ o.ok = FALSE /\ try[1] \in SUBSET gone
      BY <2>1 DEF Failed
    <2> QED
      BY <2>2, CleanedLemma
  <1> QED
    BY <1>1, <1>2, <1>3

\* So does the cleanup that loads the cookies.
LEMMA CleanupLemma ==
  ASSUME NEW j, SoundJar(j), NEW o \in Cleanup(j)
  PROVE  /\ Shrinks(j, o.jar) /\ o.ok \in BOOLEAN
         /\ o.ok /\ service = "open" => Orphans(o.jar) \subseteq Orphans(j)
  <1> DEFINE old == {s \in Live(j) : ExpiredCookies(j.rows[s].expires)}
             purged == Purge(Without(j, old), {j.rows[s] : s \in old})
  <1>1. \A p \in purged : /\ Shrinks(j, p.jar) /\ p.ok \in BOOLEAN
                          /\ p.ok /\ service = "open" => Orphans(p.jar) \subseteq Orphans(j)
    BY PurgeLemma
  <1>2. \/ o = Failed(j)
        \/ o \in purged
        \/ \E p \in purged : o = Failed(p.jar)
    BY DEF Cleanup, Fails
  <1> HIDE DEF purged
  <1>3. Shrinks(j, j)
    BY ShrinksSame DEF SoundJar
  <1>4. CASE o = Failed(j)
    BY <1>3, <1>4 DEF Failed
  <1>5. CASE \E p \in purged : o = Failed(p.jar)
    BY <1>1, <1>5 DEF Failed
  <1> QED
    BY <1>1, <1>2, <1>4, <1>5

\* Natural numbers have a least one.
LEMMA SmallestLemma ==
  ASSUME NEW T \in SUBSET Nat, T # {}
  PROVE  Smallest(T) \in T /\ \A n \in T : Smallest(T) <= n
  <1> DEFINE Less == {ss \in Nat \X Nat : ss[1] < ss[2]}
  <1>0. IsWellFoundedOn(Less, Nat)
    BY NatLessThanWellFounded DEF OpToRel
  <1>1. \A n, k \in Nat : n < k => <<n, k>> \in Less
    OBVIOUS
  <1> HIDE DEF Less
  <1>2. \E m \in T : \A n \in T : ~ (<<n, m>> \in Less)
    BY <1>0, WFMin
  <1>3. \E m \in T : \A n \in T : ~ (n < m)
    BY <1>1, <1>2
  <1>4. \E m \in T : \A n \in T : m <= n
    BY <1>3
  <1> QED
    BY <1>4 DEF Smallest

\* A secret is written under a reference of its own.
PutInto(j, k, ref, value) ==
  /\ k \in Jar /\ k.rows = j.rows /\ k.memory = j.memory /\ k.latest = j.latest
  /\ \A r \in Refs : r # ref => k.native[r] = j.native[r] /\ k.session[r] = j.session[r]
  /\ k.native[ref] \in {Nil, value} /\ k.session[ref] \in {Nil, value}

\* A secret is put under a reference that is free, or nothing happens.
LEMMA PutLemma ==
  ASSUME NEW j, SoundJar(j), NEW ref \in FreshRefs(j), NEW value \in CookieValues,
         NEW o \in Put(j, ref, value)
  PROVE  /\ o.ok \in BOOLEAN
         /\ (o.ok /\ PutInto(j, o.jar, ref, value)) \/ (~o.ok /\ o.jar = j)
  <1>1. j \in Jar /\ ref \in Refs /\ j.native[ref] = Nil /\ j.session[ref] = Nil
    BY DEF SoundJar, FreshRefs, Used, Stored
  <1> DEFINE open == [j EXCEPT !.native[ref] = value]
             shut == [j EXCEPT !.session[ref] = value]
  <1>1a. \/ o.ok = TRUE /\ (o.jar = open \/ o.jar = shut)
         \/ o.ok = FALSE /\ o.jar = j
    BY DEF Put, Fails, Done, Failed
  <1>3. PutInto(j, open, ref, value)
    <2>1. [j.native EXCEPT ![ref] = value] \in [Refs -> CookieValues \union {Nil}]
      BY <1>1, JarFields
    <2>2. /\ [j.native EXCEPT ![ref] = value][ref] = value
          /\ \A r \in Refs : r # ref => [j.native EXCEPT ![ref] = value][r] = j.native[r]
      BY <1>1, JarFields
    <2> DEFINE native == [j.native EXCEPT ![ref] = value]
    <2>3. open = [j EXCEPT !.native = native]
      BY <1>1 DEF Jar
    <2> HIDE DEF native, open
    <2>4. /\ open \in Jar /\ open.rows = j.rows /\ open.memory = j.memory /\ open.latest = j.latest
          /\ open.native = native /\ open.session = j.session
      BY <1>1, <2>1, <2>3 DEF Jar, native
    <2> QED
      BY <1>1, <2>2, <2>4 DEF PutInto, native
  <1>4. PutInto(j, shut, ref, value)
    <2>1. [j.session EXCEPT ![ref] = value] \in [Refs -> CookieValues \union {Nil}]
      BY <1>1, JarFields
    <2>2. /\ [j.session EXCEPT ![ref] = value][ref] = value
          /\ \A r \in Refs : r # ref => [j.session EXCEPT ![ref] = value][r] = j.session[r]
      BY <1>1, JarFields
    <2> DEFINE session == [j.session EXCEPT ![ref] = value]
    <2>3. shut = [j EXCEPT !.session = session]
      BY <1>1 DEF Jar
    <2> HIDE DEF session, shut
    <2>4. /\ shut \in Jar /\ shut.rows = j.rows /\ shut.memory = j.memory /\ shut.latest = j.latest
          /\ shut.session = session /\ shut.native = j.native
      BY <1>1, <2>1, <2>3 DEF Jar, session
    <2> QED
      BY <1>1, <2>2, <2>4 DEF PutInto, session
  <1> HIDE DEF open, shut
  <1> QED
    BY <1>1a, <1>3, <1>4

\* A row is written at the scope s, with a value v.
Rewrites(j, k, s, v, row) ==
  /\ k \in Jar /\ s \in Scopes /\ row \in CookieRow
  /\ k.rows = [j.rows EXCEPT ![s] = row] /\ k.latest = [j.latest EXCEPT ![s] = v]
  /\ row.expires = Nil <=> row.ref = Nil
  /\ row.ref # Nil => row.ref \in FreshRefs(j)
  /\ \A t \in Live(j) : t # s => j.rows[t].id # row.id
  /\ k.memory[row.id] \in {Nil, v} /\ \A i \in CookieIds : i # row.id => k.memory[i] = j.memory[i]
  /\ \A r \in Refs : r # row.ref => k.native[r] \in {j.native[r], Nil} /\ k.session[r] \in {j.session[r], Nil}
  /\ \A t \in Live(j) : t # s /\ j.rows[t].ref # Nil =>
       /\ k.native[j.rows[t].ref] = j.native[j.rows[t].ref]
       /\ k.session[j.rows[t].ref] = j.session[j.rows[t].ref]
  /\ row.ref # Nil => k.native[row.ref] \in {Nil, v} /\ k.session[row.ref] \in {Nil, v}

\* A jar is sound again once a row is written, with its value in place.
LEMMA RewritesLemma ==
  ASSUME NEW j, NEW k, NEW s, NEW v, NEW row, Reached(j), Rewrites(j, k, s, v, row)
  PROVE  /\ Reached(k) /\ Used(k) \subseteq Used(j) \union {row.ref}
         /\ UsedIds(k) \subseteq UsedIds(j) \union {row.id}
         /\ (row.ref # Nil /\ (s \in Live(j) => j.rows[s].ref \notin Stored(k))) =>
              Orphans(k) \subseteq Orphans(j)
  <1>1. /\ j \in Jar /\ k \in Jar /\ s \in Scopes /\ row \in CookieRow /\ row # Nil
        /\ row.id \in CookieIds /\ row.ref \in Refs \union {Nil}
    BY NilLemma DEF Reached, SoundJar, Rewrites, CookieRow
  <1>2. /\ k.rows[s] = row /\ k.latest[s] = v
        /\ \A t \in Scopes : t # s => k.rows[t] = j.rows[t] /\ k.latest[t] = j.latest[t]
    BY <1>1, JarFields DEF Rewrites
  <1>3. s \in Live(k) /\ \A t \in Live(k) : t # s => t \in Live(j)
    BY <1>1, <1>2 DEF Live
  <1>4. row.ref # Nil => row.ref \notin Referred(j) /\ row.ref \notin Stored(j) /\ row.ref \notin Used(jar)
    BY DEF Rewrites, FreshRefs, Used
  <1>5. row.ref # Nil => \A t \in Live(j) : j.rows[t].ref # row.ref
    BY <1>1, <1>4, ReferredLemma
  <1>6. \A t \in Live(k) : k.rows[t].id \in CookieIds /\ k.rows[t].ref \in Refs \union {Nil}
    BY <1>1, RowFields
  <1>7. ASSUME NEW x \in Live(k), NEW y \in Live(k), x # y
        PROVE  k.rows[x].id # k.rows[y].id /\ (k.rows[x].ref # Nil => k.rows[x].ref # k.rows[y].ref)
    <2>1. CASE x = s
      <3>1. y \in Live(j) /\ k.rows[y] = j.rows[y] /\ k.rows[x] = row
        BY <1>2, <1>3, <1>7, <2>1 DEF Live
      <3>2. j.rows[y].id # row.id
        BY <1>7, <2>1, <3>1 DEF Rewrites
      <3> QED
        BY <1>5, <3>1, <3>2
    <2>2. CASE y = s
      <3>1. x \in Live(j) /\ k.rows[x] = j.rows[x] /\ k.rows[y] = row
        BY <1>2, <1>3, <1>7, <2>2 DEF Live
      <3>2. j.rows[x].id # row.id
        BY <1>7, <2>2, <3>1 DEF Rewrites
      <3> QED
        BY <1>5, <3>1, <3>2
    <2>3. CASE x # s /\ y # s
      <3>1. x \in Live(j) /\ y \in Live(j) /\ k.rows[x] = j.rows[x] /\ k.rows[y] = j.rows[y]
        BY <1>2, <1>3, <2>3 DEF Live
      <3> QED
        BY <1>7, <3>1 DEF Reached, SoundJar
    <2> QED
      BY <2>1, <2>2, <2>3
  <1>8. ASSUME NEW t \in Live(k)
        PROVE  /\ k.rows[t].expires = Nil <=> k.rows[t].ref = Nil
               /\ k.memory[k.rows[t].id] \in {Nil, k.latest[t]}
               /\ k.rows[t].ref # Nil => /\ k.native[k.rows[t].ref] \in {Nil, k.latest[t]}
                                         /\ k.session[k.rows[t].ref] \in {Nil, k.latest[t]}
    <2>1. CASE t = s
      BY <1>2, <2>1 DEF Rewrites
    <2>2. CASE t # s
      <3>1. t \in Live(j) /\ k.rows[t] = j.rows[t] /\ k.latest[t] = j.latest[t]
        BY <1>2, <1>3, <2>2 DEF Live
      <3>2. /\ j.rows[t].expires = Nil <=> j.rows[t].ref = Nil
            /\ j.memory[j.rows[t].id] \in {Nil, j.latest[t]}
            /\ j.rows[t].ref # Nil => /\ j.native[j.rows[t].ref] \in {Nil, j.latest[t]}
                                      /\ j.session[j.rows[t].ref] \in {Nil, j.latest[t]}
        BY <3>1 DEF Reached, SoundJar
      <3>3. k.memory[j.rows[t].id] = j.memory[j.rows[t].id]
        BY <1>6, <2>2, <3>1 DEF Rewrites
      <3>4. j.rows[t].ref # Nil => /\ k.native[j.rows[t].ref] = j.native[j.rows[t].ref]
                                   /\ k.session[j.rows[t].ref] = j.session[j.rows[t].ref]
        BY <2>2, <3>1 DEF Rewrites
      <3> QED
        BY <3>1, <3>2, <3>3, <3>4
    <2> QED
      BY <2>1, <2>2
  <1>9. SoundJar(k)
    BY <1>1, <1>7, <1>8 DEF SoundJar
  <1>10. ASSUME NEW t \in Live(k), k.rows[t].ref \in Used(jar)
         PROVE  /\ jar.rows[t] # Nil /\ jar.rows[t].ref = k.rows[t].ref
                /\ k.native[k.rows[t].ref] = jar.native[k.rows[t].ref]
                /\ k.session[k.rows[t].ref] = jar.session[k.rows[t].ref]
    <2>0. Nil \notin Used(jar)
      BY NilLemma DEF Used, Stored, Referred
    <2>1. t # s
      BY <1>2, <1>4, <1>10, <2>0
    <2>2. t \in Live(j) /\ k.rows[t] = j.rows[t] /\ k.rows[t].ref # Nil
      BY <1>2, <1>3, <1>10, <2>0, <2>1 DEF Live
    <2>3. /\ k.native[j.rows[t].ref] = j.native[j.rows[t].ref]
          /\ k.session[j.rows[t].ref] = j.session[j.rows[t].ref]
      BY <2>1, <2>2 DEF Rewrites
    <2> QED
      BY <1>10, <2>2, <2>3 DEF Reached
  <1>11. \A r \in Stored(k) : r \in Stored(j) \/ r = row.ref
    BY DEF Stored, Rewrites
  <1>12. \A r \in Referred(k) : r \in Referred(j) \/ r = row.ref
    <2> SUFFICES ASSUME NEW r \in Referred(k), r # row.ref PROVE r \in Referred(j)
      OBVIOUS
    <2>1. PICK t \in Live(k) : k.rows[t].ref = r /\ r # Nil
      BY <1>1, ReferredLemma
    <2>2. t # s /\ t \in Live(j) /\ k.rows[t] = j.rows[t]
      BY <1>2, <1>3, <2>1 DEF Live
    <2> QED
      BY <1>1, <2>1, <2>2, ReferredLemma
  <1>13. Used(k) \subseteq Used(j) \union {row.ref}
    BY <1>11, <1>12 DEF Used
  <1>14. UsedIds(k) \subseteq UsedIds(j) \union {row.id}
    <2>1. \A t \in Live(k) : k.rows[t].id = row.id \/ (t \in Live(j) /\ k.rows[t].id = j.rows[t].id)
      BY <1>2, <1>3 DEF Live
    <2>2. \A i \in CookieIds : k.memory[i] # Nil => i = row.id \/ j.memory[i] # Nil
      BY DEF Rewrites
    <2> QED
      BY <2>1, <2>2 DEF UsedIds
  <1>15. ASSUME row.ref # Nil, s \in Live(j) => j.rows[s].ref \notin Stored(k), NEW r \in Orphans(k)
         PROVE  r \in Orphans(j)
    <2>1. r \in Stored(k) /\ r \notin Referred(k) /\ r \in Refs /\ r # Nil
      BY <1>15, NilLemma DEF Orphans, Stored
    <2>2. r # row.ref
      BY <1>1, <1>2, <1>3, <1>15, <2>1, ReferredLemma
    <2>3. ASSUME NEW t \in Live(j), j.rows[t].ref = r PROVE FALSE
      <3>1. t # s
        BY <1>15, <2>1, <2>3
      <3>2. t \in Live(k) /\ k.rows[t] = j.rows[t]
        BY <1>2, <3>1 DEF Live
      <3> QED
        BY <1>1, <2>1, <2>3, <3>2, ReferredLemma
    <2> QED
      BY <1>1, <1>11, <2>1, <2>2, <2>3, ReferredLemma DEF Orphans
  <1> QED
    BY <1>9, <1>10, <1>13, <1>14, <1>15 DEF Reached

\* A secret that is put but not yet referred to harms nothing.
LEMMA PutReached ==
  ASSUME NEW j, Reached(j), NEW ref \in FreshRefs(j), NEW value, NEW k, PutInto(j, k, ref, value)
  PROVE  Reached(k) /\ Used(k) \subseteq Used(j) \union {ref} /\ UsedIds(k) \subseteq UsedIds(j)
  <1>1. /\ j \in Jar /\ k \in Jar /\ k.rows = j.rows /\ k.memory = j.memory /\ k.latest = j.latest
        /\ Live(k) = Live(j) /\ ref \in Refs /\ ref \notin Referred(j) /\ ref # Nil
    BY NilLemma DEF Reached, SoundJar, PutInto, Live, FreshRefs, Used
  <1>2. \A s \in Live(j) : j.rows[s].ref \in Refs \union {Nil} /\ j.rows[s].ref # ref
    BY <1>1, RowFields, ReferredLemma
  <1>3. \A s \in Live(j) : j.rows[s].ref # Nil => /\ k.native[j.rows[s].ref] = j.native[j.rows[s].ref]
                                                  /\ k.session[j.rows[s].ref] = j.session[j.rows[s].ref]
    BY <1>2 DEF PutInto
  <1>4. SoundJar(k)
    <2>1. \A s \in Live(k) :
            /\ k.rows[s].expires = Nil <=> k.rows[s].ref = Nil
            /\ k.memory[k.rows[s].id] \in {Nil, k.latest[s]}
            /\ k.rows[s].ref # Nil => /\ k.native[k.rows[s].ref] \in {Nil, k.latest[s]}
                                      /\ k.session[k.rows[s].ref] \in {Nil, k.latest[s]}
      BY <1>1, <1>3 DEF Reached, SoundJar
    <2> QED
      BY <1>1, <2>1 DEF Reached, SoundJar
  <1>5. ASSUME NEW s \in Live(k), k.rows[s].ref \in Used(jar)
        PROVE  /\ jar.rows[s] # Nil /\ jar.rows[s].ref = k.rows[s].ref
               /\ k.native[k.rows[s].ref] = jar.native[k.rows[s].ref]
               /\ k.session[k.rows[s].ref] = jar.session[k.rows[s].ref]
    <2>1. k.rows[s].ref # Nil
      BY <1>5, NilLemma DEF Used, Stored, Referred
    <2> QED
      BY <1>1, <1>3, <1>5, <2>1 DEF Reached
  <1>6. \A r \in Stored(k) : r \in Stored(j) \/ r = ref
    BY DEF Stored, PutInto
  <1>7. Referred(k) = Referred(j) /\ UsedIds(k) = UsedIds(j)
    BY <1>1 DEF Referred, UsedIds
  <1> QED
    BY <1>4, <1>5, <1>6, <1>7 DEF Reached, Used

\* The row that a successful upsert writes.
RowAt(k, s, v, row) == [k EXCEPT !.rows[s] = row, !.latest[s] = v]

\* The fields of a jar with a row written.
LEMMA RowAtFields ==
  ASSUME NEW k \in Jar, NEW s \in Scopes, NEW v \in CookieValues, NEW row \in CookieRow
  PROVE  LET l == RowAt(k, s, v, row) IN
         /\ l \in Jar /\ l.rows = [k.rows EXCEPT ![s] = row] /\ l.latest = [k.latest EXCEPT ![s] = v]
         /\ l.memory = k.memory /\ l.native = k.native /\ l.session = k.session
  <1> DEFINE rows == [k.rows EXCEPT ![s] = row]
             latest == [k.latest EXCEPT ![s] = v]
             l == RowAt(k, s, v, row)
  <1>1. rows \in [Scopes -> CookieRow \union {Nil}] /\ latest \in [Scopes -> CookieValues \union {Nil}]
    BY JarFields
  <1>2. l = [k EXCEPT !.rows = rows, !.latest = latest]
    BY DEF RowAt, Jar
  <1> HIDE DEF rows, latest, l
  <1>3. /\ l \in Jar /\ l.rows = rows /\ l.latest = latest
        /\ l.memory = k.memory /\ l.native = k.native /\ l.session = k.session
    BY <1>1, <1>2 DEF Jar
  <1> QED
    BY <1>3 DEF rows, latest, l

\* What the row of a cookie that is stored becomes.
Upserted(k, p, draft, ref) ==
  \/ p.ok = FALSE /\ Shrinks(k, p.jar)
  \/ /\ p.ok = TRUE
     /\ \E row \in CookieRow :
          /\ p.jar = RowAt(k, draft.scope, draft.value, row)
          /\ row.expires = draft.expires /\ row.ref = ref
          /\ \A t \in Live(k) : t # draft.scope => k.rows[t].id # row.id

\* The row of a cookie goes, stays or is written.
LEMMA UpsertLemma ==
  ASSUME NEW k, SoundJar(k), NEW draft \in CookieDraft, NEW ref \in Refs \union {Nil},
         FreshIds(k) # {}, NEW p \in Upsert(k, draft, ref)
  PROVE  Upserted(k, p, draft, ref)
  <1> USE DEF Upserted
  <1> DEFINE s == draft.scope
             taken == \E other \in Live(k) : k.rows[other].id = draft.id
             id == IF k.rows[s] # Nil THEN k.rows[s].id
                   ELSE IF draft.id # Nil THEN draft.id ELSE Smallest(FreshIds(k))
             row == [id |-> id, expires |-> draft.expires, ref |-> ref]
             without == [k EXCEPT !.rows[s] = Nil]
  <1>0. /\ k \in Jar /\ s \in Scopes /\ draft.value \in CookieValues
        /\ draft.expires \in Expiries \union {Nil} /\ draft.id \in CookieIds \union {Nil}
    BY DEF SoundJar, CookieDraft
  <1>1. \/ p = Failed(k)
        \/ p = Failed(without)
        \/ ~(k.rows[s] = Nil /\ taken) /\ p = Done([k EXCEPT !.rows[s] = row, !.latest[s] = draft.value])
    BY Zenon DEF Upsert, Fails
  <1>2. CASE p = Failed(k)
    BY <1>0, <1>2, ShrinksSame DEF Failed
  <1>3. CASE p = Failed(without)
    <2>1. Shrinks(k, without)
      <3> DEFINE rows == [k.rows EXCEPT ![s] = Nil]
      <3>1. rows \in [Scopes -> CookieRow \union {Nil}] /\ \A t \in Scopes : rows[t] \in {k.rows[t], Nil}
        BY <1>0, JarFields
      <3>2. without = [k EXCEPT !.rows = rows]
        BY <1>0 DEF Jar
      <3> HIDE DEF rows, without
      <3>3. /\ without \in Jar /\ without.rows = rows /\ without.memory = k.memory
            /\ without.native = k.native /\ without.session = k.session /\ without.latest = k.latest
        BY <1>0, <3>1, <3>2 DEF Jar
      <3> QED
        BY <3>1, <3>3 DEF Shrinks
    <2> QED
      BY <1>3, <2>1 DEF Failed
  <1>4. CASE ~(k.rows[s] = Nil /\ taken) /\ p = Done([k EXCEPT !.rows[s] = row, !.latest[s] = draft.value])
    <2>1. FreshIds(k) \in SUBSET Nat /\ FreshIds(k) \subseteq CookieIds
      BY NilLemma DEF FreshIds, CookieIds
    <2>2. Smallest(FreshIds(k)) \in FreshIds(k)
      BY <2>1, SmallestLemma
    <2>3. id \in CookieIds /\ \A t \in Live(k) : t # s => k.rows[t].id # id
      <3>1. CASE k.rows[s] # Nil
        <4>1. s \in Live(k) /\ id = k.rows[s].id
          BY <1>0, <3>1 DEF Live
        <4> QED
          BY <1>0, <4>1, RowFields DEF SoundJar
      <3>2. CASE k.rows[s] = Nil /\ draft.id # Nil
        <4>1. id = draft.id /\ ~taken
          BY <1>4, <3>2
        <4> QED
          BY <1>0, <3>2, <4>1
      <3>3. CASE k.rows[s] = Nil /\ draft.id = Nil
        <4>1. id = Smallest(FreshIds(k))
          BY <3>3
        <4> HIDE DEF id
        <4> QED
          BY <2>1, <2>2, <4>1 DEF FreshIds
      <3> QED
        BY <3>1, <3>2, <3>3
    <2> HIDE DEF id
    <2>4. row \in CookieRow
      BY <1>0, <2>3 DEF CookieRow
    <2>5. p.ok = TRUE /\ p.jar = RowAt(k, s, draft.value, row)
      BY <1>4 DEF Done, RowAt
    <2>6. row.id = id /\ row.expires = draft.expires /\ row.ref = ref
      OBVIOUS
    <2> HIDE DEF row
    <2> QED
      BY <2>3, <2>4, <2>5, <2>6
  <1> HIDE DEF without, row, taken
  <1> QED
    BY <1>1, <1>2, <1>3, <1>4

\* The fields of a jar with a value in memory.
LEMMA MemoryFields ==
  ASSUME NEW l \in Jar, NEW i \in CookieIds, NEW v \in CookieValues \union {Nil}
  PROVE  LET m == [l EXCEPT !.memory[i] = v] IN
         /\ m \in Jar /\ m.rows = l.rows /\ m.latest = l.latest
         /\ m.native = l.native /\ m.session = l.session
         /\ m.memory[i] = v /\ \A h \in CookieIds : h # i => m.memory[h] = l.memory[h]
  <1> DEFINE memory == [l.memory EXCEPT ![i] = v]
             m == [l EXCEPT !.memory[i] = v]
  <1>1. memory \in [CookieIds -> CookieValues \union {Nil}]
    BY JarFields
  <1>2. memory[i] = v /\ \A h \in CookieIds : h # i => memory[h] = l.memory[h]
    BY JarFields
  <1>3. m = [l EXCEPT !.memory = memory]
    BY DEF Jar
  <1> HIDE DEF memory, m
  <1>4. /\ m \in Jar /\ m.rows = l.rows /\ m.latest = l.latest
        /\ m.native = l.native /\ m.session = l.session /\ m.memory = memory
    BY <1>1, <1>3 DEF Jar
  <1> QED
    BY <1>2, <1>4 DEF m

\* From the jar j, whose secret is written into k, to what Replace leaves.
LEMMA ReplaceLemma ==
  ASSUME NEW j, Reached(j), NEW k \in Jar, NEW s \in Scopes, NEW v \in CookieValues,
         NEW row \in CookieRow, row.expires = Nil <=> row.ref = Nil,
         \/ row.ref = Nil /\ k = j
         \/ row.ref \in FreshRefs(j) /\ PutInto(j, k, row.ref, v),
         \A t \in Live(k) : t # s => k.rows[t].id # row.id,
         NEW draft, draft.scope = s, draft.value = v,
         NEW q \in Replace(RowAt(k, s, v, row), draft, j.rows[s])
  PROVE  /\ Rewrites(j, q.jar, s, v, row) /\ q.ok \in BOOLEAN
         /\ q.ok /\ service = "open" /\ row.ref # Nil /\ s \in Live(j) =>
              j.rows[s].ref \notin Stored(q.jar)
  <1> DEFINE l == RowAt(k, s, v, row)
             old == j.rows[s]
             kept == IF row.ref = Nil THEN v ELSE Nil
             m == [l EXCEPT !.memory[row.id] = kept]
  <1>1. /\ j \in Jar /\ k.rows = j.rows /\ k.memory = j.memory /\ k.latest = j.latest /\ Live(k) = Live(j)
        /\ row.id \in CookieIds /\ row.ref \in Refs \union {Nil}
    BY DEF Reached, SoundJar, PutInto, Live, CookieRow
  <1>2. /\ l \in Jar /\ l.rows = [k.rows EXCEPT ![s] = row] /\ l.latest = [k.latest EXCEPT ![s] = v]
        /\ l.memory = k.memory /\ l.native = k.native /\ l.session = k.session /\ l.rows[s] = row
    BY <1>1, RowAtFields, JarFields
  <1>2a. q \in Replace(l, draft, old)
    OBVIOUS
  <1> HIDE DEF l
  <1>2b. q \in IF row.ref = Nil THEN {Done([l EXCEPT !.memory[row.id] = v])}
               ELSE IF old # Nil /\ old.ref # Nil
                    THEN Delete([l EXCEPT !.memory[row.id] = Nil], old.ref)
                    ELSE {Done([l EXCEPT !.memory[row.id] = Nil])}
    BY <1>2, <1>2a, Zenon DEF Replace
  <1>2c. kept \in {Nil, v} /\ (row.ref = Nil => kept = v) /\ (row.ref # Nil => kept = Nil)
    OBVIOUS
  <1> HIDE DEF kept
  <1>3. /\ m \in Jar /\ m.rows = l.rows /\ m.latest = l.latest
        /\ m.native = l.native /\ m.session = l.session
        /\ m.memory[row.id] \in {Nil, v} /\ \A h \in CookieIds : h # row.id => m.memory[h] = l.memory[h]
    <2>1. kept \in CookieValues \union {Nil}
      BY <1>2c
    <2>2. l \in Jar /\ row.id \in CookieIds
      BY <1>1, <1>2
    <2>3. /\ m \in Jar /\ m.rows = l.rows /\ m.latest = l.latest
          /\ m.native = l.native /\ m.session = l.session
          /\ m.memory[row.id] = kept /\ \A h \in CookieIds : h # row.id => m.memory[h] = l.memory[h]
      BY <2>1, <2>2, MemoryFields
    <2> QED
      BY <1>2c, <2>3
  <1>4. IF row.ref # Nil /\ old # Nil /\ old.ref # Nil THEN q \in Delete(m, old.ref) ELSE q = Done(m)
    BY <1>2b, <1>2c
  <1> HIDE DEF m
  <1>5. \/ q = Done(m) \/ q = Failed(m)
        \/ /\ row.ref # Nil /\ old # Nil /\ old.ref # Nil
           /\ q = Done(Forget(m, {old.ref}))
    BY <1>4 DEF Delete
  <1>6. /\ row.ref # Nil => row.ref \in FreshRefs(j) /\ row.ref \notin Used(j)
        /\ row.ref # Nil => k.native[row.ref] \in {Nil, v} /\ k.session[row.ref] \in {Nil, v}
        /\ \A r \in Refs : r # row.ref => k.native[r] = j.native[r] /\ k.session[r] = j.session[r]
    BY NilLemma DEF PutInto, FreshRefs
  <1>7. \A t \in Live(j) : /\ j.rows[t].ref \in Refs \union {Nil}
                           /\ row.ref # Nil => j.rows[t].ref # row.ref
    BY <1>1, <1>6, RowFields, ReferredLemma DEF Used
  <1>8. Rewrites(j, m, s, v, row)
    BY <1>1, <1>2, <1>3, <1>6, <1>7 DEF Rewrites
  <1>9. ASSUME row.ref # Nil, old # Nil, old.ref # Nil
        PROVE  /\ Rewrites(j, Forget(m, {old.ref}), s, v, row)
               /\ service = "open" => old.ref \notin Stored(Forget(m, {old.ref}))
    <2> DEFINE f == Forget(m, {old.ref})
    <2>1. /\ f \in Jar /\ f.rows = m.rows /\ f.memory = m.memory /\ f.latest = m.latest
          /\ \A r \in Refs : /\ f.native[r] = IF r \in {old.ref} /\ service # "gone" THEN Nil ELSE m.native[r]
                             /\ f.session[r] = IF r \in {old.ref} THEN Nil ELSE m.session[r]
      BY <1>3, ForgetLemma
    <2> HIDE DEF f
    <2>2. s \in Live(j) /\ old.ref \in Refs /\ old.ref # row.ref
      BY <1>7, <1>9 DEF Live
    <2>3. \A t \in Live(j) : t # s => j.rows[t].ref # old.ref
      BY <1>9, <2>2 DEF Reached, SoundJar
    <2>4. \A r \in Refs : r # row.ref => f.native[r] \in {j.native[r], Nil} /\ f.session[r] \in {j.session[r], Nil}
      BY <1>8, <2>1 DEF Rewrites
    <2>5. \A t \in Live(j) : t # s /\ j.rows[t].ref # Nil =>
            /\ f.native[j.rows[t].ref] = j.native[j.rows[t].ref]
            /\ f.session[j.rows[t].ref] = j.session[j.rows[t].ref]
      BY <1>7, <1>8, <2>1, <2>3 DEF Rewrites
    <2>6. row.ref # Nil => f.native[row.ref] \in {Nil, v} /\ f.session[row.ref] \in {Nil, v}
      BY <1>1, <1>8, <2>1 DEF Rewrites
    <2>7. Rewrites(j, f, s, v, row)
      BY <1>8, <2>1, <2>4, <2>5, <2>6 DEF Rewrites
    <2>8. service = "open" => old.ref \notin Stored(f)
      BY <2>1, <2>2 DEF Stored
    <2> QED
      BY <2>7, <2>8 DEF f
  <1>10. CASE q = Failed(m)
    BY <1>8, <1>10 DEF Failed
  <1>11. CASE /\ row.ref # Nil /\ old # Nil /\ old.ref # Nil
              /\ q = Done(Forget(m, {old.ref}))
    BY <1>9, <1>11 DEF Done
  <1>12. CASE q = Done(m)
    <2>1. CASE row.ref # Nil /\ old # Nil /\ old.ref # Nil
      <3>1. q \in Delete(m, old.ref)
        BY <1>4, <2>1
      <3>2. q = Failed(m) \/ q = Done(Forget(m, {old.ref}))
        BY <3>1 DEF Delete
      <3> QED
        BY <1>10, <1>11, <2>1, <3>2
    <2>2. CASE row.ref = Nil \/ old = Nil \/ old.ref = Nil
      <3>1. q.jar = m /\ q.ok = TRUE /\ Nil \notin Stored(m)
        BY <1>12, NilLemma DEF Done, Stored
      <3> QED
        BY <1>8, <2>2, <3>1 DEF Live
    <2> QED
      BY <2>1, <2>2
  <1> QED
    BY <1>5, <1>10, <1>11, <1>12

\* What one cookie that is stored leaves of a jar: it is as sound as before, at
\* most one reference and one id are new, and no secret is left behind.
StoredFrom(j, o, draft) ==
  /\ Reached(o.jar) /\ o.ok \in BOOLEAN
  /\ \E r : Used(o.jar) \subseteq Used(j) \union {r}
  /\ \E i : UsedIds(o.jar) \subseteq UsedIds(j) \union {i}
  /\ o.ok /\ service = "open" /\ draft.expires # Nil => Orphans(o.jar) \subseteq Orphans(j)

\* One cookie is stored as StoredFrom says, whatever fails on the way.
LEMMA StoresLemma ==
  ASSUME NEW j, Reached(j), NEW draft \in CookieDraft, FreshRefs(j) # {}, FreshIds(j) # {},
         NEW o \in Stores(j, draft)
  PROVE  StoredFrom(j, o, draft)
  <1> DEFINE s == draft.scope
             v == draft.value
             ref == IF draft.expires = Nil THEN Nil ELSE Smallest(FreshRefs(j))
             put == IF draft.expires = Nil THEN {Done(j)} ELSE Put(j, ref, v)
             puts == Fails("database", j) \union put
             written == AndThen(puts, LAMBDA k : Upsert(k, draft, ref))
             replaced == AndThen(written, LAMBDA k : Replace(k, draft, j.rows[s]))
  <1>1. o \in AndThen(replaced, Cleanup)
    BY DEF Stores
  <1>2. PICK q \in replaced : IF q.ok THEN o \in Cleanup(q.jar) ELSE o = q
    BY <1>1 DEF AndThen
  <1>3. PICK p \in written : IF p.ok THEN q \in Replace(p.jar, draft, j.rows[s]) ELSE q = p
    BY <1>2 DEF AndThen
  <1>4. PICK u \in puts : IF u.ok THEN p \in Upsert(u.jar, draft, ref) ELSE p = u
    BY <1>3 DEF AndThen
  <1>5. /\ s \in Scopes /\ v \in CookieValues /\ draft.expires \in Expiries \union {Nil}
        /\ SoundJar(j) /\ j \in Jar
    BY DEF CookieDraft, Reached, SoundJar
  <1>6. draft.expires # Nil => ref \in FreshRefs(j)
    <2>1. FreshRefs(j) \in SUBSET Nat
      BY NilLemma DEF FreshRefs, Refs
    <2>2. Smallest(FreshRefs(j)) \in FreshRefs(j)
      BY <2>1, SmallestLemma
    <2> QED
      BY <2>2
  <1>7. draft.expires = Nil => ref = Nil
    OBVIOUS
  <1>8. ref \in Refs \union {Nil} /\ (draft.expires = Nil <=> ref = Nil)
    BY <1>6, <1>7, NilLemma DEF FreshRefs
  <1>8a. \/ u = Failed(j)
         \/ draft.expires = Nil /\ u = Done(j)
         \/ draft.expires # Nil /\ u \in Put(j, ref, v)
    BY DEF Fails
  <1> HIDE DEF ref, put, puts, written, replaced
  <1>9. \/ u.ok = FALSE /\ u.jar = j
        \/ ref = Nil /\ u.ok /\ u.jar = j
        \/ ref \in FreshRefs(j) /\ u.ok /\ PutInto(j, u.jar, ref, v)
    <2>1. CASE u = Failed(j)
      BY <2>1 DEF Failed
    <2>2. CASE draft.expires = Nil /\ u = Done(j)
      BY <1>7, <2>2 DEF Done
    <2>3. CASE draft.expires # Nil /\ u \in Put(j, ref, v)
      BY <1>5, <1>6, <2>3, PutLemma
    <2> QED
      BY <1>8a, <2>1, <2>2, <2>3
  <1>10. CASE ~u.ok
    <2>1. o.ok = FALSE /\ o.jar = j
      BY <1>2, <1>3, <1>4, <1>9, <1>10
    <2> QED
      BY <2>1 DEF StoredFrom
  <1>11. CASE u.ok
    <2> DEFINE k == u.jar
    <2>1. \/ ref = Nil /\ k = j
          \/ ref \in FreshRefs(j) /\ PutInto(j, k, ref, v)
      BY <1>9, <1>11
    <2>2. /\ Reached(k) /\ Used(k) \subseteq Used(j) \union {ref} /\ UsedIds(k) \subseteq UsedIds(j)
          /\ k.rows = j.rows /\ k.memory = j.memory
      BY <2>1, PutReached DEF PutInto
    <2>3. FreshIds(k) # {}
      BY <2>2 DEF FreshIds, Live
    <2>4. p \in Upsert(k, draft, ref) /\ SoundJar(k)
      BY <1>4, <1>11, <2>2 DEF Reached
    <2>5. \/ p.ok = FALSE /\ Shrinks(k, p.jar)
          \/ /\ p.ok = TRUE
             /\ \E row \in CookieRow :
                  /\ p.jar = RowAt(k, s, v, row)
                  /\ row.expires = draft.expires /\ row.ref = ref
                  /\ \A t \in Live(k) : t # s => k.rows[t].id # row.id
      <3>1. draft \in CookieDraft /\ ref \in Refs \union {Nil}
        BY <1>8
      <3>2. SoundJar(k) /\ FreshIds(k) # {} /\ p \in Upsert(k, draft, ref)
        BY <2>3, <2>4
      <3> HIDE DEF k, s, v
      <3>3. Upserted(k, p, draft, ref)
        BY ONLY <3>1, <3>2, UpsertLemma
      <3> QED
        BY <3>3 DEF Upserted, s, v
    <2>6. CASE p.ok = FALSE /\ Shrinks(k, p.jar)
      <3>1. o = p /\ o.ok = FALSE
        BY <1>2, <1>3, <2>6
      <3>2. Reached(o.jar) /\ Used(o.jar) \subseteq Used(k) /\ UsedIds(o.jar) \subseteq UsedIds(k)
        BY <2>2, <2>6, <3>1, ShrinksLemma
      <3>3. UsedIds(o.jar) \subseteq UsedIds(j) \union {Nil} /\ Used(o.jar) \subseteq Used(j) \union {ref}
        BY <2>2, <3>2
      <3> QED
        BY <3>1, <3>2, <3>3 DEF StoredFrom
    <2>7. ASSUME p.ok = TRUE, NEW row \in CookieRow, p.jar = RowAt(k, s, v, row),
                 row.expires = draft.expires, row.ref = ref,
                 \A t \in Live(k) : t # s => k.rows[t].id # row.id
          PROVE  StoredFrom(j, o, draft)
      <3>1. q \in Replace(RowAt(k, s, v, row), draft, j.rows[s])
        BY <1>3, <2>7
      <3>2. k \in Jar /\ (row.expires = Nil <=> row.ref = Nil)
        BY <1>8, <2>4, <2>7 DEF SoundJar
      <3>3. \/ row.ref = Nil /\ k = j
            \/ row.ref \in FreshRefs(j) /\ PutInto(j, k, row.ref, v)
        BY <2>1, <2>7
      <3> HIDE DEF k
      <3>4. /\ Rewrites(j, q.jar, s, v, row) /\ q.ok \in BOOLEAN
            /\ q.ok /\ service = "open" /\ row.ref # Nil /\ s \in Live(j) =>
                 j.rows[s].ref \notin Stored(q.jar)
        BY <1>5, <2>7, <3>1, <3>2, <3>3, ReplaceLemma
      <3>5. /\ Reached(q.jar) /\ Used(q.jar) \subseteq Used(j) \union {row.ref}
            /\ UsedIds(q.jar) \subseteq UsedIds(j) \union {row.id}
            /\ (row.ref # Nil /\ (s \in Live(j) => j.rows[s].ref \notin Stored(q.jar))) =>
                 Orphans(q.jar) \subseteq Orphans(j)
        BY <3>4, RewritesLemma
      <3>6. draft.expires # Nil => row.ref # Nil
        BY <1>8, <2>7
      <3>7. CASE ~q.ok
        BY <1>2, <3>4, <3>5, <3>7 DEF StoredFrom
      <3>8. CASE q.ok
        <4>1. SoundJar(q.jar) /\ o \in Cleanup(q.jar)
          BY <1>2, <3>5, <3>8 DEF Reached
        <4>2. /\ Shrinks(q.jar, o.jar) /\ o.ok \in BOOLEAN
              /\ o.ok /\ service = "open" => Orphans(o.jar) \subseteq Orphans(q.jar)
          BY <4>1, CleanupLemma
        <4>3. /\ Reached(o.jar) /\ Used(o.jar) \subseteq Used(q.jar)
              /\ UsedIds(o.jar) \subseteq UsedIds(q.jar)
          BY <3>5, <4>2, ShrinksLemma
        <4>4. Used(o.jar) \subseteq Used(j) \union {row.ref} /\ UsedIds(o.jar) \subseteq UsedIds(j) \union {row.id}
          BY <3>5, <4>3
        <4>5. o.ok /\ service = "open" /\ draft.expires # Nil => Orphans(o.jar) \subseteq Orphans(j)
          BY <3>4, <3>5, <3>6, <3>8, <4>2
        <4> QED
          BY <4>2, <4>3, <4>4, <4>5 DEF StoredFrom
      <3> QED
        BY <3>7, <3>8
    <2> QED
      BY <2>5, <2>6, <2>7
  <1> QED
    BY <1>10, <1>11

\* The fold over the headers exists, although it is defined by recursion.
Fold(f, headers, m) ==
  f = [i \in 0..m |-> IF i = 0 THEN {Done(jar)} ELSE Received(f[i - 1], headers[i])]

\* The recursive function of Captured exists: there is no least length without one.
LEMMA FoldExists ==
  ASSUME NEW headers, NEW m \in Nat
  PROVE  \E f : Fold(f, headers, m)
  <1> DEFINE T == {n \in Nat : ~ \E f : Fold(f, headers, n)}
             first == Smallest(T)
  <1> SUFFICES ASSUME T # {} PROVE FALSE
    OBVIOUS
  <1>1. first \in T /\ \A n \in T : first <= n
    BY SmallestLemma
  <1>2. first \in Nat /\ ~ \E f : Fold(f, headers, first)
    BY <1>1
  <1> HIDE DEF first
  <1>3. CASE first = 0
    <2> DEFINE f == [i \in 0..0 |-> {Done(jar)}]
    <2>1. f = [i \in 0..0 |-> IF i = 0 THEN {Done(jar)} ELSE Received(f[i - 1], headers[i])]
      OBVIOUS
    <2> HIDE DEF f
    <2> QED
      BY <1>2, <1>3, <2>1 DEF Fold
  <1>4. CASE first # 0
    <2>1. first - 1 \in Nat /\ ~(first <= first - 1)
      BY <1>2, <1>4
    <2>2. first - 1 \notin T
      BY <1>1, <2>1
    <2>3. \E f : Fold(f, headers, first - 1)
      BY <2>1, <2>2
    <2>4. PICK f : Fold(f, headers, first - 1)
      BY <2>3
    <2> DEFINE g == [i \in 0..first |-> IF i = first THEN Received(f[first - 1], headers[first]) ELSE f[i]]
               body(i) == IF i = 0 THEN {Done(jar)} ELSE Received(g[i - 1], headers[i])
    <2>5. ASSUME NEW i \in 0..first PROVE g[i] = body(i)
      <3>1. CASE i = first
        <4>1. g[i] = Received(f[first - 1], headers[first]) /\ g[i - 1] = f[first - 1] /\ i # 0
          BY <1>2, <1>4, <3>1
        <4> HIDE DEF g
        <4> QED
          BY <3>1, <4>1
      <3>2. CASE i # first
        <4>1. i \in 0..(first - 1) /\ g[i] = f[i]
          BY <1>2, <3>2
        <4>2. f[i] = IF i = 0 THEN {Done(jar)} ELSE Received(f[i - 1], headers[i])
          BY <2>4, <4>1 DEF Fold
        <4>3. i # 0 => g[i - 1] = f[i - 1]
          BY <1>2, <4>1
        <4> HIDE DEF g
        <4> QED
          BY <4>1, <4>2, <4>3
      <3> QED
        BY <3>1, <3>2
    <2>6. g = [i \in 0..first |-> g[i]]
      OBVIOUS
    <2> HIDE DEF g
    <2>7. g = [i \in 0..first |-> body(i)]
      BY <2>5, <2>6
    <2>8. Fold(g, headers, first)
      BY <2>7 DEF Fold
    <2> QED
      BY <1>2, <2>8
  <1> QED
    BY <1>3, <1>4

\* So Captured is what that function says.
LEMMA CapturedIsFold ==
  ASSUME NEW headers, Len(headers) \in Nat
  PROVE  \E f : Fold(f, headers, Len(headers)) /\ Captured(headers) = f[Len(headers)]
  <1> DEFINE after == CHOOSE after : after =
               [i \in 0..Len(headers) |-> IF i = 0 THEN {Done(jar)} ELSE Received(after[i - 1], headers[i])]
  <1>1. \E f : Fold(f, headers, Len(headers))
    BY FoldExists
  <1>2. Fold(after, headers, Len(headers))
    BY <1>1 DEF Fold
  <1>3. Captured(headers) = after[Len(headers)]
    BY DEF Captured
  <1> HIDE DEF after
  <1> QED
    BY <1>2, <1>3

\* One more is used.
LEMMA GrowLemma ==
  ASSUME NEW U, NEW V, NEW W, NEW x, V \subseteq U \union {x}, NEW i \in Nat,
         IsFiniteSet(U \ W), Cardinality(U \ W) <= i
  PROVE  IsFiniteSet(V \ W) /\ Cardinality(V \ W) <= i + 1
  <1> DEFINE D == U \ W
             E == D \union {x}
  <1>1. IsFiniteSet(E) /\ Cardinality(E) <= i + 1
    <2> HIDE DEF D
    <2>1. Cardinality(D) \in Nat /\ IsFiniteSet(E)
          /\ (Cardinality(E) = Cardinality(D) \/ Cardinality(E) = Cardinality(D) + 1)
      <3>1. IsFiniteSet(D)
        BY DEF D
      <3> QED
        BY <3>1, FS_CardinalityType, FS_AddElement
    <2>2. Cardinality(D) <= i
      BY DEF D
    <2> HIDE DEF E
    <2> QED
      BY <2>1, <2>2
  <1>2. V \ W \subseteq E
    OBVIOUS
  <1> DEFINE F == V \ W
  <1> HIDE DEF E, F
  <1>3. F \subseteq E
    BY <1>2 DEF F
  <1>4. IsFiniteSet(F) /\ Cardinality(F) <= Cardinality(E) /\ Cardinality(F) \in Nat /\ Cardinality(E) \in Nat
    BY <1>1, <1>3, FS_Subset, FS_CardinalityType
  <1>5. Cardinality(F) <= i + 1
    BY <1>1, <1>4
  <1> QED
    BY <1>4, <1>5 DEF F

\* Of enough fresh ones some are left.
LEMMA RoomLemma ==
  ASSUME NEW F, NEW D, IsFiniteSet(F), IsFiniteSet(D), NEW n \in Nat, NEW i \in Nat, i < n,
         Cardinality(F) >= n, Cardinality(D) <= i
  PROVE  F \ D # {}
  <1> SUFFICES ASSUME F \subseteq D PROVE FALSE
    OBVIOUS
  <1>1. Cardinality(F) <= Cardinality(D) /\ Cardinality(F) \in Nat /\ Cardinality(D) \in Nat
    BY FS_Subset, FS_CardinalityType
  <1> QED
    BY <1>1

\* No more than i references and ids are new since the command began.
FewNew(j, i) ==
  /\ IsFiniteSet(Used(j) \ Used(jar)) /\ Cardinality(Used(j) \ Used(jar)) <= i
  /\ IsFiniteSet(UsedIds(j) \ UsedIds(jar)) /\ Cardinality(UsedIds(j) \ UsedIds(jar)) <= i

\* While fewer are new than a command has room for, one more is free.
LEMMA FreshLemma ==
  ASSUME NEW j, NEW n \in Nat, Room(n), NEW i \in Nat, i < n, FewNew(j, i)
  PROVE  FreshRefs(j) # {} /\ FreshIds(j) # {}
  <1>1. IsFiniteSet(Refs) /\ IsFiniteSet(CookieIds)
    <2>1. 1 \in Int /\ MaxSecrets \in Int /\ MaxCookies \in Int
      BY NilLemma
    <2> QED
      BY <2>1, FS_Interval DEF Refs, CookieIds
  <1>2. IsFiniteSet(FreshRefs(jar)) /\ IsFiniteSet(FreshIds(jar))
    <2>1. FreshRefs(jar) \subseteq Refs /\ FreshIds(jar) \subseteq CookieIds
      BY DEF FreshRefs, FreshIds
    <2> QED
      BY <1>1, <2>1, FS_Subset
  <1>3. /\ FreshRefs(jar) \ (Used(j) \ Used(jar)) \subseteq FreshRefs(j)
        /\ FreshIds(jar) \ (UsedIds(j) \ UsedIds(jar)) \subseteq FreshIds(j)
    BY DEF FreshRefs, FreshIds, UsedIds
  <1>4. FreshRefs(jar) \ (Used(j) \ Used(jar)) # {}
    <2>1. Cardinality(FreshRefs(jar)) >= n
      BY DEF Room
    <2>2. IsFiniteSet(Used(j) \ Used(jar)) /\ Cardinality(Used(j) \ Used(jar)) <= i
      BY DEF FewNew
    <2> QED
      BY <1>2, <2>1, <2>2, RoomLemma
  <1>5. FreshIds(jar) \ (UsedIds(j) \ UsedIds(jar)) # {}
    <2>1. Cardinality(FreshIds(jar)) >= n
      BY DEF Room
    <2>2. IsFiniteSet(UsedIds(j) \ UsedIds(jar)) /\ Cardinality(UsedIds(j) \ UsedIds(jar)) <= i
      BY DEF FewNew
    <2> QED
      BY <1>2, <2>1, <2>2, RoomLemma
  <1> QED
    BY <1>3, <1>4, <1>5

\* A command begins with a jar that is reached and nothing new.
LEMMA BeginsWithFewNew ==
  /\ FewNew(jar, 0)
  /\ SoundJar(jar) => Reached(jar)
  <1>1. Used(jar) \ Used(jar) = {} /\ UsedIds(jar) \ UsedIds(jar) = {}
    OBVIOUS
  <1>2. FewNew(jar, 0)
    BY <1>1, FS_EmptySet DEF FewNew
  <1>3. SoundJar(jar) => Reached(jar)
    BY DEF Reached, Live
  <1> QED
    BY <1>2, <1>3

\* What the first i headers of a response leave.
AfterHeaders(outcomes, headers, i) ==
  \A o \in outcomes :
    /\ Reached(o.jar) /\ o.ok \in BOOLEAN
    /\ o.ok => /\ FewNew(o.jar, i)
               /\ \A h \in 1..i : headers[h] # Malformed
               /\ service = "open" /\ (\A h \in 1..i : headers[h].expires # Nil) =>
                    Orphans(o.jar) \subseteq Orphans(jar)

\* One header after i - 1 of them.
LEMMA HeaderStep ==
  ASSUME NEW n \in Nat, Room(n), NEW headers \in [1..n -> Headers], NEW i \in 1..n,
         NEW outcomes, AfterHeaders(outcomes, headers, i - 1)
  PROVE  AfterHeaders(Received(outcomes, headers[i]), headers, i)
  <1> DEFINE h == headers[i]
  <1> SUFFICES ASSUME NEW o \in Received(outcomes, h)
               PROVE  /\ Reached(o.jar) /\ o.ok \in BOOLEAN
                      /\ o.ok => /\ FewNew(o.jar, i)
                                 /\ \A x \in 1..i : headers[x] # Malformed
                                 /\ service = "open" /\ (\A x \in 1..i : headers[x].expires # Nil) =>
                                      Orphans(o.jar) \subseteq Orphans(jar)
    BY DEF AfterHeaders
  <1>1. PICK p \in outcomes : IF p.ok THEN o \in IF h = Malformed THEN {Failed(p.jar)} ELSE Stores(p.jar, h)
                              ELSE o = p
    BY DEF Received, AndThen
  <1>2. Reached(p.jar) /\ p.ok \in BOOLEAN
    BY DEF AfterHeaders
  <1>3. CASE ~p.ok
    BY <1>1, <1>2, <1>3
  <1>4. CASE p.ok /\ h = Malformed
    <2>1. o.jar = p.jar /\ o.ok = FALSE
      BY <1>1, <1>4 DEF Failed
    <2> QED
      BY <1>2, <2>1
  <1>5. CASE p.ok /\ h # Malformed
    <2>1. o \in Stores(p.jar, h) /\ h \in CookieDraft
      BY <1>1, <1>5 DEF Headers
    <2>2. /\ FewNew(p.jar, i - 1)
          /\ \A x \in 1..(i - 1) : headers[x] # Malformed
          /\ service = "open" /\ (\A x \in 1..(i - 1) : headers[x].expires # Nil) =>
               Orphans(p.jar) \subseteq Orphans(jar)
      BY <1>5 DEF AfterHeaders
    <2>3. i - 1 \in Nat /\ i - 1 < n /\ (i - 1) + 1 = i
      OBVIOUS
    <2>4. FreshRefs(p.jar) # {} /\ FreshIds(p.jar) # {}
      BY <2>2, <2>3, FreshLemma
    <2>5. StoredFrom(p.jar, o, h)
      BY <1>2, <2>1, <2>4, StoresLemma
    <2>6. FewNew(o.jar, i)
      <3>1. PICK r : Used(o.jar) \subseteq Used(p.jar) \union {r}
        BY <2>5 DEF StoredFrom
      <3>2. PICK x : UsedIds(o.jar) \subseteq UsedIds(p.jar) \union {x}
        BY <2>5 DEF StoredFrom
      <3>3. IsFiniteSet(Used(o.jar) \ Used(jar)) /\ Cardinality(Used(o.jar) \ Used(jar)) <= (i - 1) + 1
        BY <2>2, <2>3, <3>1, GrowLemma DEF FewNew
      <3>4. IsFiniteSet(UsedIds(o.jar) \ UsedIds(jar)) /\ Cardinality(UsedIds(o.jar) \ UsedIds(jar)) <= (i - 1) + 1
        BY <2>2, <2>3, <3>2, GrowLemma DEF FewNew
      <3> QED
        BY <2>3, <3>3, <3>4 DEF FewNew
    <2>7. \A x \in 1..i : x \in 1..(i - 1) \/ x = i
      OBVIOUS
    <2>8. \A x \in 1..i : headers[x] # Malformed
      BY <1>5, <2>2, <2>7
    <2>9. ASSUME o.ok, service = "open", \A x \in 1..i : headers[x].expires # Nil
          PROVE  Orphans(o.jar) \subseteq Orphans(jar)
      <3>1. h.expires # Nil /\ \A x \in 1..(i - 1) : headers[x].expires # Nil
        BY <2>9
      <3>2. Orphans(o.jar) \subseteq Orphans(p.jar)
        BY <2>5, <2>9, <3>1 DEF StoredFrom
      <3> QED
        BY <2>2, <2>9, <3>1, <3>2
    <2> QED
      BY <2>5, <2>6, <2>8, <2>9 DEF StoredFrom
  <1> QED
    BY <1>3, <1>4, <1>5

\* Every header of a response: the first that leaves something else has one before.
LEMMA CapturedLemma ==
  ASSUME SoundJar(jar), NEW n \in Nat, Room(n), NEW headers \in [1..n -> Headers]
  PROVE  AfterHeaders(Captured(headers), headers, n)
  <1>1. Len(headers) = n
    OBVIOUS
  <1>2. \E f : Fold(f, headers, n) /\ Captured(headers) = f[n]
    BY <1>1, CapturedIsFold
  <1>3. PICK f : Fold(f, headers, n) /\ Captured(headers) = f[n]
    BY <1>2
  <1>4. /\ f[0] = {Done(jar)}
        /\ \A i \in 1..n : f[i] = Received(f[i - 1], headers[i])
    <2>1. f = [i \in 0..n |-> IF i = 0 THEN {Done(jar)} ELSE Received(f[i - 1], headers[i])]
      BY <1>3 DEF Fold
    <2>2. 0 \in 0..n /\ \A i \in 1..n : i \in 0..n /\ i # 0
      OBVIOUS
    <2>3. \A i \in 0..n : f[i] = IF i = 0 THEN {Done(jar)} ELSE Received(f[i - 1], headers[i])
      BY <2>1
    <2> QED
      BY <2>2, <2>3
  <1> DEFINE T == {i \in 0..n : ~AfterHeaders(f[i], headers, i)}
             first == Smallest(T)
  <1>5. AfterHeaders(f[0], headers, 0)
    <2>1. \A o \in f[0] : o.jar = jar /\ o.ok = TRUE
      BY <1>4 DEF Done
    <2>2. Reached(jar) /\ FewNew(jar, 0)
      BY BeginsWithFewNew
    <2>3. \A h \in 1..0 : FALSE
      OBVIOUS
    <2> SUFFICES ASSUME NEW o \in f[0]
                 PROVE  /\ Reached(o.jar) /\ o.ok \in BOOLEAN
                        /\ FewNew(o.jar, 0)
                        /\ \A h \in 1..0 : headers[h] # Malformed
                        /\ Orphans(o.jar) \subseteq Orphans(jar)
      BY DEF AfterHeaders
    <2>4. o.jar = jar /\ o.ok = TRUE
      BY <2>1
    <2> QED
      BY <2>2, <2>3, <2>4
  <1>6. T = {}
    <2> SUFFICES ASSUME T # {} PROVE FALSE
      OBVIOUS
    <2>0. T \in SUBSET Nat
      OBVIOUS
    <2>1. first \in T /\ \A i \in T : first <= i
      <3> HIDE DEF T
      <3> QED
        BY <2>0, SmallestLemma
    <2>2. first \in 0..n /\ ~AfterHeaders(f[first], headers, first)
      BY <2>1
    <2> HIDE DEF first
    <2>3. first # 0
      BY <1>5, <2>2
    <2>4. first \in 1..n /\ first - 1 \in 0..n /\ ~(first <= first - 1)
      BY <2>2, <2>3
    <2>5. AfterHeaders(f[first - 1], headers, first - 1)
      BY <2>1, <2>4
    <2>6. AfterHeaders(Received(f[first - 1], headers[first]), headers, first)
      BY <2>4, <2>5, HeaderStep
    <2> QED
      BY <1>4, <2>2, <2>4, <2>6
  <1>7. AfterHeaders(f[n], headers, n)
    BY <1>6
  <1> QED
    BY <1>3, <1>7

-----------------------------------------------------------------------------
\* The inductive invariant.
JarInv ==
  /\ SoundJar(jar)
  /\ service \in {"open", "locked", "gone"} /\ now \in 0..MaxTime
  /\ last \in [by : {"silent", "command"}, ok : BOOLEAN, session : BOOLEAN]

\* What a step keeps and what it promises.
Keeps ==
  \A s \in Live(jar) :
    LET row == jar.rows[s] IN
      jar'.rows[s] # Nil /\ jar'.rows[s].ref = row.ref /\ row.ref # Nil =>
        /\ jar'.native[row.ref] = jar.native[row.ref]
        /\ last' # Silent => jar'.session[row.ref] = jar.session[row.ref]
LeavesNoOrphans ==
  service = "open" /\ last'.ok /\ ~last'.session =>
    Stored(jar') \ Referred(jar') \subseteq Stored(jar) \ Referred(jar)
\* A step is good when it keeps the invariant and does what the cookies promise.
GoodStep == JarInv' /\ Keeps /\ LeavesNoOrphans

\* A command all of whose outcomes are reached.
LEMMA CommandStep ==
  ASSUME JarInv, NEW outcomes, NEW session \in BOOLEAN, Returns(outcomes, session),
         \A o \in outcomes : /\ Reached(o.jar) /\ o.ok \in BOOLEAN
                             /\ o.ok /\ service = "open" /\ ~session => Orphans(o.jar) \subseteq Orphans(jar)
  PROVE  GoodStep
  <1>1. PICK o \in outcomes : jar' = o.jar /\ last' = [by |-> "command", ok |-> o.ok, session |-> session]
    BY DEF Returns
  <1>2. UNCHANGED <<service, now>>
    BY DEF Returns
  <1>3. Reached(o.jar) /\ o.ok \in BOOLEAN
        /\ (o.ok /\ service = "open" /\ ~session => Orphans(o.jar) \subseteq Orphans(jar))
    OBVIOUS
  <1>4. SoundJar(jar)'
    <2>1. SoundJar(jar')
      BY <1>1, <1>3 DEF Reached
    <2> QED
      BY <2>1 DEF SoundJar, Live
  <1>5. last' \in [by : {"silent", "command"}, ok : BOOLEAN, session : BOOLEAN]
    BY <1>1, <1>3
  <1>6. JarInv'
    BY <1>2, <1>4, <1>5 DEF JarInv
  <1>7. ASSUME NEW s \in Live(jar), jar'.rows[s] # Nil, jar'.rows[s].ref = jar.rows[s].ref, jar.rows[s].ref # Nil
        PROVE  /\ jar'.native[jar.rows[s].ref] = jar.native[jar.rows[s].ref]
               /\ jar'.session[jar.rows[s].ref] = jar.session[jar.rows[s].ref]
    <2>1. s \in Live(o.jar) /\ o.jar.rows[s].ref = jar.rows[s].ref
      BY <1>1, <1>7 DEF Live
    <2>2. jar.rows[s].ref \in Used(jar)
      BY <1>7 DEF Used, Referred
    <2> QED
      BY <1>1, <1>3, <2>1, <2>2 DEF Reached
  <1>8. Keeps
    BY <1>7 DEF Keeps
  <1>9. LeavesNoOrphans
    BY <1>1, <1>3 DEF LeavesNoOrphans, Orphans
  <1> QED
    BY <1>6, <1>8, <1>9 DEF GoodStep

\* The outcomes of a command that takes rows away.
LEMMA CleanStep ==
  ASSUME SoundJar(jar), NEW scopes \in SUBSET Live(jar),
         NEW o \in Fails("database", jar) \union
               AndThen(Purge(Without(jar, scopes), {jar.rows[s] : s \in scopes}), Cleanup)
  PROVE  /\ Reached(o.jar) /\ o.ok \in BOOLEAN
         /\ o.ok /\ service = "open" => Orphans(o.jar) \subseteq Orphans(jar)
  <1>0. Reached(jar)
    BY BeginsWithFewNew
  <1>1. CASE o = Failed(jar)
    BY <1>0, <1>1 DEF Failed
  <1>2. CASE o \in AndThen(Purge(Without(jar, scopes), {jar.rows[s] : s \in scopes}), Cleanup)
    <2>1. PICK p \in Purge(Without(jar, scopes), {jar.rows[s] : s \in scopes}) :
            IF p.ok THEN o \in Cleanup(p.jar) ELSE o = p
      BY <1>2 DEF AndThen
    <2>2. /\ Shrinks(jar, p.jar) /\ p.ok \in BOOLEAN
          /\ p.ok /\ service = "open" => Orphans(p.jar) \subseteq Orphans(jar)
      BY PurgeLemma
    <2>3. Reached(p.jar)
      BY <1>0, <2>2, ShrinksLemma
    <2>4. CASE ~p.ok
      BY <2>1, <2>2, <2>3, <2>4
    <2>5. CASE p.ok
      <3>1. SoundJar(p.jar) /\ o \in Cleanup(p.jar)
        BY <2>1, <2>3, <2>5 DEF Reached
      <3>2. /\ Shrinks(p.jar, o.jar) /\ o.ok \in BOOLEAN
            /\ o.ok /\ service = "open" => Orphans(o.jar) \subseteq Orphans(p.jar)
        BY <3>1, CleanupLemma
      <3>3. Reached(o.jar)
        BY <2>3, <3>2, ShrinksLemma
      <3> QED
        BY <2>2, <2>5, <3>2, <3>3
    <2> QED
      BY <2>4, <2>5
  <1> QED
    BY <1>1, <1>2 DEF Fails

\* The jar stays as it is.
LEMMA JarStays ==
  ASSUME JarInv, jar' = jar, service' \in {"open", "locked", "gone"}, now' \in 0..MaxTime,
         last' \in [by : {"silent", "command"}, ok : BOOLEAN, session : BOOLEAN]
  PROVE  GoodStep
  <1>1. SoundJar(jar)'
    BY DEF JarInv, SoundJar, Live
  <1> QED
    BY <1>1 DEF GoodStep, JarInv, Keeps, LeavesNoOrphans, Stored, Referred, Live

\* One lemma for each command: storing a cookie,
LEMMA UpsertStep ==
  ASSUME JarInv, NEW draft \in PanelDrafts, UpsertCookie(draft)
  PROVE  GoodStep
  <1>1. draft \in CookieDraft /\ Reached(jar) /\ FewNew(jar, 0)
    BY BeginsWithFewNew DEF PanelDrafts, JarInv
  <1>2. FreshRefs(jar) # {} /\ FreshIds(jar) # {}
    BY <1>1, FreshLemma DEF UpsertCookie
  <1>3. \A o \in Stores(jar, draft) : StoredFrom(jar, o, draft)
    BY <1>1, <1>2, StoresLemma
  <1>4. Returns(Stores(jar, draft), draft.expires = Nil) /\ (draft.expires = Nil) \in BOOLEAN
    BY DEF UpsertCookie
  <1> QED
    BY <1>3, <1>4, CommandStep DEF StoredFrom

\* ... those of a response,
LEMMA CaptureStep ==
  ASSUME JarInv, NEW n \in Nat, NEW headers \in [1..n -> Headers], Capture(headers)
  PROVE  GoodStep
  <1> DEFINE session == \E i \in DOMAIN headers : headers[i] # Malformed /\ headers[i].expires = Nil
  <1>1. Len(headers) = n /\ DOMAIN headers = 1..n
    OBVIOUS
  <1>2. Room(n) /\ Returns(Captured(headers), session) /\ session \in BOOLEAN
    BY <1>1 DEF Capture
  <1>3. AfterHeaders(Captured(headers), headers, n)
    BY <1>2, CapturedLemma DEF JarInv
  <1>4. ASSUME NEW o \in Captured(headers)
        PROVE  /\ Reached(o.jar) /\ o.ok \in BOOLEAN
               /\ o.ok /\ service = "open" /\ ~session => Orphans(o.jar) \subseteq Orphans(jar)
    <2>1. /\ Reached(o.jar) /\ o.ok \in BOOLEAN
          /\ o.ok => /\ \A h \in 1..n : headers[h] # Malformed
                     /\ service = "open" /\ (\A h \in 1..n : headers[h].expires # Nil) =>
                          Orphans(o.jar) \subseteq Orphans(jar)
      BY <1>3 DEF AfterHeaders
    <2>2. (\A h \in 1..n : headers[h] # Malformed) /\ ~session => \A h \in 1..n : headers[h].expires # Nil
      BY <1>1
    <2> HIDE DEF session
    <2> QED
      BY <2>1, <2>2
  <1> HIDE DEF session
  <1> QED
    BY <1>2, <1>4, CommandStep

\* ... deleting a cookie,
LEMMA DeleteStep ==
  ASSUME JarInv, NEW id \in CookieIds, DeleteCookie(id)
  PROVE  GoodStep
  <1> DEFINE found == {s \in Live(jar) : jar.rows[s].id = id}
             outcomes == IF found = {} THEN {Failed(jar)}
                         ELSE Fails("database", jar) \union
                              AndThen(Purge(Without(jar, found), {jar.rows[s] : s \in found}), Cleanup)
  <1>1. Returns(outcomes, FALSE)
    BY DEF DeleteCookie
  <1>2. ASSUME NEW o \in outcomes
        PROVE  /\ Reached(o.jar) /\ o.ok \in BOOLEAN
               /\ o.ok /\ service = "open" => Orphans(o.jar) \subseteq Orphans(jar)
    <2>1. CASE found = {}
      <3>1. o.jar = jar /\ o.ok = FALSE
        BY <2>1 DEF Failed
      <3> QED
        BY <3>1, BeginsWithFewNew DEF JarInv
    <2>2. CASE found # {}
      BY <2>2, CleanStep DEF JarInv
    <2> QED
      BY <2>1, <2>2
  <1> HIDE DEF outcomes
  <1> QED
    BY <1>1, <1>2, CommandStep

\* ... deleting them all,
LEMMA ClearStep ==
  ASSUME JarInv, ClearCookies
  PROVE  GoodStep
  <1> DEFINE outcomes == Fails("database", jar) \union
               AndThen(Purge(Without(jar, Live(jar)), {jar.rows[s] : s \in Live(jar)}), Cleanup)
  <1>1. Returns(outcomes, FALSE)
    BY DEF ClearCookies
  <1>2. \A o \in outcomes : /\ Reached(o.jar) /\ o.ok \in BOOLEAN
                            /\ o.ok /\ service = "open" => Orphans(o.jar) \subseteq Orphans(jar)
    BY CleanStep DEF JarInv
  <1> HIDE DEF outcomes
  <1> QED
    BY <1>1, <1>2, CommandStep

\* ... and reading them.
LEMMA ListStep ==
  ASSUME JarInv, ListCookies
  PROVE  GoodStep
  <1>1. Reached(jar)
    BY BeginsWithFewNew DEF JarInv
  <1>2. \A o \in Cleanup(jar) : /\ Reached(o.jar) /\ o.ok \in BOOLEAN
                                /\ o.ok /\ service = "open" => Orphans(o.jar) \subseteq Orphans(jar)
    BY <1>1, CleanupLemma, ShrinksLemma DEF JarInv
  <1>3. Returns(Cleanup(jar), FALSE)
    BY DEF ListCookies
  <1> QED
    BY <1>2, <1>3, CommandStep

\* A restart takes the session cookies, and with the session store every
\* reference to it that is left.
LEMMA RestartStep ==
  ASSUME JarInv, JarRestart
  PROVE  GoodStep
  <1> DEFINE rows == [s \in Scopes |-> IF s \in Live(jar) /\ jar.rows[s].expires = Nil THEN Nil ELSE jar.rows[s]]
             memory == [i \in CookieIds |-> Nil]
             session == [r \in Refs |-> Nil]
  <1>1. jar \in Jar /\ SoundJar(jar)
    BY DEF JarInv, SoundJar
  <1>2. jar' = [jar EXCEPT !.rows = rows, !.memory = memory, !.session = session]
    BY <1>1, JarFields DEF JarRestart
  <1>3. /\ rows \in [Scopes -> CookieRow \union {Nil}]
        /\ memory \in [CookieIds -> CookieValues \union {Nil}]
        /\ session \in [Refs -> CookieValues \union {Nil}]
    BY <1>1, JarFields
  <1>4. \A s \in Scopes : rows[s] # Nil => rows[s] = jar.rows[s] /\ jar.rows[s] # Nil /\ jar.rows[s].expires # Nil
    BY DEF Live
  <1>5. (\A i \in CookieIds : memory[i] = Nil) /\ (\A r \in Refs : session[r] = Nil)
    OBVIOUS
  <1> HIDE DEF rows, memory, session
  <1>6. /\ jar' \in Jar /\ jar'.rows = rows /\ jar'.memory = memory
        /\ jar'.native = jar.native /\ jar'.session = session /\ jar'.latest = jar.latest
    BY <1>1, <1>2, <1>3 DEF Jar
  <1>7. \A s \in Live(jar') : s \in Live(jar) /\ jar'.rows[s] = jar.rows[s] /\ jar.rows[s].expires # Nil
    BY <1>4, <1>6 DEF Live
  <1>8. SoundJar(jar')
    <2>1. \A s \in Live(jar') : /\ jar'.rows[s].id \in CookieIds
                                /\ jar'.rows[s].ref \in Refs \union {Nil}
      BY <1>6, RowFields
    <2>2. \A s, t \in Live(jar') : s # t => jar'.rows[s].id # jar'.rows[t].id
      BY <1>1, <1>7 DEF SoundJar
    <2>3. \A s, t \in Live(jar') : s # t /\ jar'.rows[s].ref # Nil => jar'.rows[s].ref # jar'.rows[t].ref
      BY <1>1, <1>7 DEF SoundJar
    <2>4. ASSUME NEW s \in Live(jar')
          PROVE  /\ jar'.rows[s].expires = Nil <=> jar'.rows[s].ref = Nil
                 /\ jar'.memory[jar'.rows[s].id] \in {Nil, jar'.latest[s]}
                 /\ jar'.rows[s].ref # Nil => /\ jar'.native[jar'.rows[s].ref] \in {Nil, jar'.latest[s]}
                                              /\ jar'.session[jar'.rows[s].ref] \in {Nil, jar'.latest[s]}
      BY <1>1, <1>5, <1>6, <1>7, <2>1 DEF SoundJar
    <2> QED
      BY <1>6, <2>2, <2>3, <2>4 DEF SoundJar
  <1>9. SoundJar(jar)'
    BY <1>8 DEF SoundJar, Live
  <1>10. JarInv'
    BY <1>9 DEF JarInv, JarRestart, Silent
  <1>11. Keeps
    BY <1>6 DEF Keeps, JarRestart
  <1>12. LeavesNoOrphans
    <2>1. \A r \in Refs : jar'.native[r] # Nil \/ jar'.session[r] # Nil => jar.native[r] # Nil
      BY <1>5, <1>6
    <2>2. ASSUME NEW r \in Stored(jar'), r \in Referred(jar)
          PROVE  r \in Referred(jar')
      <3>1. PICK s \in Live(jar) : jar.rows[s].ref = r /\ r # Nil
        BY <2>2 DEF Referred
      <3>2. jar.rows[s].expires # Nil /\ s \in Scopes /\ jar.rows[s] # Nil
        BY <1>1, <3>1, RowFields DEF SoundJar, Live
      <3>3. jar'.rows[s] = jar.rows[s]
        BY <1>6, <3>2 DEF rows
      <3> QED
        BY <3>1, <3>2, <3>3 DEF Referred, Live
    <2>3. Stored(jar') \subseteq Stored(jar)
      BY <2>1 DEF Stored
    <2> QED
      BY <2>2, <2>3 DEF LeavesNoOrphans
  <1> QED
    BY <1>10, <1>11, <1>12 DEF GoodStep

\* What the invariant says of the values.
LEMMA ValuesLemma ==
  ASSUME JarInv
  PROVE  JarTypeOK /\ ValuesAreCurrent
  <1>1. JarTypeOK
    BY DEF JarInv, JarTypeOK, SoundJar
  <1>2. ASSUME NEW s \in Live(jar)
        PROVE  CookieValue(jar.rows[s]) \in {Nil, jar.latest[s]}
    BY DEF CookieValue, JarInv, SoundJar
  <1> QED
    BY <1>1, <1>2 DEF ValuesAreCurrent

\* A jar begins empty.
LEMMA JarBegins ==
  ASSUME JarInit
  PROVE  JarInv
  <1>1. jar \in Jar
    BY DEF JarInit, Jar
  <1>2. Live(jar) = {}
    BY DEF JarInit, Live
  <1>3. SoundJar(jar)
    BY <1>1, <1>2 DEF SoundJar
  <1>4. 0 \in 0..MaxTime
    BY BoundsAssumption
  <1> QED
    BY <1>3, <1>4 DEF JarInit, JarInv, Silent

\* The cookies keep their promise (CookieJar: upsert_cookie,
\* capture_set_cookie_headers, delete_cookie, clear_cookies and the cleanup that
\* every command ends in): whatever fails on the way, a cookie has the value last
\* stored for it or none, no secret that a row refers to is taken away, and a
\* command that succeeds leaves no secret that no row refers to.
THEOREM CookiesKeepTheirPromise == JarSpec => CookiesCorrect
  <1> DEFINE SecretsStay ==
        \A s \in Live(jar) :
          LET row == jar.rows[s] IN
            jar'.rows[s] # Nil /\ jar'.rows[s].ref = row.ref /\ row.ref # Nil =>
              /\ jar'.native[row.ref] = jar.native[row.ref]
              /\ last' # Silent => jar'.session[row.ref] = jar.session[row.ref]
             NoOrphans ==
        service = "open" /\ last'.ok /\ ~last'.session =>
          Stored(jar') \ Referred(jar') \subseteq Stored(jar) \ Referred(jar)
  <1>1. JarInit => JarInv
    BY JarBegins
  <1>2. ASSUME JarInv, [JarNext]_jarVars
        PROVE  JarInv' /\ (UNCHANGED jarVars \/ (Keeps /\ LeavesNoOrphans))
    <2>1. ASSUME NEW draft \in PanelDrafts, UpsertCookie(draft) PROVE GoodStep
      BY <1>2, <2>1, UpsertStep
    <2>2. ASSUME NEW n \in 1..MaxHeaders, NEW headers \in [1..n -> Headers], Capture(headers) PROVE GoodStep
      <3>1. n \in Nat
        BY BoundsAssumption
      <3> QED
        BY <1>2, <2>2, <3>1, CaptureStep
    <2>3. ASSUME NEW id \in CookieIds, DeleteCookie(id) PROVE GoodStep
      BY <1>2, <2>3, DeleteStep
    <2>4. ASSUME ClearCookies PROVE GoodStep
      BY <1>2, <2>4, ClearStep
    <2>5. ASSUME ListCookies PROVE GoodStep
      BY <1>2, <2>5, ListStep
    <2>6. ASSUME JarRestart PROVE GoodStep
      BY <1>2, <2>6, RestartStep
    <2>7. ASSUME JarTick PROVE GoodStep
      <3>1. now + 1 \in 0..MaxTime
        BY <1>2, <2>7, BoundsAssumption DEF JarInv, JarTick
      <3> QED
        BY <1>2, <2>7, <3>1, JarStays DEF JarInv, JarTick, Silent
    <2>8. ASSUME ServiceChanges PROVE GoodStep
      BY <1>2, <2>8, JarStays DEF JarInv, ServiceChanges, Silent
    <2>9. ASSUME UNCHANGED jarVars PROVE JarInv'
      BY <1>2, <2>9 DEF jarVars, JarInv, SoundJar, Live
    <2> QED
      BY <1>2, <2>1, <2>2, <2>3, <2>4, <2>5, <2>6, <2>7, <2>8, <2>9 DEF JarNext, GoodStep
  <1>3. JarInv /\ [JarNext]_jarVars => JarInv' /\ [SecretsStay]_jarVars /\ [NoOrphans]_jarVars
    BY <1>2 DEF Keeps, LeavesNoOrphans
  <1>4. JarInv => JarTypeOK /\ ValuesAreCurrent
    BY ValuesLemma
  <1>5. JarSpec => [](JarTypeOK /\ ValuesAreCurrent) /\ [][SecretsStay]_jarVars /\ [][NoOrphans]_jarVars
    BY <1>1, <1>3, <1>4, PTL DEF JarSpec
  <1> QED
    BY <1>5 DEF CookiesCorrect, ReferredSecretsStay, SuccessLeavesNoOrphans

=============================================================================
