---------------------------- MODULE WorkspaceData ----------------------------
(***************************************************************************)
(* Workspaces and their environments, of which one each is selected:       *)
(* WorkspaceService (src-tauri/src/application/workspace.rs) and the       *)
(* tables workspaces, workspace_state, environments and                    *)
(* selected_environments of infrastructure/sqlite, with what their foreign *)
(* keys forbid and take along.                                             *)
(*                                                                         *)
(* Names, which have to be unique, and base directories are left out; the  *)
(* secrets that go with a workspace or an environment are in               *)
(* EnvironmentSecrets.                                                     *)
(***************************************************************************)
EXTENDS Integers, SequencesExt

CONSTANTS
  SpaceIds,       \* ids of workspaces
  EnvIds,         \* ids of environments
  NotThere,       \* no row, no environment
  MaxEnvPosition  \* bound: positions of environments

ASSUME NotThereAssumption == NotThere \notin SpaceIds \union EnvIds
ASSUME SpaceIdsAssumption == SpaceIds # {} /\ SpaceIds \intersect EnvIds = {}
ASSUME MaxEnvPositionAssumption == MaxEnvPosition \in Nat

EnvRow == [of : SpaceIds, position : 0..MaxEnvPosition]
ASSUME EnvRowAssumption == NotThere \notin EnvRow

VARIABLES
  spaceList,   \* table workspaces, in the order of created_at and id
  current,     \* table workspace_state
  envRows,     \* table environments: the workspace and the position of each
  picked       \* table selected_environments, by workspace

spaceVars == <<spaceList, current, envRows, picked>>

IsSpace(w) == w \in ToSet(spaceList)
EnvironmentsOf(w) == {e \in EnvIds : envRows[e] # NotThere /\ envRows[e].of = w}

\* initialize, for a new database.
SpacesInit ==
  /\ current = CHOOSE w \in SpaceIds : TRUE
  /\ spaceList = <<current>>
  /\ envRows = [e \in EnvIds |-> NotThere]
  /\ picked = [w \in SpaceIds |-> NotThere]

-----------------------------------------------------------------------------
(* Workspaces *)

\* create_workspace, which selects it.  The clock may have been set back, so it
\* can come anywhere in the list.
CreateSpace(w) ==
  /\ ~IsSpace(w)
  /\ \E i \in 1..(Len(spaceList) + 1) : spaceList' = InsertAt(spaceList, i, w)
  /\ current' = w
  /\ UNCHANGED <<envRows, picked>>

SwitchSpace(w) ==
  /\ IsSpace(w)
  /\ current' = w
  /\ UNCHANGED <<spaceList, envRows, picked>>

Others(w) == RemoveAt(spaceList, CHOOSE i \in DOMAIN spaceList : spaceList[i] = w)

\* The first of the others, if the selected workspace is deleted.
Replacement(w) == IF current = w THEN Head(Others(w)) ELSE current

\* Mutant: the selections of all workspaces go with one.
CascadedWidely(w, rows) ==
  [x \in DOMAIN rows |-> IF x \in EnvironmentsOf(w) \union SpaceIds THEN NotThere ELSE rows[x]]

\* ON DELETE CASCADE of environments and of selected_environments.
Cascaded(w, rows) == [x \in DOMAIN rows |-> IF x \in EnvironmentsOf(w) \union {w} THEN NotThere ELSE rows[x]]

\* delete_workspace; workspace_state RESTRICTs the row that it refers to.
DeleteSpace(w) ==
  /\ IsSpace(w) /\ Len(spaceList) > 1
  /\ current' = Replacement(w) /\ current' # w
  /\ spaceList' = Others(w)
  /\ envRows' = Cascaded(w, envRows) /\ picked' = Cascaded(w, picked)

-----------------------------------------------------------------------------
(* Environments *)

NextEnvPosition(w) == Max({envRows[e].position : e \in EnvironmentsOf(w)} \union {-1}) + 1

\* create_environment, which selects it.
CreateEnvironment(w, e) ==
  /\ IsSpace(w) /\ envRows[e] = NotThere /\ NextEnvPosition(w) <= MaxEnvPosition
  /\ envRows' = [envRows EXCEPT ![e] = [of |-> w, position |-> NextEnvPosition(w)]]
  /\ picked' = [picked EXCEPT ![w] = e]
  /\ UNCHANGED <<spaceList, current>>

\* ensure_environment_in_workspace.
MayPick(w, e) == e = NotThere \/ e \in EnvironmentsOf(w)

SelectEnvironment(w, e) ==
  /\ IsSpace(w) /\ MayPick(w, e)
  /\ picked' = [picked EXCEPT ![w] = e]
  /\ UNCHANGED <<spaceList, current, envRows>>

\* delete_environment.  Its key of two columns is SET NULL in the selection, the
\* workspace included, so that the row is nobody's from then on.
RemoveEnvironment(w, e) ==
  /\ IsSpace(w) /\ e \in EnvironmentsOf(w)
  /\ envRows' = [envRows EXCEPT ![e] = NotThere]
  /\ picked' = [v \in SpaceIds |-> IF picked[v] = e THEN NotThere ELSE picked[v]]
  /\ UNCHANGED <<spaceList, current>>

SpacesNext ==
  \E w \in SpaceIds :
    \/ CreateSpace(w) \/ SwitchSpace(w) \/ DeleteSpace(w)
    \/ \E e \in EnvIds : CreateEnvironment(w, e) \/ RemoveEnvironment(w, e)
    \/ \E e \in EnvIds \union {NotThere} : SelectEnvironment(w, e)

SpacesSpec == SpacesInit /\ [][SpacesNext]_spaceVars

-----------------------------------------------------------------------------
(* Properties *)

\* Every variable has its type; the selected workspace is in the list.
SpacesTypeOK ==
  /\ spaceList \in Seq(SpaceIds) /\ IsInjective(spaceList)
  /\ current \in ToSet(spaceList)
  /\ envRows \in [EnvIds -> EnvRow \union {NotThere}]
  /\ picked \in [SpaceIds -> EnvIds \union {NotThere}]

\* Environments are of workspaces that are there, and a workspace has selected
\* none but its own: also after a workspace was deleted while another one is
\* selected, and an environment of which it was the selection.
SelectionsAreOwn ==
  /\ \A e \in EnvIds : envRows[e] # NotThere => IsSpace(envRows[e].of)
  /\ \A w \in SpaceIds : picked[w] # NotThere => picked[w] \in EnvironmentsOf(w)

\* Whatever was deleted before, the environments of a workspace have an order,
\* in which load_environments shows them.
EnvironmentsHaveAnOrder ==
  \A w \in SpaceIds : \A e, f \in EnvironmentsOf(w) : e # f => envRows[e].position # envRows[f].position

\* Any workspace can be deleted but the last one, the selected one included: what
\* is selected then is another one that is there, so no foreign key forbids it.
AllButTheLastCanGo ==
  \A w \in ToSet(spaceList) : Len(spaceList) > 1 => Replacement(w) \in ToSet(spaceList) \ {w}

\* What a workspace has selected stays as it is when another one is changed,
\* deleted or selected.
Held(w) == <<picked[w], [e \in EnvironmentsOf(w) |-> envRows[e]]>>
OthersAreLeftAlone ==
  [][\A w, v \in ToSet(spaceList) : w # v /\ w \in ToSet(spaceList') /\ v \in ToSet(spaceList') =>
       /\ Held(w)' = Held(w) \/ Held(v)' = Held(v)
       /\ spaceList' # spaceList \/ current' # current => Held(w)' = Held(w)]_spaceVars

\* What workspaces promise: something is always selected, of their own, and they
\* leave each other alone.
SpacesCorrect ==
  /\ [](SpacesTypeOK /\ SelectionsAreOwn /\ EnvironmentsHaveAnOrder /\ AllButTheLastCanGo)
  /\ OthersAreLeftAlone

=============================================================================
