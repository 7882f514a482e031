--------------------------- MODULE CollectionTree ---------------------------
(***************************************************************************)
(* Folders and saved requests of a workspace as the tables collections and *)
(* saved_requests hold them: a parent and a position in each row           *)
(* (src-tauri/src/infrastructure/sqlite/repository).  A command is one     *)
(* transaction: it makes room for a row, writes it, and numbers the rows   *)
(* of every folder anew.                                                   *)
(***************************************************************************)
EXTENDS Integers, Sequences, FiniteSets

CONSTANTS
  Folders,      \* ids of folders
  Requests,     \* ids of saved requests
  Root,         \* the parent NULL
  Absent,       \* the parent of an id that no row has
  MaxPosition   \* bound: positions asked for

ASSUME RootAssumption == Root \notin Folders \union {Absent} /\ Absent \notin Folders
ASSUME MaxPositionAssumption == MaxPosition \in Nat
ASSUME FiniteAssumption == IsFiniteSet(Folders) /\ IsFiniteSet(Requests)

VARIABLES
  folderRows,   \* table collections: parent and position of each id
  requestRows,  \* table saved_requests
  openTabs      \* saved requests with a tab or a draft

treeVars == <<folderRows, requestRows, openTabs>>

Parents == Folders \union {Root}
NoRow == [parent |-> Absent, position |-> 0]

Rows(table) == {x \in DOMAIN table : table[x].parent # Absent}
RowsIn(table, p) == {x \in DOMAIN table : table[x].parent = p}
Known(p) == p = Root \/ p \in Rows(folderRows)

TreeInit ==
  /\ folderRows = [f \in Folders |-> NoRow]
  /\ requestRows = [r \in Requests |-> NoRow]
  /\ openTabs = {}

-----------------------------------------------------------------------------
(* Positions: the same for both tables *)

\* Every row that is at one of the positions in a folder moves by a step.
Shift(table, p, positions, by) ==
  [x \in DOMAIN table |->
     IF table[x].parent = p /\ table[x].position \in positions
     THEN [table[x] EXCEPT !.position = @ + by] ELSE table[x]]

From(position) == position..(MaxPosition + Cardinality(Folders) + Cardinality(Requests))

\* make_tree_position_space.
MakeSpace(table, p, position) == Shift(table, p, From(position), 1)

\* Mutant: the position that the row leaves is closed whichever way it goes.
ShiftPositionsOneWay(table, x, p, position) ==
  LET old == table[x] IN
    IF old.parent = p THEN Shift(table, p, position..(old.position - 1), 1)
    ELSE MakeSpace(Shift(table, old.parent, From(old.position + 1), -1), p, position)

\* shift_tree_positions.
ShiftPositions(table, x, p, position) ==
  LET old == table[x] IN
    IF old.parent # p
    THEN MakeSpace(Shift(table, old.parent, From(old.position + 1), -1), p, position)
    ELSE IF position < old.position THEN Shift(table, p, position..(old.position - 1), 1)
    ELSE Shift(table, p, (old.position + 1)..position, -1)

\* The order of a SELECT.  Rows at one position, which the code would order by
\* their timestamps, get the same number here; PositionsAreDense excludes them.
Rank(table, x) ==
  Cardinality({y \in RowsIn(table, table[x].parent) : table[y].position < table[x].position})

\* compact_collection_positions and compact_saved_request_positions.
Compact(table) ==
  [x \in DOMAIN table |->
     IF table[x].parent = Absent THEN table[x]
     ELSE [table[x] EXCEPT !.position = Rank(table, x)]]

\* next_collection_position and next_saved_request_position.
NextPosition(table, p) ==
  IF RowsIn(table, p) = {} THEN 0
  ELSE 1 + (CHOOSE n \in {table[x].position : x \in RowsIn(table, p)} :
              \A x \in RowsIn(table, p) : table[x].position <= n)

At(p, position) == [parent |-> p, position |-> position]

-----------------------------------------------------------------------------
(* The tree *)

\* The parents of a folder, its own first, as far as the walk of
\* collection_descends_from goes; on a cycle it would go on for ever.
Ancestors(p) ==
  LET up[n \in 0..Cardinality(Folders)] ==
        IF n = 0 THEN p ELSE IF up[n - 1] \in Folders THEN folderRows[up[n - 1]].parent ELSE Root
  IN  {up[n] : n \in 0..Cardinality(Folders)} \ {Root}

Subtree(f) == {g \in Rows(folderRows) : f \in Ancestors(g)}
Inside(tree) == {r \in Rows(requestRows) : requestRows[r].parent \in tree}

\* Uuid::new_v4 draws ids that no row has.
Unused(table) == DOMAIN table \ Rows(table)

\* create_collection_folder.
CreateFolder(f, p) ==
  /\ f \in Unused(folderRows) /\ Known(p)
  /\ folderRows' = [folderRows EXCEPT ![f] = At(p, NextPosition(folderRows, p))]
  /\ UNCHANGED <<requestRows, openTabs>>

\* create_saved_request, and the first save of a draft.
CreateRequest(r) ==
  /\ r \in Unused(requestRows)
  /\ requestRows' = [requestRows EXCEPT ![r] = At(Root, NextPosition(requestRows, Root))]
  /\ \E opens \in BOOLEAN : openTabs' = IF opens THEN openTabs \union {r} ELSE openTabs
  /\ UNCHANGED folderRows

OpenTab(r) ==
  /\ r \in Rows(requestRows)
  /\ openTabs' = openTabs \union {r}
  /\ UNCHANGED <<folderRows, requestRows>>

\* The check of move_collection_folder.
MayMove(f, p) == p # Root => f \notin Ancestors(p)

\* move_collection_folder.
MoveFolder(f, p, position) ==
  /\ f \in Rows(folderRows) /\ Known(p) /\ MayMove(f, p)
  /\ folderRows' = Compact([ShiftPositions(folderRows, f, p, position)
                              EXCEPT ![f] = At(p, position)])
  /\ UNCHANGED <<requestRows, openTabs>>

\* move_saved_request.
MoveRequest(r, p, position) ==
  /\ r \in Rows(requestRows) /\ Known(p)
  /\ requestRows' = Compact([ShiftPositions(requestRows, r, p, position)
                               EXCEPT ![r] = At(p, position)])
  /\ UNCHANGED <<folderRows, openTabs>>

\* duplicate_saved_request.
DuplicateRequest(r, copy) ==
  /\ r \in Rows(requestRows) /\ copy \in Unused(requestRows)
  /\ LET row == requestRows[r]
         spaced == MakeSpace(requestRows, row.parent, row.position + 1)
     IN  requestRows' = Compact([spaced EXCEPT ![copy] = At(row.parent, row.position + 1)])
  /\ UNCHANGED <<folderRows, openTabs>>

\* The copies of rows get ids of their own.
Copies(xs, free) == {c \in [xs -> free] : \A x, y \in xs : c[x] = c[y] => x = y}
IsCopy(c, x) == \E o \in DOMAIN c : c[o] = x
Original(c, x) == CHOOSE o \in DOMAIN c : c[o] = x

\* The copy of a folder takes the place behind it, or the same one behind nothing
\* in the copy of its parent.
WithFolders(f, c) ==
  LET p == folderRows[f].parent
      spaced == MakeSpace(folderRows, p, folderRows[f].position + 1)
      RowOf(g) == At(IF g = f THEN p ELSE c[folderRows[g].parent], folderRows[g].position + 1)
  IN  [x \in Folders |-> IF IsCopy(c, x) THEN RowOf(Original(c, x)) ELSE spaced[x]]

\* Requests keep their places.
WithRequests(c, d) ==
  LET RowOf(r) == At(c[requestRows[r].parent], requestRows[r].position)
  IN  [x \in Requests |-> IF IsCopy(d, x) THEN RowOf(Original(d, x)) ELSE requestRows[x]]

\* duplicate_collection_subtree.
DuplicateFolder(f) ==
  /\ f \in Rows(folderRows)
  /\ \E c \in Copies(Subtree(f), Unused(folderRows)),
        d \in Copies(Inside(Subtree(f)), Unused(requestRows)) :
       /\ folderRows' = Compact(WithFolders(f, c))
       /\ requestRows' = Compact(WithRequests(c, d))
  /\ UNCHANGED openTabs

Erase(table, gone) == [x \in DOMAIN table |-> IF x \in gone THEN NoRow ELSE table[x]]

\* Mutant: only the requests of the folder itself are deleted with it.
DeleteFolderShallow(f) ==
  /\ f \in Rows(folderRows)
  /\ folderRows' = Compact(Erase(folderRows, Subtree(f)))
  /\ requestRows' = Compact(Erase(requestRows, Inside({f})))
  /\ openTabs' = openTabs \ Inside({f})

\* delete_collection_subtree.
DeleteFolder(f) ==
  /\ f \in Rows(folderRows)
  /\ folderRows' = Compact(Erase(folderRows, Subtree(f)))
  /\ requestRows' = Compact(Erase(requestRows, Inside(Subtree(f))))
  /\ openTabs' = openTabs \ Inside(Subtree(f))

\* delete_saved_request.
DeleteRequest(r) ==
  /\ r \in Rows(requestRows)
  /\ requestRows' = Compact(Erase(requestRows, {r}))
  /\ openTabs' = openTabs \ {r}
  /\ UNCHANGED folderRows

TreeNext ==
  \/ \E f \in Folders :
       \/ DuplicateFolder(f) \/ DeleteFolder(f)
       \/ \E p \in Parents :
            CreateFolder(f, p) \/ \E n \in 0..MaxPosition : MoveFolder(f, p, n)
  \/ \E r \in Requests :
       \/ CreateRequest(r) \/ OpenTab(r) \/ DeleteRequest(r)
       \/ \E copy \in Requests : DuplicateRequest(r, copy)
       \/ \E p \in Parents, n \in 0..MaxPosition : MoveRequest(r, p, n)

TreeSpec == TreeInit /\ [][TreeNext]_treeVars

-----------------------------------------------------------------------------
(* Properties *)

\* Every variable has its type; a position is a number, whatever was asked for.
TreeTypeOK ==
  /\ folderRows \in [Folders -> [parent : Parents \union {Absent}, position : Nat]]
  /\ requestRows \in [Requests -> [parent : Parents \union {Absent}, position : Nat]]
  /\ openTabs \subseteq Requests

\* The rows of every folder are numbered 0 to n-1 without a gap or a tie.
PositionsAreDense ==
  \A table \in {folderRows, requestRows} : \A p \in Parents :
    {table[x].position : x \in RowsIn(table, p)} = 0..(Cardinality(RowsIn(table, p)) - 1)

\* Every folder hangs from the workspace: no move closes a cycle, so the walk
\* over the parents ends, and no row refers to a folder that is gone.
TreeHangsTogether ==
  /\ \A f \in Rows(folderRows) :
       /\ Known(folderRows[f].parent)
       /\ f \notin Ancestors(folderRows[f].parent)
  /\ \A r \in Rows(requestRows) : Known(requestRows[r].parent)
  /\ openTabs \subseteq Rows(requestRows)

\* The rows of a folder in the order of their positions.
ListOf(table, p) ==
  [i \in 1..Cardinality(RowsIn(table, p)) |->
     CHOOSE x \in RowsIn(table, p) : table[x].position = i - 1]

Lists == INSTANCE CollectionLists WITH
  folders <- [p \in Parents |-> ListOf(folderRows, p)],
  requests <- [p \in Parents |-> ListOf(requestRows, p)]

\* Every command does to the lists of the tree what it says: the shifts and the
\* renumbering of all rows come to one insertion, one removal or both.
ListsAreKept == Lists!Spec

\* What is moved ends up at the position asked for, or at the end of the list.
Landed(table, x, p, n) ==
  LET last == Cardinality(RowsIn(table, p)) - 1
  IN  table[x].position = IF n < last THEN n ELSE last

MovesLandWhereAsked ==
  [][/\ \A f \in Folders : LET p == folderRows'[f].parent IN
          folderRows'[f] # folderRows[f] =>
            \A n \in 0..MaxPosition : MoveFolder(f, p, n) => Landed(folderRows', f, p, n)
     /\ \A r \in Requests : LET p == requestRows'[r].parent IN
          requestRows'[r] # requestRows[r] =>
            \A n \in 0..MaxPosition : MoveRequest(r, p, n) => Landed(requestRows', r, p, n)]_treeVars

\* What the rows of the tree promise: no cycles, no gaps, and every move ends where
\* it was asked for.
TreeCorrect ==
  /\ [](TreeTypeOK /\ PositionsAreDense /\ TreeHangsTogether)
  /\ MovesLandWhereAsked

=============================================================================
