--------------------------- MODULE CollectionLists ---------------------------
(***************************************************************************)
(* What the tree of collections promises: every folder, and the workspace  *)
(* itself, has a list of folders and a list of requests in the order that  *)
(* the user gave them.                                                     *)
(***************************************************************************)
EXTENDS Integers, SequencesExt

CONSTANTS
  Folders,   \* ids of folders
  Requests,  \* ids of saved requests
  Root       \* the workspace

VARIABLES
  folders,  \* the folders in each folder, in order
  requests  \* the requests in each folder, in order

listVars == <<folders, requests>>

Parents == Folders \union {Root}
InAny(lists) == UNION {Range(lists[p]) : p \in Parents}

Init == folders = [p \in Parents |-> <<>>] /\ requests = [p \in Parents |-> <<>>]

Known(p) == p = Root \/ p \in InAny(folders)

\* The folder and everything below it: the least set with the folder that has
\* what is in each of its members.
Below(f) ==
  {g \in Folders :
     \A closed \in SUBSET Folders :
       f \in closed /\ (\A h \in closed : Range(folders[h]) \subseteq closed) => g \in closed}

\* A list that has a member once, without it.
Without(list, x) ==
  IF x \in Range(list) THEN RemoveAt(list, CHOOSE i \in DOMAIN list : list[i] = x) ELSE list

AllWithout(lists, x) == [p \in Parents |-> Without(lists[p], x)]

AddFolder(f, p) ==
  /\ f \notin InAny(folders) /\ Known(p)
  /\ folders' = [folders EXCEPT ![p] = Append(@, f)]
  /\ UNCHANGED requests

AddRequest(r, p) ==
  /\ r \notin InAny(requests) /\ Known(p)
  /\ requests' = [requests EXCEPT ![p] = Append(@, r)]
  /\ UNCHANGED folders

\* What is moved leaves its list and comes into one of them, at any place.
Moved(lists, x, p, i) == [AllWithout(lists, x) EXCEPT ![p] = InsertAt(@, i, x)]

MoveFolder(f) ==
  /\ f \in InAny(folders)
  /\ \E p \in Parents \ Below(f) :
       Known(p) /\ \E i \in 1..(Len(Without(folders[p], f)) + 1) : folders' = Moved(folders, f, p, i)
  /\ UNCHANGED requests

MoveRequest(r) ==
  /\ r \in InAny(requests)
  /\ \E p \in Parents :
       Known(p) /\ \E i \in 1..(Len(Without(requests[p], r)) + 1) : requests' = Moved(requests, r, p, i)
  /\ UNCHANGED folders

\* A copy goes right behind its original.
Behind(lists, x, copy) ==
  LET p == CHOOSE p \in Parents : x \in Range(lists[p])
      i == CHOOSE i \in DOMAIN lists[p] : lists[p][i] = x
  IN  [lists EXCEPT ![p] = InsertAt(@, i + 1, copy)]

DuplicateRequest(r, copy) ==
  /\ r \in InAny(requests) /\ copy \notin InAny(requests)
  /\ requests' = Behind(requests, r, copy)
  /\ UNCHANGED folders

\* The copies get ids of their own.
Copies(xs, free) == {c \in [xs -> free] : IsInjective(c)}
Each(list, c) == [i \in DOMAIN list |-> c[list[i]]]

\* What is in the copy of a folder is in the order of the originals.
InCopies(lists, c, others, copies) ==
  [p \in Parents |->
     IF \E g \in DOMAIN c : c[g] = p
     THEN Each(lists[CHOOSE g \in DOMAIN c : c[g] = p], copies)
     ELSE others[p]]

DuplicateFolder(f) ==
  /\ f \in InAny(folders)
  /\ \E c \in Copies(Below(f), Folders \ InAny(folders)),
        d \in Copies(UNION {Range(requests[g]) : g \in Below(f)}, Requests \ InAny(requests)) :
       /\ folders' = InCopies(folders, c, Behind(folders, f, c[f]), c)
       /\ requests' = InCopies(requests, c, requests, d)

DeleteFolder(f) ==
  /\ f \in InAny(folders)
  /\ folders' = [p \in Parents |-> IF p \in Below(f) THEN <<>> ELSE Without(folders[p], f)]
  /\ requests' = [p \in Parents |-> IF p \in Below(f) THEN <<>> ELSE requests[p]]

DeleteRequest(r) ==
  /\ r \in InAny(requests)
  /\ requests' = AllWithout(requests, r)
  /\ UNCHANGED folders

Next ==
  \/ \E f \in Folders :
       \/ MoveFolder(f) \/ DuplicateFolder(f) \/ DeleteFolder(f)
       \/ \E p \in Parents : AddFolder(f, p)
  \/ \E r \in Requests :
       \/ MoveRequest(r) \/ DeleteRequest(r)
       \/ \E copy \in Requests : DuplicateRequest(r, copy)
       \/ \E p \in Parents : AddRequest(r, p)

Spec == Init /\ [][Next]_listVars

=============================================================================
