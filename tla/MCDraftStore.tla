---------------------------- MODULE MCDraftStore ----------------------------
(* Small instances of the draft store for TLC. *)
EXTENDS DraftStore, TLC

CONSTANTS d1, d2, d3, s1, s2, named, moved, nameless

\* The body file of "named" is the one that is relinked.
RelinkNamed == (named :> moved) @@ (moved :> moved) @@ (nameless :> nameless)

\* No content has the body file that is relinked.
RelinkNothing == [c \in Contents |-> c]

\* Ids are drawn in any order: they can be renamed.
Ids == Permutations(Drafts) \union Permutations(SavedRequests)
=============================================================================
