----------------------------- MODULE DraftStore -----------------------------
(***************************************************************************)
(* Drafts, tabs and saved requests of one workspace: the draft half of the *)
(* request service (src-tauri/src/application/request/service/drafts.rs)   *)
(* on top of its tables in SQLite                                          *)
(* (src-tauri/src/infrastructure/sqlite/repository/).                      *)
(*                                                                         *)
(* An edit travels from the editor to the service, which keeps it in       *)
(* memory until a flush writes it to the draft's row.  Everything the      *)
(* repository does in one transaction is one step; the commands are        *)
(* synchronous and run one at a time on the main thread.  Ids are UUIDs,   *)
(* never drawn twice.  Each draft has one tab and is known by the draft's  *)
(* id.                                                                     *)
(***************************************************************************)
EXTENDS Integers, FiniteSets

CONSTANTS
  Drafts,         \* ids of drafts
  SavedRequests,  \* ids of saved requests
  Contents,       \* contents of a request
  Valid,          \* those with a name and a method
  Relinked,       \* what relinking a body file makes of a content
  None

ASSUME ValidAssumption == Valid \subseteq Contents
ASSUME RelinkedAssumption ==
  /\ Relinked \in [Contents -> Contents]
  /\ \A c \in Contents : (Relinked[c] \in Valid) <=> (c \in Valid)
ASSUME NoneAssumption == None \notin Contents \union SavedRequests \union Drafts

VARIABLES
  sent,      \* edit the editor has sent and the service not yet seen
  pending,   \* pending_drafts: edits the service keeps in memory
  content,   \* request_drafts: content of each draft, None if it has no row
  dirty,     \* drafts whose is_dirty flag is set
  savedOf,   \* request_drafts.saved_request_id
  tabSaved,  \* request_tabs.saved_request_id
  position,  \* request_tabs.position
  active,    \* tabs whose is_active flag is set
  saved,     \* saved_requests: content of each, None if it has no row
  issued,    \* ids drawn so far
  answer     \* command last handled, its draft, and whether it succeeded

memoryVars == <<sent, pending>>
draftVars == <<content, dirty, savedOf>>
tabVars == <<tabSaved, position, active>>
vars == <<memoryVars, draftVars, tabVars, saved, issued, answer>>

Open == {d \in Drafts : content[d] # None}
Existing == {s \in SavedRequests : saved[s] # None}

Init ==
  /\ sent = [d \in Drafts |-> None]
  /\ pending = [d \in Drafts |-> None]
  /\ content = [d \in Drafts |-> None]
  /\ dirty = {}
  /\ savedOf = [d \in Drafts |-> None]
  /\ tabSaved = [d \in Drafts |-> None]
  /\ position = [d \in Drafts |-> 0]
  /\ active = {}
  /\ saved = [s \in SavedRequests |-> None]
  /\ issued = {}
  /\ answer = [command |-> "start", draft |-> None, ok |-> TRUE]

Answers(command, d, ok) == answer' = [command |-> command, draft |-> d, ok |-> ok]

-----------------------------------------------------------------------------
(* Edits and the flush *)

Pending == {d \in Drafts : pending[d] # None}

\* Pending edits that persist_draft refuses: the draft is gone, or the content
\* has no name or no method.
Unstorable == {d \in Pending : content[d] = None \/ pending[d] \notin Valid}

\* Mutant: nobody looks whether the draft is still there.
FlushOutcomesOfClosed ==
  LET refused == {d \in Pending : pending[d] \notin Valid}
  IN  IF refused = {} THEN {Pending} ELSE SUBSET (Pending \ refused)

\* Mutant: nobody looks at the name and the method.
FlushOutcomesUnvalidated ==
  LET refused == {d \in Pending : content[d] = None}
  IN  IF refused = {} THEN {Pending} ELSE SUBSET (Pending \ refused)

\* The drafts a flush may have written when it ends: all that are pending, or,
\* when one of them is refused, those that the map happened to yield before it.
\* The map was emptied first, so the rest is gone.
FlushOutcomes ==
  IF Unstorable = {} THEN {Pending} ELSE SUBSET (Pending \ Unstorable)

\* Mutant: the transaction is never committed.
FlushedUncommitted(W) == content

\* The draft rows after a flush that wrote the drafts of W.
Flushed(W) == [d \in Drafts |-> IF d \in W THEN pending[d] ELSE content[d]]

\* What a flush, run alone or at the start of a command, does to the memory.
EmptiesPending == pending' = [d \in Drafts |-> None] /\ UNCHANGED sent

\* The editor sends update_request_draft and does not wait for it.
Edit(d, c) ==
  /\ d \in Open
  /\ sent[d] = None
  /\ sent' = [sent EXCEPT ![d] = c]
  /\ UNCHANGED <<pending, draftVars, tabVars, saved, issued, answer>>

\* update_request_draft: queue_draft_update.  The draft may be closed by now.
QueueDraftUpdate(d) ==
  /\ sent[d] # None
  /\ pending' = [pending EXCEPT ![d] = sent[d]]
  /\ sent' = [sent EXCEPT ![d] = None]
  /\ Answers("update", d, TRUE)
  /\ UNCHANGED <<draftVars, tabVars, saved, issued>>

\* flush_pending_drafts, when nothing follows it.
Flush(W) ==
  /\ W \in FlushOutcomes
  /\ EmptiesPending
  /\ content' = Flushed(W)
  /\ dirty' = dirty \union W
  /\ UNCHANGED <<savedOf, tabVars, saved, issued>>

\* flush_request_drafts, a command the editor never sends.
FlushPendingDrafts(W) == Flush(W) /\ Answers("flush", None, Unstorable = {})

-----------------------------------------------------------------------------
(* Opening *)

\* next_tab_position: COALESCE(MAX(position) + 1, 0).
NextTabPosition ==
  IF Open = {} THEN 0
  ELSE 1 + CHOOSE m \in {position[d] : d \in Open} : \A d \in Open : position[d] <= m

\* insert_draft and insert_tab.
InsertDraft(d, c, s, isDirty) ==
  /\ d \in Drafts \ issued
  /\ content' = [content EXCEPT ![d] = c]
  /\ dirty' = IF isDirty THEN dirty \union {d} ELSE dirty
  /\ savedOf' = [savedOf EXCEPT ![d] = s]
  /\ tabSaved' = [tabSaved EXCEPT ![d] = s]
  /\ position' = [position EXCEPT ![d] = NextTabPosition]
  /\ active' = {d}
  /\ issued' = issued \union {d}
  /\ UNCHANGED <<memoryVars, saved>>

\* open_unsaved_tab, open_unsaved_tab_with_content (an imported cURL command)
\* and open_execution_record_as_draft.
OpenUnsavedTab(d, c) ==
  /\ InsertDraft(d, c, None, TRUE)
  /\ c \in Valid
  /\ Answers("open", d, TRUE)

\* open_saved_request_tab of a request that has a tab already.
ActivateTab(s) ==
  /\ \E d \in Open : tabSaved[d] = s /\ active' = {d}
  /\ Answers("open", None, TRUE)
  /\ UNCHANGED <<memoryVars, draftVars, tabSaved, position, saved, issued>>

\* open_saved_request_tab of a request that has none.
OpenSavedRequestTab(s, d) ==
  /\ s \in Existing
  /\ \A e \in Open : tabSaved[e] # s
  /\ InsertDraft(d, saved[s], s, FALSE)
  /\ Answers("open", d, TRUE)

\* create_saved_request, duplicate_saved_request and the imports.
CreateSavedRequest(s, c) ==
  /\ s \in SavedRequests \ issued
  /\ c \in Valid
  /\ saved' = [saved EXCEPT ![s] = c]
  /\ issued' = issued \union {s}
  /\ Answers("create", None, TRUE)
  /\ UNCHANGED <<memoryVars, draftVars, tabVars>>

-----------------------------------------------------------------------------
(* Saving, closing, deleting *)

\* The saved request that save_draft writes: the draft's own, or a new one.
Targets(d) == IF savedOf[d] # None THEN {savedOf[d]} ELSE SavedRequests \ issued

\* Mutant: the draft is stored as it was read before the flush.
StoresStale(d, s) ==
  /\ saved' = [saved EXCEPT ![s] = content[d]]
  /\ content' = Flushed(Pending)

\* replace_saved_request_content or insert_saved_request, after the flush.
Stores(d, s) ==
  /\ saved' = [saved EXCEPT ![s] = Flushed(Pending)[d]]
  /\ content' = Flushed(Pending)

\* Mutant: the tab of a draft saved for the first time is not told.
SaveDraftNotTab(d, s) ==
  /\ Unstorable = {}
  /\ d \in Open
  /\ s \in Targets(d)
  /\ EmptiesPending
  /\ Stores(d, s)
  /\ dirty' = (dirty \union Pending) \ {d}
  /\ savedOf' = [savedOf EXCEPT ![d] = s]
  /\ issued' = issued \union {s}
  /\ Answers("save", d, TRUE)
  /\ UNCHANGED tabVars

\* save_request_draft: flush, then save_draft in a transaction.
SaveDraft(d, s) ==
  /\ Unstorable = {}
  /\ d \in Open
  /\ s \in Targets(d)
  /\ EmptiesPending
  /\ Stores(d, s)
  /\ dirty' = (dirty \union Pending) \ {d}
  /\ savedOf' = [savedOf EXCEPT ![d] = s]
  /\ tabSaved' = [tabSaved EXCEPT ![d] = s]
  /\ issued' = issued \union {s}
  /\ Answers("save", d, TRUE)
  /\ UNCHANGED <<position, active>>

\* The flush fails, or the draft has been closed meanwhile.
SaveDraftFails(d, W) ==
  /\ d \in issued
  /\ Unstorable # {} \/ d \notin Open
  /\ Flush(W)
  /\ Answers("save", d, FALSE)

\* Mutant: the tabs behind a closed one keep their positions.
Uncompacted(R) == UNCHANGED position

\* compact_tab_positions after the tabs of R were deleted.
CompactTabPositions(R) ==
  position' = [d \in Drafts |->
    IF d \in Open \ R
    THEN Cardinality({e \in Open \ R : position[e] < position[d]})
    ELSE 0]

\* The rows of the tabs and drafts of R are deleted.  Edits of theirs that
\* are pending stay where they are.
DeleteDrafts(R) ==
  /\ savedOf' = [d \in Drafts |-> IF d \in R THEN None ELSE savedOf[d]]
  /\ tabSaved' = [d \in Drafts |-> IF d \in R THEN None ELSE tabSaved[d]]
  /\ active' = active \ R
  /\ CompactTabPositions(R)

\* close_request_tab with DISCARD.  No other tab becomes active.
CloseDiscarding(d) ==
  /\ d \in Open
  /\ content' = [content EXCEPT ![d] = None]
  /\ dirty' = dirty \ {d}
  /\ DeleteDrafts({d})
  /\ Answers("close", d, TRUE)
  /\ UNCHANGED <<memoryVars, saved, issued>>

\* close_request_tab with SAVE: flush, save_draft and close_tab.
CloseSaving(d, s) ==
  /\ Unstorable = {}
  /\ d \in Open
  /\ s \in Targets(d)
  /\ EmptiesPending
  /\ saved' = [saved EXCEPT ![s] = Flushed(Pending)[d]]
  /\ content' = [Flushed(Pending) EXCEPT ![d] = None]
  /\ dirty' = (dirty \union Pending) \ {d}
  /\ DeleteDrafts({d})
  /\ issued' = issued \union {s}
  /\ Answers("close", d, TRUE)

CloseSavingFails(d, W) ==
  /\ d \in issued
  /\ Unstorable # {} \/ d \notin Open
  /\ Flush(W)
  /\ Answers("close", d, FALSE)

\* The open drafts of the saved requests of R.
OpenedFrom(R) == {d \in Open : savedOf[d] \in R}

\* delete_saved_request, and delete_collection_folder, which deletes every
\* request below the folder, with their tabs and drafts.
DeleteSavedRequests(R) ==
  /\ R # {} /\ R \subseteq Existing
  /\ saved' = [s \in SavedRequests |-> IF s \in R THEN None ELSE saved[s]]
  /\ content' = [d \in Drafts |-> IF d \in OpenedFrom(R) THEN None ELSE content[d]]
  /\ dirty' = dirty \ OpenedFrom(R)
  /\ DeleteDrafts(OpenedFrom(R))
  /\ Answers("delete", None, TRUE)
  /\ UNCHANGED <<memoryVars, issued>>

\* replace_body_file_reference, on a row that may not exist.
Relink(c) == IF c = None THEN None ELSE Relinked[c]

\* Mutant: the drafts are forgotten.
RelinkSavedRequestsOnly ==
  /\ Unstorable = {}
  /\ EmptiesPending
  /\ saved' = [s \in SavedRequests |-> Relink(saved[s])]
  /\ content' = Flushed(Pending)
  /\ dirty' = dirty \union Pending
  /\ Answers("relink", None, TRUE)
  /\ UNCHANGED <<savedOf, tabVars, issued>>

\* relink_body_files: flush, then one transaction over requests and drafts.
RelinkBodyFiles ==
  LET flushed == Flushed(Pending) IN
  /\ Unstorable = {}
  /\ EmptiesPending
  /\ saved' = [s \in SavedRequests |-> Relink(saved[s])]
  /\ content' = [d \in Drafts |-> Relink(flushed[d])]
  /\ dirty' = dirty \union Pending \union {d \in Open : Relink(flushed[d]) # flushed[d]}
  /\ Answers("relink", None, TRUE)
  /\ UNCHANGED <<savedOf, tabVars, issued>>

RelinkBodyFilesFails(W) ==
  Unstorable # {} /\ Flush(W) /\ Answers("relink", None, FALSE)

-----------------------------------------------------------------------------
(* The end of the process *)

\* The request service is dropped: a flush whose failure nobody sees.
Quit(W) ==
  /\ W \in FlushOutcomes
  /\ pending' = [d \in Drafts |-> None]
  /\ sent' = [d \in Drafts |-> None]
  /\ content' = Flushed(W)
  /\ dirty' = dirty \union W
  /\ Answers("quit", None, TRUE)
  /\ UNCHANGED <<savedOf, tabVars, saved, issued>>

\* The process is killed, perhaps between two transactions of a flush.
Crash(W) ==
  /\ W \in SUBSET (Pending \ Unstorable)
  /\ pending' = [d \in Drafts |-> None]
  /\ sent' = [d \in Drafts |-> None]
  /\ content' = Flushed(W)
  /\ dirty' = dirty \union W
  /\ Answers("crash", None, TRUE)
  /\ UNCHANGED <<savedOf, tabVars, saved, issued>>

-----------------------------------------------------------------------------
Command ==
  \/ \E d \in Drafts, c \in Contents : Edit(d, c) \/ OpenUnsavedTab(d, c)
  \/ \E s \in SavedRequests, c \in Contents : CreateSavedRequest(s, c)
  \/ \E s \in SavedRequests : ActivateTab(s)
  \/ \E d \in Drafts, s \in SavedRequests :
       OpenSavedRequestTab(s, d) \/ SaveDraft(d, s) \/ CloseSaving(d, s)
  \/ \E d \in Drafts : CloseDiscarding(d)
  \/ \E R \in SUBSET SavedRequests : DeleteSavedRequests(R)
  \/ RelinkBodyFiles

FailingCommand ==
  \E W \in SUBSET Drafts :
    \/ \E d \in Drafts : SaveDraftFails(d, W) \/ CloseSavingFails(d, W)
    \/ RelinkBodyFilesFails(W)

Next ==
  \/ \E d \in Drafts : QueueDraftUpdate(d)
  \/ Command
  \/ FailingCommand
  \/ \E W \in SUBSET Drafts : FlushPendingDrafts(W) \/ Quit(W) \/ Crash(W)

Spec == Init /\ [][Next]_vars

-----------------------------------------------------------------------------
(* Properties *)

\* Every variable has its type (positions: see TabsInOrder); the database holds
\* valid contents only, whatever the editor sends.
TypeOK ==
  /\ sent \in [Drafts -> Contents \union {None}]
  /\ pending \in [Drafts -> Contents \union {None}]
  /\ content \in [Drafts -> Valid \union {None}]
  /\ dirty \subseteq Open
  /\ savedOf \in [Drafts -> SavedRequests \union {None}]
  /\ tabSaved \in [Drafts -> SavedRequests \union {None}]
  /\ active \subseteq Open
  /\ saved \in [SavedRequests -> Valid \union {None}]
  /\ issued \subseteq Drafts \union SavedRequests
  /\ answer \in [command : {"start", "update", "flush", "open", "create", "save",
                             "close", "delete", "relink", "quit", "crash"},
                  draft : Drafts \union {None}, ok : BOOLEAN]

\* A saved request is open in one tab at most, the tab and its draft agree
\* which one it is, and it still exists.
OneTabPerSavedRequest ==
  /\ tabSaved = savedOf
  /\ \A d \in Drafts : savedOf[d] # None => d \in Open /\ savedOf[d] \in Existing
  /\ \A d, e \in Drafts : savedOf[d] # None /\ savedOf[d] = savedOf[e] => d = e

\* However tabs are opened, closed and deleted with their requests, n of them
\* stand at the positions 0 to n - 1, and one of them at most is active.
TabsInOrder ==
  /\ {position[d] : d \in Open} = 0..(Cardinality(Open) - 1)
  /\ Cardinality(active) <= 1

\* A draft without the dirty flag shows exactly what is saved.
CleanMeansSaved ==
  \A d \in Open \ dirty : savedOf[d] # None /\ content[d] = saved[savedOf[d]]

\* The draft as its user last left it.
Current(d) == IF pending[d] # None THEN pending[d] ELSE content[d]

\* A saved request changes only when the draft opened from it is saved, and
\* then to the last content the service has been given for it, pending edits
\* included (or when its body files are relinked).
SavedChangesOnlyBySaving ==
  [][\A s \in Existing :
       saved'[s] \in {None, saved[s], Relinked[saved[s]]}
         \/ \E d \in Open : savedOf[d] = s /\ saved'[s] = Current(d)]_vars

\* A draft that was closed or deleted does not come back, although edits of
\* it may still be on their way or pending.
ClosedStaysClosed ==
  [][\A d \in (Drafts \intersect issued) \ Open : content'[d] = None]_vars

\* As long as no pending edit is refused, no command loses an edit of any open
\* draft, quitting included.
EditsSurvive ==
  [][Unstorable = {} /\ answer'.command # "crash" =>
       \A d \in Open :
         content'[d] # None =>
           \/ Current(d)' \in {Current(d), Relinked[Current(d)]}
           \/ sent[d] # None /\ Current(d)' = sent[d]]_vars

\* What the tests promise of the drop of the request service: a valid edit of
\* an open draft that is pending then is written.
QuittingKeepsEdits ==
  [][\A d \in Open :
       answer'.command = "quit" /\ pending[d] \in Valid =>
         pending[d] \in {content'[d], pending'[d]}]_vars

=============================================================================
