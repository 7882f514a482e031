--------------------------- MODULE DraftStore_proofs ---------------------------
(***************************************************************************)
(* Machine-checked proofs about the draft store, for any number of drafts, *)
(* saved requests and contents.                                            *)
(***************************************************************************)
EXTENDS DraftStore, FunctionTheorems, FiniteSetTheorems, TLAPS

USE ValidAssumption, RelinkedAssumption, NoneAssumption DEF Open, Existing

-----------------------------------------------------------------------------
(* The flush *)

\* A flush writes valid contents to drafts that have a row, so that no row
\* appears or disappears.
LEMMA FlushLemma ==
  ASSUME TypeOK, NEW W, W \in SUBSET (Pending \ Unstorable)
  PROVE  /\ W \subseteq Open
         /\ Flushed(W) \in [Drafts -> Valid \union {None}]
         /\ \A d \in Drafts : Flushed(W)[d] = None <=> content[d] = None
         /\ \A d \in Drafts \ W : Flushed(W)[d] = content[d]
  <1>1. \A d \in W : /\ d \in Drafts
                     /\ pending[d] \in Valid
                     /\ content[d] # None
    BY DEF TypeOK, Pending, Unstorable
  <1>2. \A d \in Drafts : Flushed(W)[d] = IF d \in W THEN pending[d] ELSE content[d]
    BY DEF Flushed
  <1>3. Flushed(W) \in [Drafts -> Valid \union {None}]
    BY <1>1 DEF Flushed, TypeOK
  <1> QED
    BY <1>1, <1>2, <1>3

\* What a flush may have written is storable.
LEMMA FlushOutcomesLemma ==
  ASSUME NEW W \in FlushOutcomes
  PROVE  W \in SUBSET (Pending \ Unstorable)
  BY DEF FlushOutcomes

\* When nothing is refused the flush writes everything.
LEMMA FullFlushLemma ==
  ASSUME TypeOK, Unstorable = {}
  PROVE  /\ Pending \subseteq Open
         /\ Flushed(Pending) \in [Drafts -> Valid \union {None}]
         /\ \A d \in Drafts : Flushed(Pending)[d] = None <=> content[d] = None
         /\ \A d \in Drafts \ Pending : Flushed(Pending)[d] = content[d]
         /\ \A d \in Drafts : Flushed(Pending)[d] = Current(d)
  <1>1. Pending \in SUBSET (Pending \ Unstorable)
    OBVIOUS
  <1>2. \A d \in Drafts : Flushed(Pending)[d] = Current(d)
    BY DEF Flushed, Pending, Current
  <1> QED
    BY <1>1, <1>2, FlushLemma

-----------------------------------------------------------------------------
(* Type correctness *)

Commands == {"start", "update", "flush", "open", "create", "save", "close", "delete",
             "relink", "quit", "crash"}

\* What the steps have in common that write some pending edits and drop the rest.
WroteOnly(W) ==
  /\ W \in SUBSET (Pending \ Unstorable)
  /\ content' = Flushed(W)
  /\ dirty' = dirty \union W
  /\ pending' = [d \in Drafts |-> None]
  /\ sent' \in {sent, [d \in Drafts |-> None]}
  /\ answer' \in [command : Commands, draft : Drafts \union {None}, ok : BOOLEAN]
  /\ UNCHANGED <<savedOf, tabVars, saved, issued>>

LEMMA WritingSteps ==
  ASSUME NEW W \in SUBSET Drafts
  PROVE  /\ FlushPendingDrafts(W) \/ Quit(W) \/ Crash(W) \/ RelinkBodyFilesFails(W)
              => WroteOnly(W)
         /\ \A d \in Drafts : SaveDraftFails(d, W) \/ CloseSavingFails(d, W) => WroteOnly(W)
  <1>1. \A command \in Commands, d \in Drafts \union {None}, ok \in BOOLEAN :
          Answers(command, d, ok) =>
            answer' \in [command : Commands, draft : Drafts \union {None}, ok : BOOLEAN]
    BY DEF Answers
  <1>2. \A command \in Commands, d \in Drafts \union {None}, ok \in BOOLEAN :
          Flush(W) /\ Answers(command, d, ok) => WroteOnly(W)
    BY <1>1, FlushOutcomesLemma DEF Flush, EmptiesPending, WroteOnly
  <1>3. (Unstorable = {}) \in BOOLEAN
    OBVIOUS
  <1>4. FlushPendingDrafts(W) \/ RelinkBodyFilesFails(W) => WroteOnly(W)
    BY <1>2, <1>3 DEF FlushPendingDrafts, RelinkBodyFilesFails, Commands
  <1>5. \A d \in Drafts : SaveDraftFails(d, W) \/ CloseSavingFails(d, W) => WroteOnly(W)
    BY <1>2 DEF SaveDraftFails, CloseSavingFails, Commands
  <1>6. Quit(W) \/ Crash(W) => WroteOnly(W)
    BY <1>1, FlushOutcomesLemma DEF Quit, Crash, WroteOnly, Commands
  <1> QED
    BY <1>4, <1>5, <1>6

LEMMA TypeInit == Init => TypeOK
  BY DEF Init, TypeOK

\* Each command keeps the rows well typed.
LEMMA TypeStep == TypeOK /\ [Next]_vars => TypeOK'
  <1> SUFFICES ASSUME TypeOK, [Next]_vars
               PROVE  TypeOK'
    OBVIOUS
  <1> USE DEF TypeOK, Commands
  <1>1. ASSUME NEW d \in Drafts, NEW c \in Contents, Edit(d, c)
        PROVE  TypeOK'
    BY <1>1 DEF Edit, draftVars, tabVars
  <1>2. ASSUME NEW d \in Drafts, QueueDraftUpdate(d)
        PROVE  TypeOK'
    BY <1>2 DEF QueueDraftUpdate, Answers, draftVars, tabVars
  <1>3. ASSUME NEW W, WroteOnly(W)
        PROVE  TypeOK'
    BY <1>3, FlushLemma DEF WroteOnly, tabVars
  <1>4. ASSUME NEW W \in SUBSET Drafts,
               FlushPendingDrafts(W) \/ Quit(W) \/ Crash(W) \/ RelinkBodyFilesFails(W)
        PROVE  TypeOK'
    BY <1>3, <1>4, WritingSteps
  <1>5. ASSUME NEW d \in Drafts, NEW W \in SUBSET Drafts,
               SaveDraftFails(d, W) \/ CloseSavingFails(d, W)
        PROVE  TypeOK'
    BY <1>3, <1>5, WritingSteps
  <1>6. ASSUME NEW d \in Drafts, NEW c \in Contents, OpenUnsavedTab(d, c)
        PROVE  TypeOK'
    BY <1>6 DEF OpenUnsavedTab, InsertDraft, Answers, memoryVars
  <1>7. ASSUME NEW d \in Drafts, NEW s \in SavedRequests, OpenSavedRequestTab(s, d)
        PROVE  TypeOK'
    BY <1>7 DEF OpenSavedRequestTab, InsertDraft, Answers, memoryVars
  <1>8. ASSUME NEW s \in SavedRequests, ActivateTab(s)
        PROVE  TypeOK'
    BY <1>8 DEF ActivateTab, Answers, memoryVars, draftVars
  <1>9. ASSUME NEW s \in SavedRequests, NEW c \in Contents, CreateSavedRequest(s, c)
        PROVE  TypeOK'
    BY <1>9 DEF CreateSavedRequest, Answers, memoryVars, draftVars, tabVars
  <1>10. ASSUME NEW d \in Drafts, NEW s \in SavedRequests, SaveDraft(d, s)
         PROVE  TypeOK'
    BY <1>10, FullFlushLemma DEF SaveDraft, Stores, EmptiesPending, Answers
  <1>11. ASSUME NEW d \in Drafts, NEW s \in SavedRequests, CloseSaving(d, s)
         PROVE  TypeOK'
    BY <1>11, FullFlushLemma
       DEF CloseSaving, EmptiesPending, DeleteDrafts, Answers
  <1>12. ASSUME NEW d \in Drafts, CloseDiscarding(d)
         PROVE  TypeOK'
    BY <1>12 DEF CloseDiscarding, DeleteDrafts, Answers, memoryVars
  <1>13. ASSUME NEW R \in SUBSET SavedRequests, DeleteSavedRequests(R)
         PROVE  TypeOK'
    BY <1>13 DEF DeleteSavedRequests, DeleteDrafts, OpenedFrom, Answers, memoryVars
  <1>14. ASSUME RelinkBodyFiles
         PROVE  TypeOK'
    <2>1. \A c \in Valid \union {None} :
            Relink(c) \in Valid \union {None} /\ (Relink(c) = None <=> c = None)
      BY DEF Relink
    <2> QED
      BY <1>14, <2>1, FullFlushLemma DEF RelinkBodyFiles, EmptiesPending, Answers, tabVars
  <1>15. CASE UNCHANGED vars
    BY <1>15 DEF vars, memoryVars, draftVars, tabVars
  <1> QED
    BY <1>1, <1>2, <1>4, <1>5, <1>6, <1>7, <1>8, <1>9, <1>10, <1>11, <1>12, <1>13,
       <1>14, <1>15 DEF Next, Command, FailingCommand

\* Every reachable state is well typed; in particular the database never holds
\* a content without a name or a method, whatever the editor sends.
THEOREM TypeCorrect == Spec => []TypeOK
  BY TypeInit, TypeStep, PTL DEF Spec

-----------------------------------------------------------------------------
(* The rows agree *)

\* Rows have ids that have been drawn: what makes a fresh id fresh.
IssuedOK == Open \subseteq issued /\ Existing \subseteq issued

RowsInv == OneTabPerSavedRequest /\ CleanMeansSaved /\ IssuedOK

\* Of the variables RowsInv speaks of, writing pending edits changes the
\* contents of drafts that become dirty.
LEMMA WriteKeepsRows ==
  ASSUME TypeOK, RowsInv, NEW W, WroteOnly(W)
  PROVE  RowsInv'
  <1>1. /\ W \subseteq Open
        /\ content' \in [Drafts -> Valid \union {None}]
        /\ \A d \in Drafts : content'[d] = None <=> content[d] = None
        /\ \A d \in Drafts \ W : content'[d] = content[d]
    BY FlushLemma DEF WroteOnly
  <1>2. UNCHANGED <<savedOf, tabSaved, saved, issued>> /\ dirty' = dirty \union W
    BY DEF WroteOnly, tabVars
  <1> QED
    BY <1>1, <1>2 DEF RowsInv, OneTabPerSavedRequest, CleanMeansSaved, IssuedOK

\* A draft that is inserted shows a saved request nobody else shows, or is dirty.
LEMMA InsertKeepsRows ==
  ASSUME TypeOK, RowsInv, NEW d \in Drafts, NEW c \in Valid,
         NEW s \in SavedRequests \union {None}, NEW isDirty \in BOOLEAN,
         InsertDraft(d, c, s, isDirty),
         s # None => s \in Existing /\ saved[s] = c /\ \A e \in Open : tabSaved[e] # s,
         s = None => isDirty
  PROVE  RowsInv'
  <1>1. d \notin Open /\ savedOf[d] = None
    BY DEF RowsInv, IssuedOK, InsertDraft, OneTabPerSavedRequest
  <1>2. /\ content' = [content EXCEPT ![d] = c]
        /\ dirty' = IF isDirty THEN dirty \union {d} ELSE dirty
        /\ savedOf' = [savedOf EXCEPT ![d] = s]
        /\ tabSaved' = [tabSaved EXCEPT ![d] = s]
        /\ issued' = issued \union {d}
        /\ saved' = saved
    BY DEF InsertDraft
  <1>3. Open' = Open \union {d} /\ Existing' = Existing
    BY <1>1, <1>2 DEF TypeOK
  <1>4. OneTabPerSavedRequest'
    BY <1>1, <1>2, <1>3 DEF TypeOK, RowsInv, OneTabPerSavedRequest
  <1>5. CleanMeansSaved'
    BY <1>1, <1>2, <1>3 DEF TypeOK, RowsInv, CleanMeansSaved
  <1>6. IssuedOK'
    BY <1>1, <1>2, <1>3 DEF TypeOK, RowsInv, IssuedOK
  <1> QED
    BY <1>4, <1>5, <1>6 DEF RowsInv

\* save_draft gives a draft that had none a new saved request, which no other
\* draft can know.
LEMMA TargetsLemma ==
  ASSUME TypeOK, RowsInv, NEW d \in Open, NEW s \in Targets(d), s \in SavedRequests
  PROVE  \A e \in Drafts \ {d} : savedOf[e] # s
  BY DEF TypeOK, RowsInv, OneTabPerSavedRequest, IssuedOK, Targets

LEMMA SaveKeepsRows ==
  ASSUME TypeOK, RowsInv, NEW d \in Drafts, NEW s \in SavedRequests, SaveDraft(d, s)
  PROVE  RowsInv'
  <1>1. /\ content' = Flushed(Pending)
        /\ saved' = [saved EXCEPT ![s] = Flushed(Pending)[d]]
        /\ dirty' = (dirty \union Pending) \ {d}
        /\ savedOf' = [savedOf EXCEPT ![d] = s]
        /\ tabSaved' = [tabSaved EXCEPT ![d] = s]
        /\ issued' = issued \union {s}
        /\ d \in Open /\ s \in Targets(d)
    BY DEF SaveDraft, Stores
  <1>2. /\ content' \in [Drafts -> Valid \union {None}]
        /\ \A e \in Drafts : content'[e] = None <=> content[e] = None
        /\ \A e \in Drafts \ Pending : content'[e] = content[e]
    BY <1>1, FullFlushLemma DEF SaveDraft
  <1>3. \A e \in Drafts \ {d} : savedOf[e] # s
    BY <1>1, TargetsLemma
  <1>4. Open' = Open /\ Existing' = Existing \union {s}
    BY <1>1, <1>2 DEF TypeOK
  <1>5. OneTabPerSavedRequest'
    BY <1>1, <1>3, <1>4 DEF TypeOK, RowsInv, OneTabPerSavedRequest
  <1>6. CleanMeansSaved'
    BY <1>1, <1>2, <1>3, <1>4 DEF TypeOK, RowsInv, CleanMeansSaved
  <1>7. IssuedOK'
    BY <1>1, <1>4 DEF RowsInv, IssuedOK
  <1> QED
    BY <1>5, <1>6, <1>7 DEF RowsInv

LEMMA CloseSavingKeepsRows ==
  ASSUME TypeOK, RowsInv, NEW d \in Drafts, NEW s \in SavedRequests, CloseSaving(d, s)
  PROVE  RowsInv'
  <1>1. /\ content' = [Flushed(Pending) EXCEPT ![d] = None]
        /\ saved' = [saved EXCEPT ![s] = Flushed(Pending)[d]]
        /\ dirty' = (dirty \union Pending) \ {d}
        /\ savedOf' = [e \in Drafts |-> IF e \in {d} THEN None ELSE savedOf[e]]
        /\ tabSaved' = [e \in Drafts |-> IF e \in {d} THEN None ELSE tabSaved[e]]
        /\ issued' = issued \union {s}
        /\ d \in Open /\ s \in Targets(d)
    BY DEF CloseSaving, DeleteDrafts
  <1>2. /\ Flushed(Pending) \in [Drafts -> Valid \union {None}]
        /\ \A e \in Drafts : Flushed(Pending)[e] = None <=> content[e] = None
        /\ \A e \in Drafts \ Pending : Flushed(Pending)[e] = content[e]
    BY <1>1, FullFlushLemma DEF CloseSaving
  <1>3. \A e \in Drafts \ {d} : savedOf[e] # s
    BY <1>1, TargetsLemma
  <1>4. Open' = Open \ {d} /\ Existing' = Existing \union {s}
    BY <1>1, <1>2 DEF TypeOK
  <1>5. OneTabPerSavedRequest'
    BY <1>1, <1>3, <1>4 DEF TypeOK, RowsInv, OneTabPerSavedRequest
  <1>6. CleanMeansSaved'
    BY <1>1, <1>2, <1>3, <1>4 DEF TypeOK, RowsInv, CleanMeansSaved
  <1>7. IssuedOK'
    BY <1>1, <1>4 DEF RowsInv, IssuedOK
  <1> QED
    BY <1>5, <1>6, <1>7 DEF RowsInv

LEMMA RelinkKeepsRows ==
  ASSUME TypeOK, RowsInv, RelinkBodyFiles
  PROVE  RowsInv'
  <1> DEFINE flushed == Flushed(Pending)
  <1>1. /\ saved' = [s \in SavedRequests |-> Relink(saved[s])]
        /\ content' = [d \in Drafts |-> Relink(flushed[d])]
        /\ dirty' = dirty \union Pending \union {d \in Open : Relink(flushed[d]) # flushed[d]}
        /\ UNCHANGED <<savedOf, tabSaved, issued>>
    BY DEF RelinkBodyFiles, tabVars
  <1>2. /\ flushed \in [Drafts -> Valid \union {None}]
        /\ \A e \in Drafts : flushed[e] = None <=> content[e] = None
        /\ \A e \in Drafts \ Pending : flushed[e] = content[e]
    BY FullFlushLemma DEF RelinkBodyFiles
  <1> HIDE DEF flushed
  <1>3. \A c \in Valid \union {None} :
          Relink(c) \in Valid \union {None} /\ (Relink(c) = None <=> c = None)
    BY DEF Relink
  <1>4. Open' = Open /\ Existing' = Existing
    BY <1>1, <1>2, <1>3 DEF TypeOK
  <1>5. OneTabPerSavedRequest' /\ IssuedOK'
    BY <1>1, <1>4 DEF RowsInv, OneTabPerSavedRequest, IssuedOK
  <1>6. CleanMeansSaved'
    BY <1>1, <1>2, <1>4 DEF TypeOK, RowsInv, OneTabPerSavedRequest, CleanMeansSaved
  <1> QED
    BY <1>5, <1>6 DEF RowsInv

\* Deleting the drafts of R, and the saved requests of S that no other draft shows.
LEMMA DeleteKeepsRows ==
  ASSUME TypeOK, RowsInv, NEW R \in SUBSET Drafts, NEW S \in SUBSET SavedRequests,
         DeleteDrafts(R),
         content' = [d \in Drafts |-> IF d \in R THEN None ELSE content[d]],
         dirty' = dirty \ R,
         saved' = [s \in SavedRequests |-> IF s \in S THEN None ELSE saved[s]],
         \A d \in Open \ R : savedOf[d] \notin S,
         UNCHANGED issued
  PROVE  RowsInv'
  <1>1. /\ savedOf' = [d \in Drafts |-> IF d \in R THEN None ELSE savedOf[d]]
        /\ tabSaved' = [d \in Drafts |-> IF d \in R THEN None ELSE tabSaved[d]]
    BY DEF DeleteDrafts
  <1>2. Open' = Open \ R /\ Existing' = Existing \ S
    BY DEF TypeOK
  <1>3. OneTabPerSavedRequest'
    BY <1>1, <1>2 DEF TypeOK, RowsInv, OneTabPerSavedRequest
  <1>4. CleanMeansSaved'
    BY <1>1, <1>2 DEF TypeOK, RowsInv, CleanMeansSaved
  <1>5. IssuedOK'
    BY <1>2 DEF RowsInv, IssuedOK
  <1> QED
    BY <1>3, <1>4, <1>5 DEF RowsInv

LEMMA RowsInit == Init => RowsInv
  BY DEF Init, RowsInv, OneTabPerSavedRequest, CleanMeansSaved, IssuedOK

LEMMA RowsStep == TypeOK /\ RowsInv /\ [Next]_vars => RowsInv'
  <1> SUFFICES ASSUME TypeOK, RowsInv, [Next]_vars
               PROVE  RowsInv'
    OBVIOUS
  <1>1. ASSUME UNCHANGED <<draftVars, tabVars, saved, issued>>
        PROVE  RowsInv'
    BY <1>1 DEF draftVars, tabVars, RowsInv, OneTabPerSavedRequest, CleanMeansSaved, IssuedOK
  <1>2. ASSUME NEW d \in Drafts, NEW c \in Contents, Edit(d, c)
        PROVE  RowsInv'
    BY <1>1, <1>2 DEF Edit
  <1>3. ASSUME NEW d \in Drafts, QueueDraftUpdate(d)
        PROVE  RowsInv'
    BY <1>1, <1>3 DEF QueueDraftUpdate
  <1>4. ASSUME NEW W \in SUBSET Drafts,
               FlushPendingDrafts(W) \/ Quit(W) \/ Crash(W) \/ RelinkBodyFilesFails(W)
        PROVE  RowsInv'
    BY <1>4, WritingSteps, WriteKeepsRows
  <1>5. ASSUME NEW d \in Drafts, NEW W \in SUBSET Drafts,
               SaveDraftFails(d, W) \/ CloseSavingFails(d, W)
        PROVE  RowsInv'
    BY <1>5, WritingSteps, WriteKeepsRows
  <1>6. ASSUME NEW d \in Drafts, NEW c \in Contents, OpenUnsavedTab(d, c)
        PROVE  RowsInv'
    BY <1>6, InsertKeepsRows DEF OpenUnsavedTab
  <1>7. ASSUME NEW d \in Drafts, NEW s \in SavedRequests, OpenSavedRequestTab(s, d)
        PROVE  RowsInv'
    <2>1. s \in Existing /\ saved[s] \in Valid /\ s # None
      BY <1>7 DEF OpenSavedRequestTab, TypeOK
    <2> QED
      BY <1>7, <2>1, InsertKeepsRows DEF OpenSavedRequestTab
  <1>8. ASSUME NEW s \in SavedRequests, ActivateTab(s)
        PROVE  RowsInv'
    BY <1>8 DEF ActivateTab, draftVars, RowsInv, OneTabPerSavedRequest, CleanMeansSaved,
                IssuedOK
  <1>9. ASSUME NEW s \in SavedRequests, NEW c \in Contents, CreateSavedRequest(s, c)
        PROVE  RowsInv'
    BY <1>9 DEF CreateSavedRequest, draftVars, tabVars, TypeOK, RowsInv,
                OneTabPerSavedRequest, CleanMeansSaved, IssuedOK
  <1>10. ASSUME NEW d \in Drafts, NEW s \in SavedRequests, SaveDraft(d, s)
         PROVE  RowsInv'
    BY <1>10, SaveKeepsRows
  <1>11. ASSUME NEW d \in Drafts, NEW s \in SavedRequests, CloseSaving(d, s)
         PROVE  RowsInv'
    BY <1>11, CloseSavingKeepsRows
  <1>12. ASSUME NEW d \in Drafts, CloseDiscarding(d)
         PROVE  RowsInv'
    <2>1. content' = [e \in Drafts |-> IF e \in {d} THEN None ELSE content[e]]
      BY <1>12 DEF CloseDiscarding, TypeOK
    <2>2. saved' = [s \in SavedRequests |-> IF s \in {} THEN None ELSE saved[s]]
      BY <1>12 DEF CloseDiscarding, TypeOK
    <2>3. /\ {d} \in SUBSET Drafts /\ {} \in SUBSET SavedRequests
          /\ DeleteDrafts({d}) /\ dirty' = dirty \ {d} /\ UNCHANGED issued
          /\ \A e \in Open \ {d} : savedOf[e] \notin {}
      BY <1>12 DEF CloseDiscarding
    <2> HIDE DEF DeleteDrafts
    <2> QED
      BY <2>1, <2>2, <2>3, DeleteKeepsRows
  <1>13. ASSUME NEW R \in SUBSET SavedRequests, DeleteSavedRequests(R)
         PROVE  RowsInv'
    <2>1. \A d \in Open \ OpenedFrom(R) : savedOf[d] \notin R
      BY DEF OpenedFrom
    <2>2. OpenedFrom(R) \in SUBSET Drafts
      BY DEF OpenedFrom
    <2> QED
      BY <1>13, <2>1, <2>2, DeleteKeepsRows DEF DeleteSavedRequests
  <1>14. CASE RelinkBodyFiles
    BY <1>14, RelinkKeepsRows
  <1>15. CASE UNCHANGED vars
    BY <1>1, <1>15 DEF vars
  <1> QED
    BY <1>2, <1>3, <1>4, <1>5, <1>6, <1>7, <1>8, <1>9, <1>10, <1>11, <1>12, <1>13,
       <1>14, <1>15 DEF Next, Command, FailingCommand

LEMMA RowsInvariant == Spec => [](TypeOK /\ RowsInv)
  BY TypeInit, TypeStep, RowsInit, RowsStep, PTL DEF Spec

\* A saved request is open in one tab at most, and the tab and its draft agree on
\* a request that exists, through every order of saves, closes and deletions.
THEOREM OneTab == Spec => []OneTabPerSavedRequest
  <1>1. RowsInv => OneTabPerSavedRequest
    BY DEF RowsInv
  <1> QED
    BY <1>1, RowsInvariant, PTL

\* A draft that is not dirty shows exactly what is saved.
THEOREM CleanDraftsAreSaved == Spec => []CleanMeansSaved
  <1>1. RowsInv => CleanMeansSaved
    BY DEF RowsInv
  <1> QED
    BY <1>1, RowsInvariant, PTL

-----------------------------------------------------------------------------
(* What a step never does *)

\* A draft that was closed or deleted does not come back: an edit of it that is
\* flushed late is refused, and its id is not drawn again.
LEMMA ClosedStep ==
  ASSUME TypeOK, [Next]_vars, NEW d \in (Drafts \intersect issued) \ Open
  PROVE  content'[d] = None
  <1>1. content[d] = None
    OBVIOUS
  <1>2. ASSUME UNCHANGED content
        PROVE  content'[d] = None
    BY <1>1, <1>2
  <1>3. ASSUME NEW W, WroteOnly(W)
        PROVE  content'[d] = None
    BY <1>1, <1>3, FlushLemma DEF WroteOnly
  <1>4. ASSUME NEW W \in SUBSET Drafts,
               \/ FlushPendingDrafts(W) \/ Quit(W) \/ Crash(W) \/ RelinkBodyFilesFails(W)
               \/ \E e \in Drafts : SaveDraftFails(e, W) \/ CloseSavingFails(e, W)
        PROVE  content'[d] = None
    BY <1>3, <1>4, WritingSteps
  <1>5. ASSUME NEW e \in Drafts, NEW c, NEW s, NEW isDirty, InsertDraft(e, c, s, isDirty)
        PROVE  content'[d] = None
    BY <1>1, <1>5 DEF InsertDraft, TypeOK
  <1>6. ASSUME NEW e \in Drafts, NEW s \in SavedRequests, SaveDraft(e, s) \/ CloseSaving(e, s)
        PROVE  content'[d] = None
    <2>1. Flushed(Pending) \in [Drafts -> Valid \union {None}] /\ Flushed(Pending)[d] = None
      BY <1>1, <1>6, FullFlushLemma DEF SaveDraft, CloseSaving
    <2>2. content' \in {Flushed(Pending), [Flushed(Pending) EXCEPT ![e] = None]}
      BY <1>6 DEF SaveDraft, CloseSaving, Stores
    <2> QED
      BY ONLY <2>1, <2>2
  <1>7. ASSUME NEW e \in Drafts, CloseDiscarding(e)
        PROVE  content'[d] = None
    BY <1>1, <1>7 DEF CloseDiscarding, TypeOK
  <1>8. ASSUME NEW R \in SUBSET SavedRequests, DeleteSavedRequests(R)
        PROVE  content'[d] = None
    BY <1>1, <1>8 DEF DeleteSavedRequests
  <1>9. ASSUME RelinkBodyFiles
        PROVE  content'[d] = None
    <2>1. Flushed(Pending)[d] = None
      BY <1>1, <1>9, FullFlushLemma DEF RelinkBodyFiles
    <2>2. content'[d] = Relink(Flushed(Pending)[d])
      BY <1>9 DEF RelinkBodyFiles
    <2> QED
      BY ONLY <2>1, <2>2 DEF Relink
  <1> QED
    BY <1>2, <1>4, <1>5, <1>6, <1>7, <1>8, <1>9
       DEF Next, Command, FailingCommand, Edit, QueueDraftUpdate, ActivateTab,
           CreateSavedRequest, OpenUnsavedTab, OpenSavedRequestTab, vars, draftVars

\* A draft that was closed or deleted does not come back with an edit that was
\* pending or on its way (close_draft, delete_saved_request, the autosave).
THEOREM ClosedDraftsStayClosed == Spec => ClosedStaysClosed
  <1>1. TypeOK /\ [Next]_vars =>
          [\A d \in (Drafts \intersect issued) \ Open : content'[d] = None]_vars
    BY ClosedStep DEF Open
  <1> QED
    BY <1>1, TypeCorrect, PTL DEF Spec, ClosedStaysClosed

\* A saved request changes only to what the draft opened from it last was.
LEMMA SavedStep ==
  ASSUME TypeOK, RowsInv, [Next]_vars, NEW s \in Existing,
         saved'[s] \notin {None, saved[s], Relinked[saved[s]]}
  PROVE  \E d \in Open : savedOf[d] = s /\ saved'[s] = Current(d)
  <1>1. ASSUME UNCHANGED saved
        PROVE  FALSE
    BY <1>1
  <1>2. ASSUME NEW d \in Drafts, NEW t \in SavedRequests, SaveDraft(d, t) \/ CloseSaving(d, t)
        PROVE  d \in Open /\ savedOf[d] = s /\ saved'[s] = Current(d)
    <2>1. /\ d \in Open /\ t \in Targets(d) /\ Unstorable = {}
          /\ saved' = [saved EXCEPT ![t] = Flushed(Pending)[d]]
      BY <1>2 DEF SaveDraft, CloseSaving, Stores
    <2>2. t = s
      BY <2>1 DEF TypeOK
    <2>3. savedOf[d] = s
      BY <2>1, <2>2 DEF Targets, RowsInv, IssuedOK
    <2>4. saved'[s] = Current(d)
      BY <2>1, <2>2, FullFlushLemma DEF TypeOK
    <2> QED
      BY <2>1, <2>3, <2>4
  <1>3. ASSUME NEW t \in SavedRequests, NEW c \in Contents, CreateSavedRequest(t, c)
        PROVE  FALSE
    BY <1>3 DEF CreateSavedRequest, TypeOK, RowsInv, IssuedOK
  <1>4. ASSUME NEW R \in SUBSET SavedRequests, DeleteSavedRequests(R)
        PROVE  FALSE
    BY <1>4 DEF DeleteSavedRequests
  <1>5. ASSUME RelinkBodyFiles
        PROVE  FALSE
    BY <1>5 DEF RelinkBodyFiles, Relink
  <1>6. ASSUME NEW W \in SUBSET Drafts,
               \/ FlushPendingDrafts(W) \/ Quit(W) \/ Crash(W) \/ RelinkBodyFilesFails(W)
               \/ \E d \in Drafts : SaveDraftFails(d, W) \/ CloseSavingFails(d, W)
        PROVE  FALSE
    BY <1>1, <1>6, WritingSteps DEF WroteOnly
  <1> QED
    BY <1>1, <1>2, <1>3, <1>4, <1>5, <1>6
       DEF Next, Command, FailingCommand, Edit, QueueDraftUpdate, ActivateTab,
           OpenUnsavedTab, OpenSavedRequestTab, InsertDraft, CloseDiscarding, vars

\* A saved request changes only by a save of the draft opened from it, and to the
\* last content the service was given (save_draft, flush_pending_drafts).
THEOREM SavingOnlyChangesSaved == Spec => SavedChangesOnlyBySaving
  <1>1. TypeOK /\ RowsInv /\ [Next]_vars =>
          [\A s \in Existing :
             saved'[s] \in {None, saved[s], Relinked[saved[s]]}
               \/ \E d \in Open : savedOf[d] = s /\ saved'[s] = Current(d)]_vars
    BY SavedStep
  <1> QED
    BY <1>1, RowsInvariant, PTL DEF Spec, SavedChangesOnlyBySaving

\* While every pending edit can be stored, each step but a crash leaves every
\* open draft as its user left it: written, pending, relinked, or newly edited.
LEMMA EditsStep ==
  ASSUME TypeOK, RowsInv, [Next]_vars, Unstorable = {}, answer'.command # "crash",
         NEW d \in Open, content'[d] # None
  PROVE  \/ Current(d)' \in {Current(d), Relinked[Current(d)]}
         \/ sent[d] # None /\ Current(d)' = sent[d]
  <1>1. Current(d)' = IF pending'[d] # None THEN pending'[d] ELSE content'[d]
    BY DEF Current
  <1>2. Flushed(Pending) \in [Drafts -> Valid \union {None}] /\ Flushed(Pending)[d] = Current(d)
    BY FullFlushLemma
  <1>3. ASSUME pending' = pending, content'[d] = content[d]
        PROVE  Current(d)' = Current(d)
    BY <1>3 DEF Current
  <1>4. ASSUME EmptiesPending, content'[d] = Current(d)
        PROVE  Current(d)' = Current(d)
    BY <1>1, <1>4 DEF EmptiesPending
  <1>5. ASSUME NEW e \in Drafts, QueueDraftUpdate(e)
        PROVE  Current(d)' = Current(d) \/ (sent[d] # None /\ Current(d)' = sent[d])
    <2>1. /\ content' = content /\ sent[e] # None
          /\ pending' = [pending EXCEPT ![e] = sent[e]]
      BY <1>5 DEF QueueDraftUpdate, draftVars
    <2>2. pending'[d] = IF e = d THEN sent[d] ELSE pending[d]
      BY <2>1 DEF TypeOK
    <2>3. CASE e = d
      BY ONLY <1>1, <2>1, <2>2, <2>3
    <2>4. CASE e # d
      BY ONLY <1>1, <2>1, <2>2, <2>4 DEF Current
    <2> QED
      BY <2>3, <2>4
  <1>6. ASSUME NEW W, Flush(W) \/ Quit(W)
        PROVE  Current(d)' = Current(d)
    <2>1. W = Pending
      BY <1>6 DEF Flush, Quit, FlushOutcomes
    <2>2. content'[d] = Current(d) /\ pending' = [e \in Drafts |-> None]
      BY <1>2, <1>6, <2>1 DEF Flush, Quit, EmptiesPending
    <2> QED
      BY ONLY <1>1, <2>2, d \in Open DEF Open
  <1>7. ASSUME NEW W, Crash(W)
        PROVE  FALSE
    BY <1>7 DEF Crash, Answers
  <1>8. ASSUME NEW e, NEW c, NEW s, NEW isDirty, InsertDraft(e, c, s, isDirty)
        PROVE  Current(d)' = Current(d)
    <2>1. e # d
      BY <1>8 DEF InsertDraft, RowsInv, IssuedOK
    <2> QED
      BY <1>3, <1>8, <2>1 DEF InsertDraft, TypeOK, memoryVars
  <1>9. ASSUME NEW e \in Drafts, NEW s \in SavedRequests, SaveDraft(e, s) \/ CloseSaving(e, s)
        PROVE  Current(d)' = Current(d)
    <2>1. content' \in {Flushed(Pending), [Flushed(Pending) EXCEPT ![e] = None]} /\ EmptiesPending
      BY <1>9 DEF SaveDraft, CloseSaving, Stores
    <2>2. content'[d] = Flushed(Pending)[d]
      BY ONLY <1>2, <2>1, d \in Open, content'[d] # None DEF Open
    <2> QED
      BY <1>2, <1>4, <2>1, <2>2
  <1>10. ASSUME NEW R, DeleteSavedRequests(R)
         PROVE  Current(d)' = Current(d)
    BY <1>3, <1>10 DEF DeleteSavedRequests, memoryVars
  <1>11. ASSUME NEW e, CloseDiscarding(e)
         PROVE  Current(d)' = Current(d)
    BY <1>3, <1>11 DEF CloseDiscarding, TypeOK, memoryVars
  <1>12. ASSUME RelinkBodyFiles
         PROVE  Current(d)' \in {Current(d), Relinked[Current(d)]}
    <2>1. content'[d] = Relink(Current(d)) /\ pending' = [e \in Drafts |-> None]
      BY <1>2, <1>12 DEF RelinkBodyFiles, EmptiesPending
    <2> QED
      BY ONLY <1>1, <2>1, d \in Open DEF Open, Relink
  <1>13. ASSUME UNCHANGED <<pending, content>>
         PROVE  Current(d)' = Current(d)
    BY <1>3, <1>13
  <1> QED
    BY <1>5, <1>6, <1>7, <1>8, <1>9, <1>10, <1>11, <1>12, <1>13
       DEF Next, Command, FailingCommand, Edit, ActivateTab, CreateSavedRequest,
           OpenUnsavedTab, OpenSavedRequestTab, FlushPendingDrafts, SaveDraftFails,
           CloseSavingFails, RelinkBodyFilesFails, vars, memoryVars, draftVars

\* No command loses an edit of an open draft while no pending edit is refused,
\* quitting included (queue_draft_update, flush_pending_drafts).
THEOREM EditsAreKept == Spec => EditsSurvive
  <1>1. TypeOK /\ RowsInv /\ [Next]_vars =>
          [Unstorable = {} /\ answer'.command # "crash" =>
             \A d \in Open :
               content'[d] # None =>
                 \/ Current(d)' \in {Current(d), Relinked[Current(d)]}
                 \/ sent[d] # None /\ Current(d)' = sent[d]]_vars
    BY EditsStep
  <1> QED
    BY <1>1, RowsInvariant, PTL DEF Spec, EditsSurvive

-----------------------------------------------------------------------------
(* The tabs are in order *)

HIDE DEF Open, Existing

\* Different numbers below the size of a set are all the numbers below it.
LEMMA DenseLemma ==
  ASSUME NEW S, IsFiniteSet(S), NEW p,
         \A d \in S : p[d] \in 0..(Cardinality(S) - 1),
         \A d, e \in S : p[d] = p[e] => d = e
  PROVE  {p[d] : d \in S} = 0..(Cardinality(S) - 1)
  <1> DEFINE n == Cardinality(S)
             T == 0..(n - 1)
             f == [d \in S |-> p[d]]
  <1>1. n \in Nat
    BY FS_CardinalityType
  <1>2. IsFiniteSet(T) /\ Cardinality(T) = n
    <2>1. 0 \in Int /\ n - 1 \in Int
      BY <1>1
    <2>2. IsFiniteSet(T) /\ Cardinality(T) = IF 0 > n - 1 THEN 0 ELSE (n - 1) - 0 + 1
      BY <2>1, FS_Interval
    <2> HIDE DEF T
    <2> QED
      BY ONLY <1>1, <2>2
  <1>3. f \in [S -> T] /\ \A d, e \in S : f[d] = f[e] => d = e
    OBVIOUS
  <1>4. f \in Injection(S, T)
    BY <1>3, Fun_IsInj
  <1> HIDE DEF f, T, n
  <1>5. f \in Surjection(S, T)
    BY <1>2, <1>4, FS_Injection DEF n
  <1>6. \A t \in T : \E d \in S : f[d] = t
    BY <1>5, Fun_SurjectionProperties
  <1> QED
    BY <1>3, <1>6 DEF f, T, n

Below(S, p, d) == {e \in S : p[e] < p[d]}

\* Counting the elements in front of each numbers a set from 0, in its order.
LEMMA RankLemma ==
  ASSUME NEW S, IsFiniteSet(S), NEW p,
         \A d \in S : p[d] \in Int,
         \A d, e \in S : p[d] = p[e] => d = e
  PROVE  /\ \A d \in S : Cardinality(Below(S, p, d)) \in 0..(Cardinality(S) - 1)
         /\ \A d, e \in S : Cardinality(Below(S, p, d)) = Cardinality(Below(S, p, e)) => d = e
  <1>1. ASSUME NEW d \in S
        PROVE  /\ IsFiniteSet(Below(S, p, d))
               /\ Cardinality(Below(S, p, d)) \in 0..(Cardinality(S) - 1)
    <2>1. d \notin Below(S, p, d) /\ Below(S, p, d) \in SUBSET S
      BY DEF Below
    <2>2. Below(S, p, d) \in SUBSET (S \ {d})
      BY <2>1
    <2>3. IsFiniteSet(S \ {d}) /\ Cardinality(S \ {d}) = Cardinality(S) - 1
      BY FS_RemoveElement
    <2>4. /\ IsFiniteSet(Below(S, p, d))
          /\ Cardinality(Below(S, p, d)) <= Cardinality(S) - 1
      BY <2>2, <2>3, FS_Subset
    <2>5. Cardinality(Below(S, p, d)) \in Nat /\ Cardinality(S) \in Nat
      BY <2>4, FS_CardinalityType
    <2> QED
      BY ONLY <2>4, <2>5
  <1>2. ASSUME NEW d \in S, NEW e \in S, p[d] < p[e]
        PROVE  Cardinality(Below(S, p, d)) < Cardinality(Below(S, p, e))
    <2>1. /\ d \in Below(S, p, e)
          /\ Below(S, p, d) \in SUBSET (Below(S, p, e) \ {d})
      BY <1>2 DEF Below
    <2>2. /\ IsFiniteSet(Below(S, p, e) \ {d})
          /\ Cardinality(Below(S, p, e) \ {d}) = Cardinality(Below(S, p, e)) - 1
      BY <1>1, <2>1, FS_RemoveElement
    <2>3. Cardinality(Below(S, p, d)) <= Cardinality(Below(S, p, e)) - 1
      BY <2>1, <2>2, FS_Subset
    <2>4. Cardinality(Below(S, p, d)) \in Nat /\ Cardinality(Below(S, p, e)) \in Nat
      BY <1>1, FS_CardinalityType
    <2> QED
      BY ONLY <2>3, <2>4
  <1>3. ASSUME NEW d \in S, NEW e \in S, d # e
        PROVE  Cardinality(Below(S, p, d)) # Cardinality(Below(S, p, e))
    <2>1. p[d] < p[e] \/ p[e] < p[d]
      BY <1>3
    <2>2. Cardinality(Below(S, p, d)) \in Nat /\ Cardinality(Below(S, p, e)) \in Nat
      BY <1>1, FS_CardinalityType
    <2> QED
      BY <1>2, <2>1, <2>2
  <1> QED
    BY <1>1, <1>3

\* The tabs are finitely many, their positions differ and are below their number;
\* nothing but one draft is active.
TabsInv ==
  /\ IsFiniteSet(Open)
  /\ position \in [Drafts -> Nat]
  /\ \A d \in Open : position[d] \in 0..(Cardinality(Open) - 1)
  /\ \A d, e \in Open : position[d] = position[e] => d = e
  /\ \E d \in Drafts \union {None} : active \subseteq {d}

LEMMA TabsInvMeansOrder == TabsInv => TabsInOrder
  <1> SUFFICES ASSUME TabsInv
               PROVE  TabsInOrder
    OBVIOUS
  <1>1. {position[d] : d \in Open} = 0..(Cardinality(Open) - 1)
    BY DenseLemma DEF TabsInv
  <1>2. Cardinality(active) <= 1
    <2>1. PICK d : active \in SUBSET {d}
      BY DEF TabsInv
    <2>2. IsFiniteSet({d}) /\ Cardinality({d}) = 1
      BY FS_Singleton
    <2> QED
      BY <2>1, <2>2, FS_Subset
  <1> QED
    BY <1>1, <1>2 DEF TabsInOrder

LEMMA TabsInit == Init => TabsInv
  <1> SUFFICES ASSUME Init
               PROVE  TabsInv
    OBVIOUS
  <1>1. Open = {} /\ active = {}
    BY DEF Init, Open
  <1> QED
    BY <1>1, FS_EmptySet DEF TabsInv, Init

\* The tabs and their order are what they were.
LEMMA SameTabs ==
  ASSUME TabsInv, Open' = Open, UNCHANGED <<position, active>>
  PROVE  TabsInv'
  BY DEF TabsInv

\* A new tab stands behind all others.
LEMMA NextTabPositionIs ==
  ASSUME TabsInv
  PROVE  NextTabPosition = Cardinality(Open)
  <1> DEFINE n == Cardinality(Open)
             P == {position[d] : d \in Open}
  <1>1. n \in Nat
    BY FS_CardinalityType DEF TabsInv
  <1>2. CASE Open = {}
    BY <1>2, FS_EmptySet DEF NextTabPosition
  <1>3. CASE Open # {}
    <2>1. n > 0
      BY <1>1, <1>3, FS_EmptySet DEF TabsInv
    <2>2. P = 0..(n - 1)
      BY DenseLemma DEF TabsInv
    <2>3. n - 1 \in P /\ \A d \in Open : position[d] \in P
      BY ONLY <1>1, <2>1, <2>2
    <2> DEFINE Highest(m) == \A d \in Open : position[d] <= m
    <2>4. \A d \in Open : position[d] \in 0..(n - 1)
      BY DEF TabsInv
    <2>5. n - 1 \in P /\ Highest(n - 1)
      BY ONLY <1>1, <2>3, <2>4
    <2>6. ASSUME NEW m \in P, Highest(m)
          PROVE  m = n - 1
      <3>1. m \in 0..(n - 1)
        BY <2>2
      <3>2. PICK d \in Open : position[d] = n - 1
        BY <2>3
      <3> QED
        BY ONLY <1>1, <2>6, <3>1, <3>2
    <2>7. (CHOOSE m \in P : Highest(m)) = n - 1
      <3> HIDE DEF P, Highest, n
      <3> QED
        BY ONLY <2>5, <2>6
    <2>8. NextTabPosition = 1 + (CHOOSE m \in P : Highest(m))
      BY <1>3 DEF NextTabPosition
    <2>9. NextTabPosition = 1 + (n - 1)
      <3> HIDE DEF P, Highest, n
      <3> QED
        BY ONLY <2>7, <2>8
    <2> QED
      BY ONLY <1>1, <2>9
  <1> QED
    BY <1>2, <1>3

LEMMA InsertKeepsTabs ==
  ASSUME TypeOK, RowsInv, TabsInv, NEW d \in Drafts, NEW c \in Valid, NEW s, NEW isDirty,
         InsertDraft(d, c, s, isDirty)
  PROVE  TabsInv'
  <1> DEFINE n == Cardinality(Open)
  <1>1. d \notin Open
    BY DEF RowsInv, IssuedOK, InsertDraft
  <1>2. Open' = Open \union {d}
    BY DEF InsertDraft, TypeOK, Open
  <1>3. IsFiniteSet(Open') /\ Cardinality(Open') = n + 1 /\ n \in Nat
    BY <1>1, <1>2, FS_AddElement, FS_CardinalityType DEF TabsInv
  <1>4. /\ \A e \in Open : position'[e] = position[e]
        /\ position'[d] = n
    <2>1. position' = [position EXCEPT ![d] = n]
      BY NextTabPositionIs DEF InsertDraft
    <2> QED
      BY <1>1, <2>1 DEF TabsInv, Open
  <1>5. \A e \in Open' : position'[e] \in 0..((n + 1) - 1)
    BY <1>2, <1>3, <1>4 DEF TabsInv
  <1>6. \A e, f \in Open' : position'[e] = position'[f] => e = f
    BY <1>2, <1>3, <1>4 DEF TabsInv
  <1>7. active' = {d} /\ position' \in [Drafts -> Nat]
    BY <1>3, NextTabPositionIs DEF InsertDraft, TabsInv
  <1> QED
    BY <1>3, <1>5, <1>6, <1>7 DEF TabsInv

\* The tabs that stay are numbered anew, in their order.
LEMMA DeleteKeepsTabs ==
  ASSUME TabsInv, NEW R, DeleteDrafts(R), Open' = Open \ R
  PROVE  TabsInv'
  <1> DEFINE S == Open \ R
  <1>1. IsFiniteSet(S) /\ S \subseteq Open /\ S \subseteq Drafts
    BY FS_Subset DEF TabsInv, Open
  <1>2. /\ \A d \in S : position[d] \in Int
        /\ \A d, e \in S : position[d] = position[e] => d = e
    BY <1>1 DEF TabsInv
  <1> HIDE DEF S
  <1>3. /\ \A d \in S : Cardinality(Below(S, position, d)) \in 0..(Cardinality(S) - 1)
        /\ \A d, e \in S :
             Cardinality(Below(S, position, d)) = Cardinality(Below(S, position, e)) => d = e
    BY <1>1, <1>2, RankLemma
  <1>4. position' = [d \in Drafts |-> IF d \in S THEN Cardinality(Below(S, position, d)) ELSE 0]
    BY DEF DeleteDrafts, CompactTabPositions, Below, S
  <1>5. \A d \in S : position'[d] = Cardinality(Below(S, position, d))
    BY <1>1, <1>4
  <1>6. position' \in [Drafts -> Nat]
    BY <1>3, <1>4
  <1>7. /\ \A d \in S : position'[d] \in 0..(Cardinality(S) - 1)
        /\ \A d, e \in S : position'[d] = position'[e] => d = e
    BY <1>3, <1>5
  <1>8. \E d \in Drafts \union {None} : active' \subseteq {d}
    BY DEF DeleteDrafts, TabsInv
  <1>9. Open' = S
    BY DEF S
  <1> QED
    BY <1>1, <1>6, <1>7, <1>8, <1>9 DEF TabsInv

\* A command disturbs the order by opening or deleting, never by writing.
LEMMA TabsStep == TypeOK /\ RowsInv /\ TabsInv /\ [Next]_vars => TabsInv'
  <1> SUFFICES ASSUME TypeOK, RowsInv, TabsInv, [Next]_vars
               PROVE  TabsInv'
    OBVIOUS
  <1>1. ASSUME UNCHANGED <<content, position, active>>
        PROVE  TabsInv'
    BY <1>1, SameTabs DEF Open
  <1>2. ASSUME NEW d \in Drafts, (\E c \in Contents : Edit(d, c)) \/ QueueDraftUpdate(d)
        PROVE  TabsInv'
    BY <1>1, <1>2 DEF Edit, QueueDraftUpdate, draftVars, tabVars
  <1>3. ASSUME NEW W, WroteOnly(W)
        PROVE  TabsInv'
    <2>1. \A d \in Drafts : Flushed(W)[d] = None <=> content[d] = None
      BY <1>3, FlushLemma DEF WroteOnly, Open
    <2>2. Open' = Open
      BY <1>3, <2>1 DEF WroteOnly, Open
    <2> QED
      BY <1>3, <2>2, SameTabs DEF WroteOnly, tabVars
  <1>4. ASSUME NEW W \in SUBSET Drafts,
               \/ FlushPendingDrafts(W) \/ Quit(W) \/ Crash(W) \/ RelinkBodyFilesFails(W)
               \/ \E d \in Drafts : SaveDraftFails(d, W) \/ CloseSavingFails(d, W)
        PROVE  TabsInv'
    BY <1>3, <1>4, WritingSteps
  <1>5. ASSUME NEW d \in Drafts, NEW c \in Contents, OpenUnsavedTab(d, c)
        PROVE  TabsInv'
    BY <1>5, InsertKeepsTabs DEF OpenUnsavedTab
  <1>6. ASSUME NEW d \in Drafts, NEW s \in SavedRequests, OpenSavedRequestTab(s, d)
        PROVE  TabsInv'
    <2>1. saved[s] \in Valid
      BY <1>6 DEF OpenSavedRequestTab, TypeOK, Existing
    <2> QED
      BY <1>6, <2>1, InsertKeepsTabs DEF OpenSavedRequestTab
  <1>7. ASSUME NEW s \in SavedRequests, ActivateTab(s)
        PROVE  TabsInv'
    <2>1. Open' = Open /\ position' = position
      BY <1>7 DEF ActivateTab, draftVars, Open
    <2>2. \E d \in Drafts \union {None} : active' \subseteq {d}
      BY <1>7 DEF ActivateTab, Open
    <2> QED
      BY <2>1, <2>2 DEF TabsInv
  <1>8. ASSUME NEW s \in SavedRequests, NEW c \in Contents, CreateSavedRequest(s, c)
        PROVE  TabsInv'
    BY <1>1, <1>8 DEF CreateSavedRequest, draftVars, tabVars
  <1>9. ASSUME NEW d \in Drafts, NEW s \in SavedRequests, SaveDraft(d, s)
        PROVE  TabsInv'
    <2>1. \A e \in Drafts : Flushed(Pending)[e] = None <=> content[e] = None
      BY <1>9, FullFlushLemma DEF SaveDraft
    <2>2. Open' = Open
      BY <1>9, <2>1 DEF SaveDraft, Stores, Open
    <2> QED
      BY <1>9, <2>2, SameTabs DEF SaveDraft
  <1>10. ASSUME NEW d \in Drafts, NEW s \in SavedRequests, CloseSaving(d, s)
         PROVE  TabsInv'
    <2>1. /\ Flushed(Pending) \in [Drafts -> Valid \union {None}]
          /\ \A e \in Drafts : Flushed(Pending)[e] = None <=> content[e] = None
      BY <1>10, FullFlushLemma DEF CloseSaving
    <2>2. Open' = Open \ {d}
      BY <1>10, <2>1 DEF CloseSaving, Open
    <2> QED
      BY <1>10, <2>2, DeleteKeepsTabs DEF CloseSaving
  <1>11. ASSUME NEW d \in Drafts, CloseDiscarding(d)
         PROVE  TabsInv'
    <2>1. Open' = Open \ {d}
      BY <1>11 DEF CloseDiscarding, TypeOK, Open
    <2> QED
      BY <1>11, <2>1, DeleteKeepsTabs DEF CloseDiscarding
  <1>12. ASSUME NEW R \in SUBSET SavedRequests, DeleteSavedRequests(R)
         PROVE  TabsInv'
    <2>1. Open' = Open \ OpenedFrom(R)
      BY <1>12 DEF DeleteSavedRequests, Open
    <2> QED
      BY <1>12, <2>1, DeleteKeepsTabs DEF DeleteSavedRequests
  <1>13. CASE RelinkBodyFiles
    <2>1. /\ Flushed(Pending) \in [Drafts -> Valid \union {None}]
          /\ \A d \in Drafts : Flushed(Pending)[d] = None <=> content[d] = None
      BY <1>13, FullFlushLemma DEF RelinkBodyFiles
    <2>2. \A c \in Valid \union {None} : Relink(c) = None <=> c = None
      BY DEF Relink
    <2>3. \A d \in Drafts : content'[d] = Relink(Flushed(Pending)[d])
      BY <1>13 DEF RelinkBodyFiles
    <2>4. Open' = Open
      BY <2>1, <2>2, <2>3 DEF Open
    <2> QED
      BY <1>13, <2>4, SameTabs DEF RelinkBodyFiles, tabVars
  <1>14. CASE UNCHANGED vars
    BY <1>1, <1>14 DEF vars, draftVars, tabVars
  <1> QED
    BY <1>2, <1>4, <1>5, <1>6, <1>7, <1>8, <1>9, <1>10, <1>11, <1>12, <1>13, <1>14
       DEF Next, Command, FailingCommand

\* The positions of n tabs are 0 to n - 1 and one tab at most is active, however
\* they are opened, closed and deleted with their requests.
THEOREM TabsStayInOrder == Spec => []TabsInOrder
  BY TypeInit, TypeStep, RowsInit, RowsStep, TabsInit, TabsStep, TabsInvMeansOrder, PTL
     DEF Spec

=============================================================================
