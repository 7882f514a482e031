---------------------------- MODULE ExecutionView ----------------------------
(***************************************************************************)
(* From the event of an execution to what its tab shows: the handler of    *)
(* start_request_execution with its sink                                   *)
(* (src-tauri/src/ipc/boundary/handlers.rs), and the part of the user      *)
(* interface that follows executions (features/request-editor/             *)
(* RequestEditor.tsx, shared/api/execution.ts).                            *)
(*                                                                         *)
(* The coordinator is seen through its contract (see ExecutionCoordinator):*)
(* it numbers the events of an execution from 1, the last is terminal, and *)
(* an execution that was replaced records nothing more.  Events and the    *)
(* results of commands reach the user interface on ways of their own.      *)
(***************************************************************************)
EXTENDS Integers, Sequences

CONSTANTS
  Executions,  \* ids the user interface draws
  Drafts,
  DraftOf,     \* draft of each execution
  Uploads,     \* executions whose request body is streamed
  Habits,      \* what the user does besides sending requests
  MaxEvents,   \* bound: events of an execution
  None

ASSUME DraftOfAssumption == DraftOf \in [Executions -> Drafts]
ASSUME HabitsAssumption ==
  \* overlap: send again before the first start has returned;
  \* cancel: cancel executions; switch: switch to another workspace
  Habits \subseteq {"overlap", "cancel", "switch"}
ASSUME MaxEventsAssumption == MaxEvents \in Nat

VARIABLES
  stage,            \* how far the start of each execution has come
  starting,         \* execution whose start the main thread is handling
  kinds,            \* kinds of the events the coordinator has recorded
  count,            \* and their number
  cancelRequested,  \* executions whose token is cancelled
  recorded,         \* events recorded and not yet given to the sink
  initial,          \* InitialExecutionEvents of each execution
  replies,          \* executions whose start result is on its way
  events,           \* events emitted and not yet delivered
  listening,        \* executionListenerState = "ready"
  view,             \* executionsRef: the execution each draft shows
  buffered,         \* pendingExecutionEventsRef
  cancelling        \* handleCancel of a draft that awaits its result

startVars == <<stage, starting, initial, replies>>
coordinatorVars == <<kinds, count, cancelRequested>>
viewVars == <<listening, view, buffered, cancelling>>
vars == <<startVars, coordinatorVars, recorded, events, viewVars>>

TerminalKinds == {"COMPLETED", "FAILED", "CANCELLED"}

\* UPLOAD events come from the task that streams the request body, all others
\* from the task of the execution.  PROGRESS is a redirect or a download.
Kinds == {"STARTED", "UPLOAD", "HEADERS", "PROGRESS"} \union TerminalKinds

Event == [execution : Executions, sequence : 1..MaxEvents, kind : Kinds]

Init ==
  /\ stage = [e \in Executions |-> "new"]
  /\ starting = None
  /\ kinds = [e \in Executions |-> {}]
  /\ count = [e \in Executions |-> 0]
  /\ cancelRequested = {}
  /\ recorded = {}
  /\ initial = [e \in Executions |-> {}]
  /\ replies = {}
  /\ events = <<>>
  /\ listening = TRUE
  /\ view = [d \in Drafts |-> None]
  /\ buffered = {}
  /\ cancelling = [d \in Drafts |-> None]

-----------------------------------------------------------------------------
(* What the view does with an event *)

Phases == {"running", "completed", "failed", "cancelled"}
States == [execution : Executions, phase : Phases, last : 0..MaxEvents, headers : BOOLEAN]

ASSUME NoneAssumption == None \notin Executions \union States

\* Mutant: a new state without its sequence number.
QueuedUnnumbered(e) ==
  [execution |-> e, phase |-> "running", last |-> None, headers |-> FALSE]

\* createQueuedResponseExecutionState.
Queued(e) == [execution |-> e, phase |-> "running", last |-> 0, headers |-> FALSE]

\* The phase an event of this kind sets; the other kinds leave it alone.
PhaseOf == [STARTED |-> "running", COMPLETED |-> "completed",
            FAILED |-> "failed", CANCELLED |-> "cancelled"]
Sets(event) == event.kind \in DOMAIN PhaseOf

\* Mutant: an event is applied whatever was applied before it.
IsNewsAlways(v, event) == event.execution = v.execution

\* The guard of reduceResponseExecutionState.
IsNews(v, event) == event.execution = v.execution /\ event.sequence > v.last

\* applyResponseExecutionEvents, on events sorted by their sequence numbers.
Reduce(v, evs) ==
  LET news == {event \in evs : IsNews(v, event)}
      setting == {event \in news : Sets(event)}
      LastOf(S) == CHOOSE event \in S : \A other \in S : other.sequence <= event.sequence
  IN  [execution |-> v.execution,
       phase |-> IF setting = {} THEN v.phase ELSE PhaseOf[LastOf(setting).kind],
       last |-> IF news = {} THEN v.last ELSE LastOf(news).sequence,
       headers |-> v.headers \/ \E event \in news : event.kind = "HEADERS"]

Shows(d, e) == view[d] # None /\ view[d].execution = e

-----------------------------------------------------------------------------
(* Sending a request *)

\* Starts that this draft still waits for.
Outstanding(d) ==
  {e \in Executions :
     DraftOf[e] = d /\ (stage[e] \in {"persisting", "sent"} \/ starting = e \/ e \in replies)}

\* handleExecute up to the first await, persistDraft.
Execute(e) ==
  /\ listening
  /\ stage[e] = "new"
  /\ "overlap" \in Habits \/ Outstanding(DraftOf[e]) = {}
  /\ stage' = [stage EXCEPT ![e] = "persisting"]
  /\ UNCHANGED <<starting, initial, replies, coordinatorVars, recorded, events, viewVars>>

\* handleExecute after it: the view shows the execution, the command is sent.
Send(e) ==
  /\ stage[e] = "persisting"
  /\ stage' = [stage EXCEPT ![e] = "sent"]
  /\ view' = [view EXCEPT ![DraftOf[e]] = Queued(e)]
  /\ UNCHANGED <<starting, initial, replies, coordinatorVars, recorded, events,
                 listening, buffered, cancelling>>

\* handle_start_request_execution on the main thread, up to the coordinator,
\* which silences the execution of the draft that is still live.
StartBegins(e) ==
  /\ stage[e] = "sent"
  /\ starting = None
  /\ starting' = e
  /\ stage' = [f \in Executions |->
       IF f = e THEN "live"
       ELSE IF DraftOf[f] = DraftOf[e] /\ stage[f] = "live" THEN "silent"
       ELSE stage[f]]
  /\ UNCHANGED <<initial, replies, coordinatorVars, recorded, events, viewVars>>

\* The end of the handler: the initial events are closed and returned.
StartReturns(e) ==
  /\ starting = e
  /\ starting' = None
  /\ replies' = replies \union {e}
  /\ UNCHANGED <<stage, initial, coordinatorVars, recorded, events, viewVars>>

\* The handler fails before it reaches the coordinator.
StartFails(e) ==
  /\ stage[e] = "sent"
  /\ starting = None
  /\ stage' = [stage EXCEPT ![e] = "refused"]
  /\ replies' = replies \union {e}
  /\ UNCHANGED <<starting, initial, coordinatorVars, recorded, events, viewVars>>

-----------------------------------------------------------------------------
(* The coordinator and the sink *)

\* Mutant: a task does not wait for its sink.
AnyTime(e, kind) == TRUE

\* A task records an event only when its sink is done with the one before.
SinkIsFree(e, kind) ==
  \A event \in recorded :
    event.execution = e => ((event.kind = "UPLOAD") # (kind = "UPLOAD"))

\* What run_http_execution may have to report.
MayReport(e, kind) ==
  \/ kind = "STARTED" /\ "STARTED" \notin kinds[e]
  \/ kind = "UPLOAD" /\ e \in Uploads /\ "STARTED" \in kinds[e]
  \/ kind = "PROGRESS" /\ "STARTED" \in kinds[e]
  \/ kind = "HEADERS" /\ "STARTED" \in kinds[e] /\ "HEADERS" \notin kinds[e]
  \/ kind = "COMPLETED" /\ "HEADERS" \in kinds[e]
  \/ kind = "FAILED"
  \/ kind = "CANCELLED" /\ e \in cancelRequested

\* record_event; the place of the last event is kept for the terminal one.
RecordEvent(e, kind) ==
  /\ stage[e] = "live"
  /\ SinkIsFree(e, kind)
  /\ MayReport(e, kind)
  /\ count[e] < IF kind \in TerminalKinds THEN MaxEvents ELSE MaxEvents - 1
  /\ count' = [count EXCEPT ![e] = @ + 1]
  /\ kinds' = [kinds EXCEPT ![e] = @ \union {kind}]
  /\ recorded' = recorded \union
       {[execution |-> e, sequence |-> count[e] + 1, kind |-> kind]}
  /\ stage' = IF kind \in TerminalKinds THEN [stage EXCEPT ![e] = "ended"] ELSE stage
  /\ UNCHANGED <<starting, initial, replies, cancelRequested, events, viewVars>>

\* The sink: InitialExecutionEvents.push while the start is being handled, and
\* emit, which without a listener goes nowhere.
Sink(event) ==
  /\ event \in recorded
  /\ recorded' = recorded \ {event}
  /\ initial' = IF starting = event.execution
                THEN [initial EXCEPT ![event.execution] = @ \union {event}]
                ELSE initial
  /\ events' = IF listening THEN Append(events, event) ELSE events
  /\ UNCHANGED <<stage, starting, replies, coordinatorVars, viewVars>>

-----------------------------------------------------------------------------
(* The listener *)

\* The callback of listenToRequestExecutionEvents.
Deliver ==
  /\ events # <<>>
  /\ events' = Tail(events)
  /\ LET event == Head(events) IN
       IF \E d \in Drafts : Shows(d, event.execution)
       THEN /\ view' = [d \in Drafts |->
                 IF Shows(d, event.execution) THEN Reduce(view[d], {event}) ELSE view[d]]
            /\ UNCHANGED buffered
       ELSE /\ buffered' = buffered \union {event}
            /\ UNCHANGED view
  /\ UNCHANGED <<startVars, coordinatorVars, recorded, listening, cancelling>>

\* The cleanup of the effect when another workspace is selected.
Unlisten ==
  /\ "switch" \in Habits
  /\ listening
  /\ listening' = FALSE
  /\ events' = <<>>
  /\ UNCHANGED <<startVars, coordinatorVars, recorded, view, buffered, cancelling>>

\* The effect runs again and listen has resolved.
Listen ==
  /\ ~listening
  /\ listening' = TRUE
  /\ UNCHANGED <<startVars, coordinatorVars, recorded, events, view, buffered, cancelling>>

-----------------------------------------------------------------------------
(* The result of a start *)

\* Mutant: the state shown meanwhile is thrown away.
BaseAnew(e) == Queued(e)

\* The state the result is applied to.
Base(e) == IF Shows(DraftOf[e], e) THEN view[DraftOf[e]] ELSE Queued(e)

\* handleExecute when start_request_execution has returned.
Reconcile(e) ==
  /\ e \in replies
  /\ stage[e] # "refused"
  /\ replies' = replies \ {e}
  /\ LET early == {event \in buffered : event.execution = e} IN
       /\ view' = [view EXCEPT ![DraftOf[e]] = Reduce(Base(e), initial[e] \union early)]
       /\ buffered' = buffered \ early
  /\ UNCHANGED <<stage, starting, initial, coordinatorVars, recorded, events,
                 listening, cancelling>>

\* Its catch block.
Reject(e) ==
  /\ e \in replies
  /\ stage[e] = "refused"
  /\ replies' = replies \ {e}
  /\ view' = IF Shows(DraftOf[e], e)
             THEN [view EXCEPT ![DraftOf[e]].phase = "failed"]
             ELSE view
  /\ UNCHANGED <<stage, starting, initial, coordinatorVars, recorded, events,
                 listening, buffered, cancelling>>

-----------------------------------------------------------------------------
(* Cancelling *)

\* handleCancel up to its await; it remembers the state it was called with.
ClickCancel(d) ==
  /\ "cancel" \in Habits
  /\ view[d] # None
  /\ view[d].phase = "running"
  /\ cancelling[d] = None
  /\ cancelling' = [cancelling EXCEPT ![d] = [shown |-> view[d], answer |-> "awaited"]]
  /\ UNCHANGED <<startVars, coordinatorVars, recorded, events, listening, view, buffered>>

\* cancel on the main thread, after the start it follows.  A replaced execution
\* is known to the coordinator until its task has ended.
HandleCancel(d) ==
  /\ cancelling[d] # None
  /\ cancelling[d].answer = "awaited"
  /\ starting = None
  /\ LET e == cancelling[d].shown.execution IN
       /\ stage[e] # "sent"
       /\ \E known \in BOOLEAN :
            /\ stage[e] = "live" => known
            /\ known => stage[e] \in {"live", "silent"}
            /\ cancelling' = [cancelling EXCEPT ![d].answer = IF known THEN "yes" ELSE "no"]
            /\ cancelRequested' = IF known THEN cancelRequested \union {e}
                                  ELSE cancelRequested
  /\ UNCHANGED <<startVars, kinds, count, recorded, events, listening, view, buffered>>

\* Mutant: an execution that cannot be cancelled is shown as cancelled.
CancelReturnsCancelled(d) ==
  /\ cancelling[d] # None
  /\ cancelling[d].answer # "awaited"
  /\ cancelling' = [cancelling EXCEPT ![d] = None]
  /\ view' = IF cancelling[d].answer = "no"
             THEN [view EXCEPT ![d] = [cancelling[d].shown EXCEPT !.phase = "cancelled"]]
             ELSE view
  /\ UNCHANGED <<startVars, coordinatorVars, recorded, events, listening, buffered>>

\* handleCancel after its await.
CancelReturns(d) ==
  /\ cancelling[d] # None
  /\ cancelling[d].answer # "awaited"
  /\ cancelling' = [cancelling EXCEPT ![d] = None]
  /\ view' = IF cancelling[d].answer = "no"
             THEN [view EXCEPT ![d] = [cancelling[d].shown EXCEPT !.phase = "failed"]]
             ELSE view
  /\ UNCHANGED <<startVars, coordinatorVars, recorded, events, listening, buffered>>

-----------------------------------------------------------------------------
Next ==
  \/ \E e \in Executions :
       \/ Execute(e) \/ Send(e) \/ Reconcile(e) \/ Reject(e)
       \/ StartBegins(e) \/ StartReturns(e) \/ StartFails(e)
       \/ \E kind \in Kinds : RecordEvent(e, kind)
  \/ \E event \in recorded : Sink(event)
  \/ Deliver \/ Unlisten \/ Listen
  \/ \E d \in Drafts : ClickCancel(d) \/ HandleCancel(d) \/ CancelReturns(d)

Spec == Init /\ [][Next]_vars

-----------------------------------------------------------------------------
(* Properties *)

\* Every variable has its type.
TypeOK ==
  /\ stage \in [Executions -> {"new", "persisting", "sent", "live", "silent", "ended", "refused"}]
  /\ starting \in Executions \union {None}
  /\ kinds \in [Executions -> SUBSET Kinds]
  /\ count \in [Executions -> 0..MaxEvents]
  /\ cancelRequested \subseteq Executions
  /\ recorded \subseteq Event
  /\ initial \in [Executions -> SUBSET Event]
  /\ replies \subseteq Executions
  /\ events \in Seq(Event)
  /\ listening \in BOOLEAN
  /\ view \in [Drafts -> States \union {None}]
  /\ buffered \subseteq Event
  /\ cancelling \in [Drafts ->
       [shown : States, answer : {"awaited", "yes", "no"}] \union {None}]

\* Whatever the user does and in whichever order events and results arrive, a
\* tab shows an execution of its own draft, and shows it as completed, as
\* cancelled or with headers only if that is what was recorded of it.
Honest ==
  \A d \in Drafts : view[d] # None =>
    LET v == view[d] IN
      /\ DraftOf[v.execution] = d
      /\ v.phase = "completed" => "COMPLETED" \in kinds[v.execution]
      /\ v.phase = "cancelled" => "CANCELLED" \in kinds[v.execution]
      /\ v.headers => "HEADERS" \in kinds[v.execution]

\* Nothing about the execution is on its way any more.
Settled(e) ==
  /\ starting # e /\ e \notin replies
  /\ \A event \in recorded : event.execution # e
  /\ \A i \in 1..Len(events) : events[i].execution # e

\* When everything about an execution that ended has arrived, its tab shows
\* that end, however fast the events were.
ShowsTheEnd ==
  \A d \in Drafts : view[d] # None =>
    LET v == view[d] IN
      Settled(v.execution) =>
        /\ stage[v.execution] = "ended" =>
             \E kind \in kinds[v.execution] \intersect TerminalKinds : v.phase = PhaseOf[kind]
        /\ stage[v.execution] = "refused" => v.phase = "failed"

\* A tab that shows the end of an execution goes on showing it until another
\* execution takes its place.
EndIsFinal ==
  [][\A d \in Drafts :
       view[d] # None /\ view[d].phase # "running" =>
         \/ view'[d].phase = view[d].phase
         \/ view'[d].execution # view[d].execution]_vars

\* What the tests say of a completed response: a failure that arrives late does
\* not replace it.
CompletedStays ==
  [][\A d \in Drafts :
       view[d] # None /\ view[d].phase = "completed" =>
         view'[d].phase = "completed" \/ view'[d].execution # view[d].execution]_vars

\* A completed response is shown with its headers.
ShownWithHeaders ==
  \A d \in Drafts : view[d] # None => (view[d].phase = "completed" => view[d].headers)

=============================================================================
