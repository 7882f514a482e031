------------------------ MODULE ExecutionCoordinator ------------------------
(***************************************************************************)
(* The execution coordinator of Postmite                                   *)
(* (src-tauri/src/application/execution.rs) together with the task it      *)
(* spawns for every execution and the events that task and the upload      *)
(* stream of its request body emit.                                        *)
(*                                                                         *)
(* Two kinds of processes share the coordinator.  The main thread starts   *)
(* and cancels executions: the Tauri commands are synchronous, so one call *)
(* ends before the next begins.  Every execution has a task of its own on  *)
(* the async runtime; a step of a task is what it does between two points  *)
(* where another process can be scheduled: one critical section of the     *)
(* state mutex, one notification, one call of the sink, one await.         *)
(*                                                                         *)
(* An ExecutionId is a fresh UUID, so no id is ever started twice.         *)
(***************************************************************************)
EXTENDS Integers, FiniteSets, Sequences

CONSTANTS
  Executions,   \* the execution ids the user interface may draw
  Drafts,       \* the request drafts
  DraftOf,      \* the draft an execution runs
  Uploaders,    \* the executions whose request body is streamed
  Concurrency,  \* permits of the semaphore (8 in production)
  MaxEvents,    \* bound: events recorded for an execution before its terminal one
  None

ASSUME DraftAssumption == DraftOf \in [Executions -> Drafts]
ASSUME UploadersAssumption == Uploaders \subseteq Executions
ASSUME ConcurrencyAssumption == Concurrency \in Nat \ {0}
ASSUME MaxEventsAssumption == MaxEvents \in Nat

VARIABLES
  executions,     \* the keys of the map of live entries
  latestByDraft,  \* the execution whose events a draft still shows
  queue,          \* admission queue, first in first out
  status,         \* entry field: "Queued" or "Running"
  lastSequence,   \* entry field: number of the last event recorded
  cancelled,      \* executions whose cancellation token is cancelled
  cancelling,     \* tokens the main thread has cloned and will cancel next
  permits,        \* free permits of the semaphore
  holders,        \* tasks that own a permit
  waiters,        \* tasks whose Notified future has not been woken
  pc,             \* where each task is
  outgoing,       \* event a task has recorded and not yet given to the sink
  upload,         \* the same for the task's upload stream
  delivered       \* events in the order the sink was called with them

coordinatorVars == <<executions, latestByDraft, queue, status, lastSequence>>
permitVars == <<permits, holders>>
eventVars == <<outgoing, upload, delivered>>
vars == <<coordinatorVars, cancelled, cancelling, permitVars, waiters, pc,
          eventVars>>

TerminalKinds == {"COMPLETED", "FAILED", "CANCELLED"}

\* "PROGRESS" stands for the redirect, upload, headers and download events.
Kinds == {"STARTED", "PROGRESS"} \union TerminalKinds
Events == [sequence : Nat, kind : Kinds]

ASSUME NoneAssumption == None \notin Executions \union Events

\* Points of a task at which it has not yet been marked running.
WaitingPoints == {"arm", "check", "await", "acquire", "mark"}
Points == {"idle", "starting", "notify", "observe", "token", "running",
           "cancel", "wake", "deliver", "release", "ended"}
            \union WaitingPoints

InQueue(e) == \E i \in 1..Len(queue) : queue[i] = e
IsFront(e) == queue # <<>> /\ Head(queue) = e

\* Mutant: a draft without a latest execution accepts events of anybody.
IsLatestOrMissing(e) == latestByDraft[DraftOf[e]] \in {e, None}

IsLatest(e) == latestByDraft[DraftOf[e]] = e

\* queue.retain(|id| id != e).  An id is pushed once, so it occurs once.
Without(q, e) ==
  IF \E i \in 1..Len(q) : q[i] = e
  THEN LET at == CHOOSE i \in 1..Len(q) : q[i] = e
       IN  [i \in 1..(Len(q) - 1) |-> IF i < at THEN q[i] ELSE q[i + 1]]
  ELSE q

Init ==
  /\ executions = {}
  /\ latestByDraft = [d \in Drafts |-> None]
  /\ queue = <<>>
  /\ status = [e \in Executions |-> "Queued"]
  /\ lastSequence = [e \in Executions |-> 0]
  /\ cancelled = {}
  /\ cancelling = {}
  /\ permits = Concurrency
  /\ holders = {}
  /\ waiters = {}
  /\ pc = [e \in Executions |-> "idle"]
  /\ outgoing = [e \in Executions |-> None]
  /\ upload = [e \in Executions |-> None]
  /\ delivered = [e \in Executions |-> <<>>]

-----------------------------------------------------------------------------
(* The main thread *)

MainThreadIdle == cancelling = {} /\ \A e \in Executions : pc[e] # "starting"

\* Mutant: the new execution is pushed at the wrong end of the queue.
StartAtTheFront(e) ==
  /\ MainThreadIdle
  /\ pc[e] = "idle"
  /\ executions' = executions \union {e}
  /\ latestByDraft' = [latestByDraft EXCEPT ![DraftOf[e]] = e]
  /\ queue' = <<e>> \o queue
  /\ cancelling' = {latestByDraft[DraftOf[e]]} \intersect executions
  /\ pc' = [pc EXCEPT ![e] = "starting"]
  /\ UNCHANGED <<status, lastSequence, cancelled, permitVars, waiters, eventVars>>

\* start_with_id_observed, the critical section: the new execution becomes
\* the latest of its draft and joins the queue; the token of the live
\* execution it replaces is cloned to be cancelled after the unlock.
Start(e) ==
  /\ MainThreadIdle
  /\ pc[e] = "idle"
  /\ executions' = executions \union {e}
  /\ latestByDraft' = [latestByDraft EXCEPT ![DraftOf[e]] = e]
  /\ queue' = Append(queue, e)
  /\ cancelling' = {latestByDraft[DraftOf[e]]} \intersect executions
  /\ pc' = [pc EXCEPT ![e] = "starting"]
  /\ UNCHANGED <<status, lastSequence, cancelled, permitVars, waiters, eventVars>>

\* start_with_id_observed, after replaced.cancel(): on_queued and the spawn.
Spawn(e) ==
  /\ pc[e] = "starting"
  /\ cancelling = {}
  /\ pc' = [pc EXCEPT ![e] = "arm"]
  /\ UNCHANGED <<coordinatorVars, cancelled, cancelling, permitVars, waiters,
                 eventVars>>

\* cancel: clone the token of a live execution, unlock.
Cancel(e) ==
  /\ MainThreadIdle
  /\ e \in executions
  /\ cancelling' = {e}
  /\ UNCHANGED <<coordinatorVars, cancelled, permitVars, waiters, pc, eventVars>>

\* cancel_all, on the request to close the window: clone every live token.
CancelAll ==
  /\ MainThreadIdle
  /\ cancelling' = executions
  /\ UNCHANGED <<coordinatorVars, cancelled, permitVars, waiters, pc, eventVars>>

\* CancellationToken::cancel on a cloned token, outside the mutex.
CancelToken(e) ==
  /\ e \in cancelling
  /\ cancelled' = cancelled \union {e}
  /\ cancelling' = cancelling \ {e}
  /\ UNCHANGED <<coordinatorVars, permitVars, waiters, pc, eventVars>>

-----------------------------------------------------------------------------
(* Recording and delivering events *)

\* What record_event returns.
Recorded(e, kind) ==
  IF e \in executions /\ IsLatest(e)
  THEN [sequence |-> lastSequence[e] + 1, kind |-> kind]
  ELSE None

\* record_event has shrunk the queue and will call notify_waiters.
WakesQueue(e, kind) == e \in executions /\ kind \in TerminalKinds /\ InQueue(e)

\* Mutant: the ended execution stays in the queue.
RecordEventKeepsQueue(e, kind) ==
  LET ends == e \in executions /\ kind \in TerminalKinds
  IN
  /\ lastSequence' = IF Recorded(e, kind) # None
                     THEN [lastSequence EXCEPT ![e] = @ + 1]
                     ELSE lastSequence
  /\ executions' = IF ends THEN executions \ {e} ELSE executions
  /\ latestByDraft' = IF ends /\ IsLatest(e)
                      THEN [latestByDraft EXCEPT ![DraftOf[e]] = None]
                      ELSE latestByDraft
  /\ UNCHANGED <<status, queue>>

\* Mutant: a superseded execution returns before its entry is removed.
RecordEventSkipsSuperseded(e, kind) ==
  LET ends == e \in executions /\ kind \in TerminalKinds /\ IsLatest(e)
  IN
  /\ lastSequence' = IF Recorded(e, kind) # None
                     THEN [lastSequence EXCEPT ![e] = @ + 1]
                     ELSE lastSequence
  /\ executions' = IF ends THEN executions \ {e} ELSE executions
  /\ queue' = IF ends THEN Without(queue, e) ELSE queue
  /\ latestByDraft' = IF ends
                      THEN [latestByDraft EXCEPT ![DraftOf[e]] = None]
                      ELSE latestByDraft
  /\ UNCHANGED status

\* Mutant: the terminal event does not end the entry.
RecordEventKeepsEntry(e, kind) ==
  /\ lastSequence' = IF Recorded(e, kind) # None
                     THEN [lastSequence EXCEPT ![e] = @ + 1]
                     ELSE lastSequence
  /\ queue' = IF kind \in TerminalKinds THEN Without(queue, e) ELSE queue
  /\ UNCHANGED <<status, executions, latestByDraft>>

\* The critical section of record_event.  The entry of an ended execution is
\* removed under the lock that ends it, whether or not it was superseded.
RecordEvent(e, kind) ==
  LET ends == e \in executions /\ kind \in TerminalKinds
  IN
  /\ lastSequence' = IF Recorded(e, kind) # None
                     THEN [lastSequence EXCEPT ![e] = @ + 1]
                     ELSE lastSequence
  /\ executions' = IF ends THEN executions \ {e} ELSE executions
  /\ queue' = IF ends THEN Without(queue, e) ELSE queue
  /\ latestByDraft' = IF ends /\ IsLatest(e)
                      THEN [latestByDraft EXCEPT ![DraftOf[e]] = None]
                      ELSE latestByDraft
  /\ UNCHANGED status

\* Where a task goes once the sink has seen an event of this kind.
AfterEvent(kind) == IF kind \in TerminalKinds THEN "release" ELSE "running"

\* A task records an event, then notifies, then calls the sink.
Emit(e, kind) ==
  /\ RecordEvent(e, kind)
  /\ outgoing' = [outgoing EXCEPT ![e] = Recorded(e, kind)]
  /\ pc' = [pc EXCEPT ![e] = IF WakesQueue(e, kind) THEN "wake"
                             ELSE IF Recorded(e, kind) # None THEN "deliver"
                             ELSE AfterEvent(kind)]
  /\ UNCHANGED <<cancelled, cancelling, permitVars, waiters, upload, delivered>>

\* Notify::notify_waiters: wakes every registered Notified future.
NotifyWaiters == waiters' = {}

Wake(e) ==
  /\ pc[e] = "wake"
  /\ NotifyWaiters
  /\ pc' = [pc EXCEPT ![e] = IF outgoing[e] # None THEN "deliver" ELSE "release"]
  /\ UNCHANGED <<coordinatorVars, cancelled, cancelling, permitVars, eventVars>>

\* The task calls the sink with the event it recorded.
Deliver(e) ==
  /\ pc[e] = "deliver"
  /\ delivered' = [delivered EXCEPT ![e] = Append(@, outgoing[e])]
  /\ pc' = [pc EXCEPT ![e] = AfterEvent(outgoing[e].kind)]
  /\ outgoing' = [outgoing EXCEPT ![e] = None]
  /\ UNCHANGED <<coordinatorVars, cancelled, cancelling, permitVars, waiters,
                 upload>>

-----------------------------------------------------------------------------
(* The task: waiting for its turn *)

\* wait_until_next_in_queue: the Notified future is created before the queue
\* is looked at, so that a notification in between is not lost.
Arm(e) ==
  /\ pc[e] = "arm"
  /\ waiters' = waiters \union {e}
  /\ pc' = [pc EXCEPT ![e] = "check"]
  /\ UNCHANGED <<coordinatorVars, cancelled, cancelling, permitVars, eventVars>>

\* Mutant: whoever is in the queue may go on.
CheckAnyPosition(e) ==
  /\ pc[e] = "check"
  /\ pc' = [pc EXCEPT ![e] = IF InQueue(e) THEN "acquire" ELSE "cancel"]
  /\ waiters' = waiters \ {e}
  /\ UNCHANGED <<coordinatorVars, cancelled, cancelling, permitVars, eventVars>>

\* wait_until_next_in_queue, the critical section.
Check(e) ==
  /\ pc[e] = "check"
  /\ pc' = [pc EXCEPT ![e] = IF IsFront(e) THEN "acquire"
                             ELSE IF e \notin executions THEN "cancel"
                             ELSE "await"]
  /\ waiters' = IF IsFront(e) \/ e \notin executions THEN waiters \ {e} ELSE waiters
  /\ UNCHANGED <<coordinatorVars, cancelled, cancelling, permitVars, eventVars>>

\* notified.await returns.
Awake(e) ==
  /\ pc[e] = "await"
  /\ e \notin waiters
  /\ pc' = [pc EXCEPT ![e] = "arm"]
  /\ UNCHANGED <<coordinatorVars, cancelled, cancelling, permitVars, waiters,
                 eventVars>>

\* Mutant: waiting for a permit does not listen to the token.
LeaveCancelledInQueueOnly(e) ==
  /\ pc[e] \in {"arm", "await"}
  /\ e \in cancelled
  /\ waiters' = waiters \ {e}
  /\ pc' = [pc EXCEPT ![e] = "cancel"]
  /\ UNCHANGED <<coordinatorVars, cancelled, cancelling, permitVars, eventVars>>

\* Either select takes its cancellation branch; the other future is dropped.
LeaveCancelled(e) ==
  /\ pc[e] \in {"arm", "await", "acquire"}
  /\ e \in cancelled
  /\ waiters' = waiters \ {e}
  /\ pc' = [pc EXCEPT ![e] = "cancel"]
  /\ UNCHANGED <<coordinatorVars, cancelled, cancelling, permitVars, eventVars>>

\* Mutant: the task goes on without waiting for a permit.
AcquireAlways(e) ==
  /\ pc[e] = "acquire"
  /\ permits' = permits - 1
  /\ holders' = holders \union {e}
  /\ pc' = [pc EXCEPT ![e] = "mark"]
  /\ UNCHANGED <<coordinatorVars, cancelled, cancelling, waiters, eventVars>>

Acquire(e) ==
  /\ pc[e] = "acquire"
  /\ permits > 0
  /\ permits' = permits - 1
  /\ holders' = holders \union {e}
  /\ pc' = [pc EXCEPT ![e] = "mark"]
  /\ UNCHANGED <<coordinatorVars, cancelled, cancelling, waiters, eventVars>>

\* mark_running.  It takes the id off the queue before it looks at the token,
\* and notifies only when it answers true.
MarkRunning(e) ==
  LET admitted == IsFront(e) /\ e \in executions /\ e \notin cancelled
  IN
  /\ pc[e] = "mark"
  /\ queue' = IF IsFront(e) THEN Without(queue, e) ELSE queue
  /\ status' = IF admitted THEN [status EXCEPT ![e] = "Running"] ELSE status
  /\ pc' = [pc EXCEPT ![e] = IF admitted THEN "notify" ELSE "cancel"]
  /\ UNCHANGED <<executions, latestByDraft, lastSequence, cancelled, cancelling,
                 permitVars, waiters, eventVars>>

\* Mutant: the notification is forgotten.
NotifyRunningForgotten(e) ==
  /\ pc[e] = "notify"
  /\ pc' = [pc EXCEPT ![e] = "observe"]
  /\ UNCHANGED <<coordinatorVars, cancelled, cancelling, permitVars, waiters,
                 eventVars>>

\* The notification at the end of mark_running.
NotifyRunning(e) ==
  /\ pc[e] = "notify"
  /\ NotifyWaiters
  /\ pc' = [pc EXCEPT ![e] = "observe"]
  /\ UNCHANGED <<coordinatorVars, cancelled, cancelling, permitVars, eventVars>>

\* on_running, then the last look at the token before run is called.
Observe(e) ==
  /\ pc[e] = "observe"
  /\ pc' = [pc EXCEPT ![e] = IF e \in cancelled THEN "cancel" ELSE "token"]
  /\ UNCHANGED <<coordinatorVars, cancelled, cancelling, permitVars, waiters,
                 eventVars>>

\* emit_cancelled_if_current.
EmitCancelled(e) == pc[e] = "cancel" /\ Emit(e, "CANCELLED")

-----------------------------------------------------------------------------
(* The task: run *)

\* The access token was obtained, the request is well formed.
RunStarts(e) == pc[e] = "token" /\ Emit(e, "STARTED")

\* "token": no access token, or a bad method, URL or header; "running": a
\* transport, timeout, response or spool error.
RunFails(e) == pc[e] \in {"token", "running"} /\ Emit(e, "FAILED")

RunProgress(e) ==
  /\ pc[e] = "running"
  /\ lastSequence[e] < MaxEvents
  /\ Recorded(e, "PROGRESS") # None
  /\ Emit(e, "PROGRESS")

RunCompletes(e) == pc[e] = "running" /\ Emit(e, "COMPLETED")

\* Sending and reading select on the token.
RunCancelled(e) ==
  /\ pc[e] = "running"
  /\ e \in cancelled
  /\ Emit(e, "CANCELLED")

\* After STARTED the request is handed to the client, whose connection task
\* polls the body until it drops it, which may be after the task's own end.
Uploading(e) ==
  /\ e \in Uploaders
  /\ lastSequence[e] > 0
  /\ ~(pc[e] = "deliver" /\ outgoing[e].kind = "STARTED")

\* The upload stream records a chunk while the task is doing something else.
UploadRecords(e) ==
  /\ Uploading(e)
  /\ upload[e] = None
  /\ lastSequence[e] < MaxEvents
  /\ Recorded(e, "PROGRESS") # None
  /\ RecordEvent(e, "PROGRESS")
  /\ upload' = [upload EXCEPT ![e] = Recorded(e, "PROGRESS")]
  /\ UNCHANGED <<cancelled, cancelling, permitVars, waiters, pc, outgoing,
                 delivered>>

\* The upload stream calls the sink.
UploadDelivers(e) ==
  /\ upload[e] # None
  /\ delivered' = [delivered EXCEPT ![e] = Append(@, upload[e])]
  /\ upload' = [upload EXCEPT ![e] = None]
  /\ UNCHANGED <<coordinatorVars, cancelled, cancelling, permitVars, waiters, pc,
                 outgoing>>

\* Mutant: a task that never got a permit gives one back.
ReleaseAlways(e) ==
  /\ pc[e] = "release"
  /\ permits' = permits + 1
  /\ holders' = holders \ {e}
  /\ pc' = [pc EXCEPT ![e] = "ended"]
  /\ UNCHANGED <<coordinatorVars, cancelled, cancelling, waiters, eventVars>>

\* The task's locals are dropped, the permit among them.
Release(e) ==
  /\ pc[e] = "release"
  /\ permits' = IF e \in holders THEN permits + 1 ELSE permits
  /\ holders' = holders \ {e}
  /\ pc' = [pc EXCEPT ![e] = "ended"]
  /\ UNCHANGED <<coordinatorVars, cancelled, cancelling, waiters, eventVars>>

-----------------------------------------------------------------------------
\* What a task does on its own, without waiting for the network.
TaskStep(e) ==
  \/ Arm(e) \/ Check(e) \/ Awake(e) \/ LeaveCancelled(e) \/ Acquire(e)
  \/ MarkRunning(e) \/ NotifyRunning(e) \/ Observe(e) \/ EmitCancelled(e)
  \/ Wake(e) \/ Deliver(e) \/ Release(e)

\* What a task does when the network or the disk answers.
RunStep(e) ==
  \/ RunStarts(e) \/ RunProgress(e) \/ RunCompletes(e) \/ RunFails(e)
  \/ RunCancelled(e)

UploadStep(e) == UploadRecords(e) \/ UploadDelivers(e)

MainStep(e) == Start(e) \/ Spawn(e) \/ Cancel(e) \/ CancelToken(e)

Next ==
  \/ CancelAll
  \/ \E e \in Executions : MainStep(e) \/ TaskStep(e) \/ RunStep(e) \/ UploadStep(e)

Spec == Init /\ [][Next]_vars

\* The runtime polls every task that is ready, and a call of the main thread
\* returns.  Nothing is assumed of the network: an exchange may hang, but the
\* selects of send and of the body loop see a cancelled token.
Fairness ==
  \A e \in Executions :
    /\ WF_vars(TaskStep(e))
    /\ WF_vars(Spawn(e))
    /\ WF_vars(CancelToken(e))
    /\ WF_vars(UploadDelivers(e))
    /\ WF_vars(RunCancelled(e))

FairSpec == Spec /\ Fairness

\* In addition every exchange ends: the token request answers, and the
\* request's timeouts bound the rest.
ExchangesEnd ==
  \A e \in Executions : WF_vars(RunStarts(e) \/ RunFails(e) \/ RunCompletes(e))

ServingSpec == FairSpec /\ ExchangesEnd

-----------------------------------------------------------------------------
(* Properties *)

\* Every variable has its type.
TypeOK ==
  /\ executions \subseteq Executions
  /\ latestByDraft \in [Drafts -> Executions \union {None}]
  /\ queue \in Seq(Executions)
  /\ status \in [Executions -> {"Queued", "Running"}]
  /\ lastSequence \in [Executions -> Nat]
  /\ cancelled \subseteq Executions
  /\ cancelling \subseteq Executions
  /\ permits \in Nat
  /\ holders \subseteq Executions
  /\ waiters \subseteq Executions
  /\ pc \in [Executions -> Points]
  /\ outgoing \in [Executions -> Events \union {None}]
  /\ upload \in [Executions -> Events \union {None}]
  /\ delivered \in [Executions -> Seq(Events)]

\* Executions that have been marked running and still own their permit.
Running == {e \in holders : status[e] = "Running"}

\* However executions end (completed, failed, withdrawn before they ran,
\* cancelled on the way) no permit of the semaphore is lost or made up, so at
\* most Concurrency executions run at any time.
ConcurrencyBounded ==
  /\ permits + Cardinality(holders) = Concurrency
  /\ Cardinality(Running) <= Concurrency

\* Only the front of the queue is at the semaphore or about to be marked
\* running: mark_running can trust the front it was admitted as, and no later
\* execution overtakes it while it waits for a permit.
GateHasOneOwner ==
  \A e \in Executions : pc[e] \in {"acquire", "mark"} => IsFront(e)

\* The three collections of ExecutionState agree: the queue lists live
\* executions once each, a draft's latest execution is live and runs that
\* draft, and a task that is still to be admitted is in the queue.
StateAgrees ==
  /\ \A i, j \in 1..Len(queue) : queue[i] = queue[j] => i = j
  /\ \A i \in 1..Len(queue) : queue[i] \in executions
  /\ \A d \in Drafts :
       latestByDraft[d] # None =>
         /\ latestByDraft[d] \in executions
         /\ DraftOf[latestByDraft[d]] = d
  /\ \A e \in Executions : pc[e] \in WaitingPoints => InQueue(e)

\* A task that has returned leaves nothing of its execution behind.
NoResidue ==
  \A e \in Executions :
    pc[e] = "ended" =>
      /\ e \notin executions \union holders \union waiters
      /\ ~InQueue(e)
      /\ ~IsLatest(e)
      /\ outgoing[e] = None

\* Every event recorded for e: given to the sink or on the way to it.
Recordings(e) ==
  {delivered[e][i] : i \in 1..Len(delivered[e])}
    \union ({outgoing[e], upload[e]} \ {None})

\* The events of an execution are numbered without repetition even though two
\* emitters number them, there is at most one terminal event and it has the
\* highest number, and nothing is recorded after it.  The user interface
\* relies on this to drop what the sink delivers late.
TerminalIsLast ==
  \A e \in Executions :
    /\ \A i, j \in 1..Len(delivered[e]) :
         delivered[e][i].sequence = delivered[e][j].sequence => i = j
    /\ \A r, s \in Recordings(e) :
         /\ r.sequence = s.sequence => r = s
         /\ r.kind \in TerminalKinds => s.sequence <= r.sequence
         /\ r.kind \in TerminalKinds => e \notin executions

\* An execution is reported CANCELLED only if somebody cancelled it: no
\* interleaving makes mark_running refuse an execution nobody gave up.
CancelledOnlyOnRequest ==
  \A e \in Executions :
    \A r \in Recordings(e) : r.kind = "CANCELLED" => e \in cancelled

\* A live execution that is no longer the latest of its draft stays that way
\* and records nothing more, also after the execution that replaced it ended
\* and the draft has no latest execution at all.
SupersededStaysSilent ==
  [][\A e \in executions :
       ~IsLatest(e) => ~IsLatest(e)' /\ lastSequence'[e] = lastSequence[e]]_vars

\* Under FairSpec.  Cancelling works at every point at which the code listens
\* to the token: the task ends, without help from the network.  The one
\* exception is a task that is obtaining its access token.
CancelledTaskEnds ==
  \A e \in Executions :
    (e \in cancelled /\ pc[e] # "token") ~> pc[e] \in {"token", "ended"}

\* mark_running is about to refuse an execution that was cancelled between
\* its permit and the critical section.
WithdrawnAtTheMark(e) == pc[e] = "mark" /\ e \in cancelled

\* Under ServingSpec.  What the tests of the coordinator promise a queued
\* execution: when those before it end or are cancelled, it leaves the queue.
QueuedIsServed ==
  \A e \in Executions : InQueue(e) ~> ~InQueue(e)

\* Under FairSpec.  When exchanges end, the queue serves everybody, as long as
\* nobody is cancelled in the window between the permit and mark_running.
QueuedIsServedOutsideTheWindow ==
  ExchangesEnd /\ (\A e \in Executions : []~WithdrawnAtTheMark(e)) => QueuedIsServed

-----------------------------------------------------------------------------
(* The coordinator implements the abstract queue of executions. *)

Abstract == INSTANCE ExecutionQueue
  WITH submitted <- {e \in Executions : pc[e] # "idle"},
       waiting <- queue,
       running <- Running,
       current <- latestByDraft,
       heard <- lastSequence

\* First in first out admission, bounded concurrency, and events of nobody but
\* a draft's current execution (see ExecutionQueue).
ImplementsQueue == Abstract!Spec

=============================================================================
