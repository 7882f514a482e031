--------------------- MODULE ExecutionCoordinator_proofs ---------------------
(***************************************************************************)
(* Machine-checked proofs about the execution coordinator, for any number  *)
(* of executions, drafts and permits.                                      *)
(***************************************************************************)
EXTENDS ExecutionCoordinator, FiniteSetTheorems, SequenceTheorems, TLAPS

USE DEF InQueue, IsFront

-----------------------------------------------------------------------------
(* Removing an id from the queue *)

\* queue.retain yields a queue of the same elements without e, in the order in
\* which they were.
LEMMA WithoutLemma ==
  ASSUME NEW S, NEW q \in Seq(S), NEW e
  PROVE  LET w == Without(q, e)
         IN  /\ w \in Seq(S)
             /\ \A j \in 1..Len(w) : \E i \in 1..Len(q) : w[j] = q[i]
             /\ \A i \in 1..Len(q) : q[i] # e => \E j \in 1..Len(w) : w[j] = q[i]
             /\ q # <<>> /\ Head(q) # e => w # <<>> /\ Head(w) = Head(q)
  <1> DEFINE w == Without(q, e)
  <1>1. CASE ~ \E i \in 1..Len(q) : q[i] = e
    <2>1. w = q
      BY <1>1 DEF Without
    <2> QED
      BY <2>1
  <1>2. CASE \E i \in 1..Len(q) : q[i] = e
    <2> DEFINE at == CHOOSE i \in 1..Len(q) : q[i] = e
    <2>1. at \in 1..Len(q) /\ q[at] = e
      BY <1>2
    <2> HIDE DEF at
    <2>2. w = [i \in 1..(Len(q) - 1) |-> IF i < at THEN q[i] ELSE q[i + 1]]
      BY <1>2 DEF Without, at
    <2>3. Len(q) \in Nat /\ \A i \in 1..Len(q) : q[i] \in S
      BY LenProperties, ElementOfSeq
    <2>4. \A i \in 1..(Len(q) - 1) : w[i] \in S
      BY <2>1, <2>2, <2>3
    <2>5. w \in Seq(S) /\ Len(w) = Len(q) - 1
      BY <2>1, <2>2, <2>3, <2>4, IsASeq
    <2>6. \A j \in 1..Len(w) : \E i \in 1..Len(q) : w[j] = q[i]
      BY <2>1, <2>2, <2>3, <2>5
    <2>7. ASSUME NEW i \in 1..Len(q), q[i] # e
          PROVE  \E j \in 1..Len(w) : w[j] = q[i]
      <3>1. CASE i < at
        BY <3>1, <2>1, <2>2, <2>3, <2>5
      <3>2. CASE i > at
        <4>1. i - 1 \in 1..Len(w) /\ w[i - 1] = q[i]
          BY <3>2, <2>1, <2>2, <2>3, <2>5
        <4> QED
          BY <4>1
      <3>3. i # at
        BY <2>1, <2>7
      <3> QED
        BY <3>1, <3>2, <3>3, <2>1, <2>3
    <2>8. ASSUME q # <<>>, Head(q) # e
          PROVE  w # <<>> /\ Head(w) = Head(q)
      <3>1. Head(q) = q[1]
        BY <2>8
      <3>2. at > 1
        BY <2>1, <2>8, <3>1
      <3>3. 1 \in 1..Len(w) /\ w[1] = q[1]
        BY <3>2, <2>1, <2>2, <2>3, <2>5
      <3>4. w # <<>>
        BY <3>3, <2>5
      <3> QED
        BY <3>1, <3>3, <3>4, <2>5
    <2> QED
      BY <2>5, <2>6, <2>7, <2>8
  <1> QED
    BY <1>1, <1>2

\* A queue that lists an id at most once no longer lists e.
LEMMA WithoutDistinct ==
  ASSUME NEW S, NEW q \in Seq(S), NEW e,
         \A i, j \in 1..Len(q) : q[i] = q[j] => i = j
  PROVE  LET w == Without(q, e)
         IN  /\ \A i, j \in 1..Len(w) : w[i] = w[j] => i = j
             /\ \A i \in 1..Len(w) : w[i] # e
  <1> DEFINE w == Without(q, e)
  <1>1. CASE ~ \E i \in 1..Len(q) : q[i] = e
    <2>1. w = q
      BY <1>1 DEF Without
    <2> QED
      BY <1>1, <2>1
  <1>2. CASE \E i \in 1..Len(q) : q[i] = e
    <2> DEFINE at == CHOOSE i \in 1..Len(q) : q[i] = e
    <2>1. at \in 1..Len(q) /\ q[at] = e
      BY <1>2
    <2> HIDE DEF at
    <2>2. w = [i \in 1..(Len(q) - 1) |-> IF i < at THEN q[i] ELSE q[i + 1]]
      BY <1>2 DEF Without, at
    <2>3. Len(q) \in Nat /\ \A i \in 1..Len(q) : q[i] \in S
      BY LenProperties, ElementOfSeq
    <2>4. \A i \in 1..(Len(q) - 1) : w[i] \in S
      BY <2>1, <2>2, <2>3
    <2>5. Len(w) = Len(q) - 1
      BY <2>1, <2>2, <2>3, <2>4, IsASeq
    <2>6. \A i \in 1..Len(w) :
            LET k == IF i < at THEN i ELSE i + 1
            IN  k \in 1..Len(q) /\ k # at /\ w[i] = q[k]
      BY <2>1, <2>2, <2>3, <2>5
    <2>7. \A i \in 1..Len(w) : w[i] # e
      BY <2>1, <2>6
    <2>8. \A i, j \in 1..Len(w) : w[i] = w[j] => i = j
      BY <2>1, <2>3, <2>5, <2>6
    <2> QED
      BY <2>7, <2>8
  <1> QED
    BY <1>1, <1>2

-----------------------------------------------------------------------------
(* Recording an event *)

\* The critical section of record_event keeps the coordinator's state typed,
\* and it returns nothing or an event.
LEMMA RecordEventTyped ==
  ASSUME TypeOK, NEW e \in Executions, NEW kind \in Kinds, RecordEvent(e, kind)
  PROVE  /\ executions' \subseteq Executions
         /\ latestByDraft' \in [Drafts -> Executions \union {None}]
         /\ queue' \in Seq(Executions)
         /\ status' \in [Executions -> {"Queued", "Running"}]
         /\ lastSequence' \in [Executions -> Nat]
         /\ Recorded(e, kind) \in Events \union {None}
  <1>1. queue' \in Seq(Executions)
    BY WithoutLemma DEF TypeOK, RecordEvent
  <1>2. Recorded(e, kind) \in Events \union {None}
    BY DEF TypeOK, Recorded, Events
  <1>3. lastSequence' \in [Executions -> Nat]
    <2>1. [lastSequence EXCEPT ![e] = @ + 1] \in [Executions -> Nat]
      BY DEF TypeOK
    <2> QED
      BY <2>1 DEF TypeOK, RecordEvent
  <1>4. latestByDraft' \in [Drafts -> Executions \union {None}]
    <2>1. [latestByDraft EXCEPT ![DraftOf[e]] = None]
            \in [Drafts -> Executions \union {None}]
      BY DraftAssumption DEF TypeOK
    <2> QED
      BY <2>1 DEF TypeOK, RecordEvent
  <1>5. executions' \subseteq Executions
    BY DEF TypeOK, RecordEvent
  <1>6. status' \in [Executions -> {"Queued", "Running"}]
    BY DEF TypeOK, RecordEvent
  <1> QED
    BY <1>1, <1>2, <1>3, <1>4, <1>5, <1>6

-----------------------------------------------------------------------------
(* Types *)

\* A task about to call the sink has an event to call it with.
DeliverHasEvent == \A e \in Executions : pc[e] = "deliver" => outgoing[e] # None

TypeInv == TypeOK /\ DeliverHasEvent

LEMMA EmitTyped ==
  ASSUME TypeInv, NEW e \in Executions, NEW kind \in Kinds, Emit(e, kind)
  PROVE  TypeInv'
  <1>1. /\ executions' \subseteq Executions
        /\ latestByDraft' \in [Drafts -> Executions \union {None}]
        /\ queue' \in Seq(Executions)
        /\ status' \in [Executions -> {"Queued", "Running"}]
        /\ lastSequence' \in [Executions -> Nat]
        /\ Recorded(e, kind) \in Events \union {None}
    BY RecordEventTyped DEF TypeInv, Emit
  <1>2. TypeOK'
    BY <1>1 DEF TypeInv, TypeOK, Emit, AfterEvent, Points, permitVars
  <1>3. DeliverHasEvent'
    BY DEF TypeInv, TypeOK, DeliverHasEvent, Emit, AfterEvent, TerminalKinds
  <1> QED
    BY <1>2, <1>3 DEF TypeInv

LEMMA TypeStep == TypeInv /\ [Next]_vars => TypeInv'
  <1> SUFFICES ASSUME TypeInv, [Next]_vars
               PROVE  TypeInv'
    OBVIOUS
  <1> USE DEF TypeInv, TypeOK, DeliverHasEvent, Points, WaitingPoints,
              coordinatorVars, permitVars, eventVars
  <1>1. CASE CancelAll
    BY <1>1 DEF CancelAll
  <1>2. ASSUME NEW e \in Executions, Start(e)
        PROVE  TypeInv'
    <2>1. queue' \in Seq(Executions)
      BY <1>2, AppendProperties DEF Start
    <2>2. latestByDraft' \in [Drafts -> Executions \union {None}]
      BY <1>2, DraftAssumption DEF Start
    <2>3. cancelling' \subseteq Executions
      BY <1>2 DEF Start
    <2> QED
      BY <1>2, <2>1, <2>2, <2>3 DEF Start
  <1>3. ASSUME NEW e \in Executions, Spawn(e)
        PROVE  TypeInv'
    BY <1>3 DEF Spawn
  <1>4. ASSUME NEW e \in Executions, Cancel(e)
        PROVE  TypeInv'
    BY <1>4 DEF Cancel
  <1>5. ASSUME NEW e \in Executions, CancelToken(e)
        PROVE  TypeInv'
    BY <1>5 DEF CancelToken
  <1>6. ASSUME NEW e \in Executions, Arm(e)
        PROVE  TypeInv'
    BY <1>6 DEF Arm
  <1>7. ASSUME NEW e \in Executions, Check(e)
        PROVE  TypeInv'
    BY <1>7 DEF Check
  <1>8. ASSUME NEW e \in Executions, Awake(e)
        PROVE  TypeInv'
    BY <1>8 DEF Awake
  <1>9. ASSUME NEW e \in Executions, LeaveCancelled(e)
        PROVE  TypeInv'
    BY <1>9 DEF LeaveCancelled
  <1>10. ASSUME NEW e \in Executions, Acquire(e)
        PROVE  TypeInv'
    BY <1>10 DEF Acquire
  <1>11. ASSUME NEW e \in Executions, MarkRunning(e)
        PROVE  TypeInv'
    BY <1>11, WithoutLemma DEF MarkRunning
  <1>12. ASSUME NEW e \in Executions, NotifyRunning(e)
        PROVE  TypeInv'
    BY <1>12 DEF NotifyRunning, NotifyWaiters
  <1>13. ASSUME NEW e \in Executions, Observe(e)
        PROVE  TypeInv'
    BY <1>13 DEF Observe
  <1>14. ASSUME NEW e \in Executions, Wake(e)
        PROVE  TypeInv'
    BY <1>14 DEF Wake, NotifyWaiters
  <1>15. ASSUME NEW e \in Executions, Deliver(e)
        PROVE  TypeInv'
    <2>1. outgoing[e] \in Events
      BY <1>15 DEF Deliver
    <2> QED
      BY <1>15, <2>1 DEF Deliver, AfterEvent
  <1>16. ASSUME NEW e \in Executions, EmitCancelled(e) \/ RunStep(e)
        PROVE  TypeInv'
    <2>1. PICK kind \in Kinds : Emit(e, kind)
      BY <1>16 DEF EmitCancelled, RunStep, RunStarts, RunFails, RunProgress,
                   RunCompletes, RunCancelled, Kinds, TerminalKinds
    <2> QED
      BY <2>1, EmitTyped
  <1>17. ASSUME NEW e \in Executions, UploadRecords(e)
        PROVE  TypeInv'
    <2>1. RecordEvent(e, "PROGRESS") /\ "PROGRESS" \in Kinds
      BY <1>17 DEF UploadRecords, Kinds
    <2> QED
      BY <1>17, <2>1, RecordEventTyped DEF UploadRecords
  <1>18. ASSUME NEW e \in Executions, UploadDelivers(e)
        PROVE  TypeInv'
    BY <1>18 DEF UploadDelivers
  <1>19. ASSUME NEW e \in Executions, Release(e)
        PROVE  TypeInv'
    BY <1>19 DEF Release
  <1>20. CASE UNCHANGED vars
    BY <1>20 DEF vars
  <1> QED
    BY <1>1, <1>2, <1>3, <1>4, <1>5, <1>6, <1>7, <1>8, <1>9, <1>10, <1>11, <1>12, <1>13, <1>14, <1>15, <1>16, <1>17, <1>18, <1>19, <1>20
    DEF Next, MainStep, TaskStep, UploadStep

LEMMA InitTyped == Init => TypeInv
  BY ConcurrencyAssumption, EmptySeq
  DEF Init, TypeInv, TypeOK, DeliverHasEvent, Points

\* Every reachable state of the coordinator, its tasks and its event channels
\* is well typed, whatever the number of executions, drafts and permits.
THEOREM TypeCorrect == Spec => []TypeOK
  <1>1. Init => TypeInv
    BY InitTyped
  <1>2. TypeInv => TypeOK
    BY DEF TypeInv
  <1> QED
    BY <1>1, <1>2, TypeStep, PTL DEF Spec

-----------------------------------------------------------------------------
(* The queue, the entries and the gate *)

\* An execution the coordinator has not seen has no entry.
IdleIsUnknown == \A e \in Executions : pc[e] = "idle" => e \notin executions

\* A task joins the queue before it is spawned and stays until it is admitted
\* or gives up.
UnadmittedInQueue ==
  \A e \in Executions : pc[e] \in WaitingPoints \union {"starting"} => InQueue(e)

QueueInv == IdleIsUnknown /\ UnadmittedInQueue /\ StateAgrees /\ GateHasOneOwner

\* A step of one task that leaves the shared state alone.
LEMMA LocalStep ==
  ASSUME TypeInv, QueueInv,
         NEW e \in Executions, NEW p \in Points,
         UNCHANGED <<executions, latestByDraft, queue>>,
         pc' = [pc EXCEPT ![e] = p],
         p # "idle",
         p \in WaitingPoints \union {"starting"} => InQueue(e),
         p \in {"acquire", "mark"} => IsFront(e)
  PROVE  QueueInv'
  <1> USE DEF TypeInv, TypeOK, QueueInv
  <1>1. \A f \in Executions : pc'[f] = IF f = e THEN p ELSE pc[f]
    OBVIOUS
  <1>2. IdleIsUnknown'
    BY <1>1 DEF IdleIsUnknown
  <1>3. UnadmittedInQueue'
    BY <1>1 DEF UnadmittedInQueue, WaitingPoints
  <1>4. StateAgrees'
    BY <1>1, <1>3 DEF StateAgrees, UnadmittedInQueue
  <1>5. GateHasOneOwner'
    BY <1>1 DEF GateHasOneOwner
  <1> QED
    BY <1>2, <1>3, <1>4, <1>5

\* A task that is past waiting takes its id off the queue, and its entry and
\* its draft's latest execution away if they are its own.
LEMMA LeaveStep ==
  ASSUME TypeInv, QueueInv,
         NEW e \in Executions, NEW p \in Points,
         queue' = Without(queue, e),
         executions' \in {executions, executions \ {e}},
         latestByDraft' = latestByDraft \/ latestByDraft' = [latestByDraft EXCEPT ![DraftOf[e]] = None],
         IsLatest(e) /\ executions' # executions => latestByDraft' # latestByDraft,
         pc' = [pc EXCEPT ![e] = p],
         p # "idle", p \notin WaitingPoints \union {"starting"}
  PROVE  QueueInv'
  <1> USE DEF TypeInv, TypeOK, QueueInv
  <1>1. \A f \in Executions : pc'[f] = IF f = e THEN p ELSE pc[f]
    OBVIOUS
  <1>2. \A i, j \in 1..Len(queue) : queue[i] = queue[j] => i = j
    BY DEF StateAgrees
  <1>3. /\ queue' \in Seq(Executions)
        /\ \A j \in 1..Len(queue') : \E i \in 1..Len(queue) : queue'[j] = queue[i]
        /\ \A i \in 1..Len(queue) :
             queue[i] # e => \E j \in 1..Len(queue') : queue'[j] = queue[i]
        /\ queue # <<>> /\ Head(queue) # e => queue' # <<>> /\ Head(queue') = Head(queue)
    <2>1. queue \in Seq(Executions) /\ queue' = Without(queue, e)
      OBVIOUS
    <2> HIDE DEF TypeInv, TypeOK, QueueInv
    <2>2. queue' \in Seq(Executions)
      BY <2>1, WithoutLemma
    <2>3. \A j \in 1..Len(queue') : \E i \in 1..Len(queue) : queue'[j] = queue[i]
      BY <2>1, WithoutLemma
    <2>4. \A i \in 1..Len(queue) :
            queue[i] # e => \E j \in 1..Len(queue') : queue'[j] = queue[i]
      BY <2>1, WithoutLemma
    <2>5. queue # <<>> /\ Head(queue) # e => queue' # <<>> /\ Head(queue') = Head(queue)
      BY <2>1, WithoutLemma
    <2> QED
      BY <2>2, <2>3, <2>4, <2>5
  <1>4. /\ \A i, j \in 1..Len(queue') : queue'[i] = queue'[j] => i = j
        /\ \A i \in 1..Len(queue') : queue'[i] # e
    BY <1>2, WithoutDistinct
  <1>5. IdleIsUnknown'
    BY <1>1 DEF IdleIsUnknown
  <1>6. UnadmittedInQueue'
    <2> SUFFICES ASSUME NEW f \in Executions,
                        pc'[f] \in WaitingPoints \union {"starting"}
                 PROVE  \E j \in 1..Len(queue') : queue'[j] = f
      BY DEF UnadmittedInQueue
    <2>1. f # e /\ pc[f] \in WaitingPoints \union {"starting"}
      BY <1>1
    <2>2. PICK i \in 1..Len(queue) : queue[i] = f
      BY <2>1 DEF UnadmittedInQueue
    <2> QED
      BY <2>1, <2>2, <1>3
  <1>7. \A i \in 1..Len(queue') : queue'[i] \in executions'
    <2> SUFFICES ASSUME NEW i \in 1..Len(queue')
                 PROVE  queue'[i] \in executions'
      OBVIOUS
    <2>1. PICK k \in 1..Len(queue) : queue'[i] = queue[k]
      BY <1>3
    <2>2. queue[k] \in executions
      BY DEF StateAgrees
    <2> QED
      BY <2>1, <2>2, <1>4
  <1>8. ASSUME NEW d \in Drafts, latestByDraft'[d] # None
        PROVE  latestByDraft'[d] \in executions' /\ DraftOf[latestByDraft'[d]] = d
    <2>1. latestByDraft'[d] = latestByDraft[d]
      BY <1>8, DraftAssumption
    <2>2. latestByDraft[d] \in executions /\ DraftOf[latestByDraft[d]] = d
      BY <1>8, <2>1 DEF StateAgrees
    <2>3. latestByDraft[d] # e \/ executions' = executions
      BY <2>1, <2>2, <1>8, DraftAssumption DEF IsLatest
    <2> QED
      BY <2>1, <2>2, <2>3
  <1>9. StateAgrees'
    BY <1>4, <1>6, <1>7, <1>8 DEF StateAgrees, UnadmittedInQueue
  <1>10. GateHasOneOwner'
    <2> SUFFICES ASSUME NEW f \in Executions, pc'[f] \in {"acquire", "mark"}
                 PROVE  IsFront(f)'
      BY DEF GateHasOneOwner
    <2>1. f # e /\ pc[f] \in {"acquire", "mark"}
      BY <1>1 DEF WaitingPoints
    <2>2. queue # <<>> /\ Head(queue) = f
      BY <2>1 DEF GateHasOneOwner
    <2> QED
      BY <2>1, <2>2, <1>3
  <1> QED
    BY <1>5, <1>6, <1>9, <1>10

\* A new execution joins at the end of the queue.
LEMMA StartStep ==
  ASSUME TypeInv, QueueInv, NEW e \in Executions, Start(e)
  PROVE  QueueInv'
  <1> USE DEF TypeInv, TypeOK, QueueInv
  <1>1. /\ executions' = executions \union {e}
        /\ latestByDraft' = [latestByDraft EXCEPT ![DraftOf[e]] = e]
        /\ queue' = Append(queue, e)
        /\ pc' = [pc EXCEPT ![e] = "starting"]
        /\ e \notin executions
    BY DEF Start, IdleIsUnknown
  <1>2. \A f \in Executions : pc'[f] = IF f = e THEN "starting" ELSE pc[f]
    BY <1>1
  <1>3. /\ queue' \in Seq(Executions)
        /\ Len(queue) \in Nat
        /\ Len(queue') = Len(queue) + 1
        /\ \A i \in 1..Len(queue') : queue'[i] = IF i <= Len(queue) THEN queue[i] ELSE e
    BY <1>1
  <1>4. \A i \in 1..Len(queue) : queue[i] \in executions
    BY DEF StateAgrees
  <1>5. IdleIsUnknown'
    BY <1>1, <1>2 DEF IdleIsUnknown
  <1>6. UnadmittedInQueue'
    <2> SUFFICES ASSUME NEW f \in Executions,
                        pc'[f] \in WaitingPoints \union {"starting"}
                 PROVE  \E j \in 1..Len(queue') : queue'[j] = f
      BY DEF UnadmittedInQueue
    <2>1. CASE f = e
      <3>1. Len(queue) + 1 \in 1..Len(queue') /\ queue'[Len(queue) + 1] = e
        BY ONLY <1>3
      <3> QED
        BY <2>1, <3>1
    <2>2. CASE f # e
      <3>1. PICK i \in 1..Len(queue) : queue[i] = f
        BY <2>2, <1>2 DEF UnadmittedInQueue
      <3>2. i \in 1..Len(queue') /\ queue'[i] = f
        BY ONLY <3>1, <1>3
      <3> QED
        BY <3>2
    <2> QED
      BY <2>1, <2>2
  <1>7. \A i, j \in 1..Len(queue') : queue'[i] = queue'[j] => i = j
    <2>1. \A i, j \in 1..Len(queue) : queue[i] = queue[j] => i = j
      BY DEF StateAgrees
    <2>2. \A i \in 1..Len(queue) : queue[i] # e
      BY <1>1, <1>4
    <2>3. \A i \in 1..Len(queue') :
            \/ i \in 1..Len(queue) /\ queue'[i] = queue[i]
            \/ i = Len(queue) + 1 /\ queue'[i] = e
      BY ONLY <1>3
    <2> SUFFICES ASSUME NEW i \in 1..Len(queue'), NEW j \in 1..Len(queue'),
                        queue'[i] = queue'[j]
                 PROVE  i = j
      OBVIOUS
    <2>4. CASE i \in 1..Len(queue) /\ j \in 1..Len(queue)
      <3>1. queue[i] = queue[j]
        BY ONLY <2>4, <1>3, queue'[i] = queue'[j]
      <3> QED
        BY ONLY <3>1, <2>4, <2>1
    <2>5. CASE i = Len(queue) + 1 /\ j = Len(queue) + 1
      BY <2>5
    <2>6. \A k \in 1..Len(queue') : k \in 1..Len(queue) <=> queue'[k] # e
      <3> SUFFICES ASSUME NEW k \in 1..Len(queue')
                   PROVE  k \in 1..Len(queue) <=> queue'[k] # e
        OBVIOUS
      <3>1. CASE k <= Len(queue)
        BY ONLY <3>1, <1>3, <2>2, k \in 1..Len(queue')
      <3>2. CASE ~(k <= Len(queue))
        BY ONLY <3>2, <1>3, k \in 1..Len(queue')
      <3> QED
        BY <3>1, <3>2
    <2>7. i \in 1..Len(queue) <=> j \in 1..Len(queue)
      BY ONLY <2>6, queue'[i] = queue'[j], i \in 1..Len(queue'), j \in 1..Len(queue')
    <2>8. CASE i \in 1..Len(queue)
      BY <2>4, <2>7, <2>8
    <2>9. CASE i \notin 1..Len(queue)
      <3>1. i = Len(queue) + 1
        BY <2>3, <2>9
      <3>2. j = Len(queue) + 1
        BY <2>3, <2>7, <2>9
      <3> QED
        BY <2>5, <3>1, <3>2
    <2> QED
      BY <2>8, <2>9
  <1>8. \A i \in 1..Len(queue') : queue'[i] \in executions'
    <2>1. \A i \in 1..Len(queue') :
            (i \in 1..Len(queue) /\ queue'[i] = queue[i]) \/ queue'[i] = e
      BY ONLY <1>3
    <2>2. executions' = executions \union {e}
      BY <1>1
    <2> QED
      BY ONLY <2>1, <2>2, <1>4
  <1>9. ASSUME NEW d \in Drafts, latestByDraft'[d] # None
        PROVE  latestByDraft'[d] \in executions' /\ DraftOf[latestByDraft'[d]] = d
    BY <1>1, <1>9, DraftAssumption DEF StateAgrees
  <1>10. StateAgrees'
    BY <1>6, <1>7, <1>8, <1>9 DEF StateAgrees, UnadmittedInQueue
  <1>11. GateHasOneOwner'
    <2> SUFFICES ASSUME NEW f \in Executions, pc'[f] \in {"acquire", "mark"}
                 PROVE  queue' # <<>> /\ Head(queue') = f
      BY DEF GateHasOneOwner
    <2>1. pc[f] \in {"acquire", "mark"}
      BY <1>2
    <2>2. queue # <<>> /\ Head(queue) = f
      BY <2>1 DEF GateHasOneOwner
    <2>3. Head(queue) = queue[1] /\ 1 \in 1..Len(queue)
      BY <2>2, EmptySeq
    <2>4. queue'[1] = f /\ queue' # <<>>
      BY <2>2, <2>3, <1>3
    <2> QED
      BY <2>4, <1>3
  <1> QED
    BY <1>5, <1>6, <1>10, <1>11

\* What the critical section of record_event does to the three collections.
LEMMA RecordEventEffect ==
  ASSUME NEW e \in Executions, NEW kind \in Kinds, RecordEvent(e, kind)
  PROVE  \/ /\ kind \in TerminalKinds
            /\ e \in executions
            /\ executions' = executions \ {e}
            /\ queue' = Without(queue, e)
            /\ latestByDraft' = IF IsLatest(e)
                                THEN [latestByDraft EXCEPT ![DraftOf[e]] = None]
                                ELSE latestByDraft
         \/ /\ kind \in TerminalKinds => e \notin executions
            /\ UNCHANGED <<executions, queue, latestByDraft>>
  BY DEF RecordEvent

\* Points of a task at which it emits an event.
EmitPoints == {"cancel", "token", "running"}

LEMMA EmitKeepsQueueInv ==
  ASSUME TypeInv, QueueInv, NEW e \in Executions, NEW kind \in Kinds,
         pc[e] \in EmitPoints, Emit(e, kind)
  PROVE  QueueInv'
  <1> DEFINE p == IF WakesQueue(e, kind) THEN "wake"
                  ELSE IF Recorded(e, kind) # None THEN "deliver"
                  ELSE AfterEvent(kind)
  <1>1. RecordEvent(e, kind) /\ pc' = [pc EXCEPT ![e] = p]
    BY DEF Emit
  <1>2. /\ p \in Points /\ p # "idle"
        /\ p \notin WaitingPoints \union {"starting"}
    BY DEF AfterEvent, Points, WaitingPoints
  <1> HIDE DEF p
  <1>3. CASE UNCHANGED <<executions, queue, latestByDraft>>
    BY <1>1, <1>2, <1>3, LocalStep DEF WaitingPoints
  <1>4. CASE /\ e \in executions
             /\ executions' = executions \ {e}
             /\ queue' = Without(queue, e)
             /\ latestByDraft' = IF IsLatest(e)
                                 THEN [latestByDraft EXCEPT ![DraftOf[e]] = None]
                                 ELSE latestByDraft
    <2>1. IsLatest(e) => latestByDraft' # latestByDraft
      BY <1>4, DraftAssumption, NoneAssumption DEF IsLatest, TypeInv, TypeOK
    <2> QED
      BY <1>1, <1>2, <1>4, <2>1, LeaveStep
  <1> QED
    BY <1>1, <1>3, <1>4, RecordEventEffect

LEMMA QueueStep == TypeInv /\ QueueInv /\ [Next]_vars => QueueInv'
  <1> SUFFICES ASSUME TypeInv, QueueInv, [Next]_vars
               PROVE  QueueInv'
    OBVIOUS
  <1> USE DEF coordinatorVars
  <1>1. CASE CancelAll \/ UNCHANGED vars
    BY <1>1 DEF CancelAll, vars, QueueInv, IdleIsUnknown, UnadmittedInQueue,
                StateAgrees, GateHasOneOwner, IsLatest
  <1>2. ASSUME NEW e \in Executions, Start(e)
        PROVE  QueueInv'
    BY <1>2, StartStep
  <1>3. ASSUME NEW e \in Executions, Cancel(e) \/ CancelToken(e)
        PROVE  QueueInv'
    BY <1>3 DEF Cancel, CancelToken, QueueInv, IdleIsUnknown, UnadmittedInQueue,
                StateAgrees, GateHasOneOwner
  <1>4. ASSUME NEW e \in Executions,
               Spawn(e) \/ Arm(e) \/ Awake(e) \/ LeaveCancelled(e) \/ Acquire(e)
        PROVE  QueueInv'
    <2>1. InQueue(e)
      BY <1>4 DEF Spawn, Arm, Awake, LeaveCancelled, Acquire, QueueInv,
                  UnadmittedInQueue, WaitingPoints
    <2>2. pc[e] = "acquire" => IsFront(e)
      BY DEF QueueInv, GateHasOneOwner
    <2>3. \E p \in {"arm", "check", "cancel", "mark"} :
            /\ pc' = [pc EXCEPT ![e] = p]
            /\ p = "mark" => pc[e] = "acquire"
            /\ UNCHANGED <<executions, latestByDraft, queue>>
      BY <1>4 DEF Spawn, Arm, Awake, LeaveCancelled, Acquire
    <2> QED
      BY <2>1, <2>2, <2>3, LocalStep DEF Points, WaitingPoints
  <1>5. ASSUME NEW e \in Executions, Check(e)
        PROVE  QueueInv'
    <2>1. InQueue(e)
      BY <1>5 DEF Check, QueueInv, UnadmittedInQueue, WaitingPoints
    <2>2. \E p \in {"acquire", "cancel", "await"} :
            /\ pc' = [pc EXCEPT ![e] = p]
            /\ p = "acquire" => IsFront(e)
            /\ UNCHANGED <<executions, latestByDraft, queue>>
      BY <1>5 DEF Check
    <2> QED
      BY <2>1, <2>2, LocalStep DEF Points, WaitingPoints
  <1>6. ASSUME NEW e \in Executions, MarkRunning(e)
        PROVE  QueueInv'
    <2>1. IsFront(e)
      BY <1>6 DEF MarkRunning, QueueInv, GateHasOneOwner
    <2>2. \E p \in {"notify", "cancel"} :
            /\ pc' = [pc EXCEPT ![e] = p]
            /\ queue' = Without(queue, e)
            /\ UNCHANGED <<executions, latestByDraft>>
      BY <1>6, <2>1 DEF MarkRunning
    <2> QED
      BY <2>2, LeaveStep DEF Points, WaitingPoints
  <1>7. ASSUME NEW e \in Executions,
               NotifyRunning(e) \/ Observe(e) \/ Wake(e) \/ Deliver(e) \/ Release(e)
        PROVE  QueueInv'
    <2>1. \E p \in {"observe", "cancel", "token", "deliver", "release", "running",
                    "ended"} :
            /\ pc' = [pc EXCEPT ![e] = p]
            /\ UNCHANGED <<executions, latestByDraft, queue>>
      BY <1>7 DEF NotifyRunning, Observe, Wake, Deliver, Release, AfterEvent
    <2> QED
      BY <2>1, LocalStep DEF Points, WaitingPoints
  <1>8. ASSUME NEW e \in Executions, EmitCancelled(e) \/ RunStep(e)
        PROVE  QueueInv'
    <2>1. PICK kind \in Kinds : Emit(e, kind) /\ pc[e] \in EmitPoints
      BY <1>8 DEF EmitCancelled, RunStep, RunStarts, RunFails, RunProgress,
                  RunCompletes, RunCancelled, Kinds, TerminalKinds, EmitPoints
    <2> QED
      BY <2>1, EmitKeepsQueueInv
  <1>9. ASSUME NEW e \in Executions, UploadStep(e)
        PROVE  QueueInv'
    <2>1. UNCHANGED <<executions, latestByDraft, queue, pc>>
      BY <1>9 DEF UploadStep, UploadRecords, UploadDelivers, RecordEvent,
                  TerminalKinds
    <2> QED
      BY <2>1 DEF QueueInv, IdleIsUnknown, UnadmittedInQueue, StateAgrees,
                  GateHasOneOwner
  <1> QED
    BY <1>1, <1>2, <1>3, <1>4, <1>5, <1>6, <1>7, <1>8, <1>9
    DEF Next, MainStep, TaskStep

LEMMA QueueInvariance == Spec => [](TypeInv /\ QueueInv)
  <1>1. Init => TypeInv
    BY InitTyped
  <1>2. Init => QueueInv
    BY EmptySeq, NoneAssumption
    DEF Init, QueueInv, IdleIsUnknown, UnadmittedInQueue, StateAgrees,
        GateHasOneOwner, WaitingPoints
  <1> QED
    BY <1>1, <1>2, TypeStep, QueueStep, PTL DEF Spec

\* The queue, the map of entries and the map of latest executions never
\* disagree, however starts, cancellations and the ends of tasks interleave.
THEOREM StateAlwaysAgrees == Spec => []StateAgrees
  BY QueueInvariance, PTL DEF QueueInv

\* The task at the semaphore or about to be marked running is the front of the
\* queue, for any number of permits.
THEOREM OneOwnerOfTheGate == Spec => []GateHasOneOwner
  BY QueueInvariance, PTL DEF QueueInv

\* An execution that was replaced records nothing more, even after the one
\* that replaced it has ended.
THEOREM SupersededSilence == Spec => SupersededStaysSilent
  <1> DEFINE Silent == \A e \in executions :
                         ~IsLatest(e) => ~IsLatest(e)' /\ lastSequence'[e] = lastSequence[e]
  <1>1. TypeInv /\ QueueInv /\ [Next]_vars => [Silent]_vars
    <2> SUFFICES ASSUME TypeInv, QueueInv, Next,
                        NEW e \in executions, ~IsLatest(e)
                 PROVE  ~IsLatest(e)' /\ lastSequence'[e] = lastSequence[e]
      OBVIOUS
    <2> USE DEF TypeInv, TypeOK, IsLatest
    <2>1. ASSUME NEW f \in Executions, Start(f)
          PROVE  ~IsLatest(e)' /\ lastSequence'[e] = lastSequence[e]
      <3>1. f # e
        BY <2>1 DEF Start, QueueInv, IdleIsUnknown
      <3> QED
        BY <2>1, <3>1, DraftAssumption DEF Start
    <2>2. ASSUME NEW f \in Executions, NEW kind \in Kinds, RecordEvent(f, kind)
          PROVE  ~IsLatest(e)' /\ lastSequence'[e] = lastSequence[e]
      BY <2>2, DraftAssumption, NoneAssumption DEF RecordEvent, Recorded
    <2>3. CASE UNCHANGED <<latestByDraft, lastSequence>>
      BY <2>3
    <2>4. \/ UNCHANGED <<latestByDraft, lastSequence>>
          \/ \E f \in Executions : Start(f)
          \/ \E f \in Executions : \E kind \in Kinds : RecordEvent(f, kind)
      BY DEF Next, CancelAll, MainStep, Spawn, Cancel, CancelToken, TaskStep, Arm,
             Check, Awake, LeaveCancelled, Acquire, MarkRunning, NotifyRunning,
             Observe, EmitCancelled, Wake, Deliver, Release, RunStep, RunStarts,
             RunFails, RunProgress, RunCompletes, RunCancelled, UploadStep,
             UploadRecords, UploadDelivers, Emit, Kinds, TerminalKinds,
             coordinatorVars
    <2> QED
      BY <2>1, <2>2, <2>3, <2>4
  <1> QED
    BY <1>1, QueueInvariance, PTL DEF Spec, SupersededStaysSilent

-----------------------------------------------------------------------------
(* Permits *)

\* Points of a task at which it may own a permit.
HolderPoints == {"mark", "notify", "observe", "token", "running", "cancel",
                 "wake", "deliver", "release"}

\* Permits are conserved, and a task that has one is between taking it and
\* giving it back.
PermitInv ==
  /\ IsFiniteSet(holders)
  /\ permits + Cardinality(holders) = Concurrency
  /\ \A e \in holders : pc[e] \in HolderPoints

\* Running only shrinks or grows within the holders.
LEMMA RunningBounded ==
  ASSUME TypeInv, PermitInv
  PROVE  ConcurrencyBounded
  <1>1. IsFiniteSet(holders) /\ Cardinality(holders) \in Nat
    BY FS_CardinalityType DEF PermitInv
  <1>2. Cardinality(Running) <= Cardinality(holders)
    BY <1>1, FS_Subset, Running \subseteq holders DEF Running
  <1>3. Cardinality(Running) \in Nat
    BY <1>1, FS_Subset, FS_CardinalityType, Running \subseteq holders DEF Running
  <1>4. permits \in Nat /\ Concurrency \in Nat
    BY ConcurrencyAssumption DEF TypeInv, TypeOK
  <1> QED
    BY <1>1, <1>2, <1>3, <1>4 DEF PermitInv, ConcurrencyBounded

LEMMA PermitStep == TypeInv /\ PermitInv /\ [Next]_vars => PermitInv'
  <1> SUFFICES ASSUME TypeInv, PermitInv, [Next]_vars
               PROVE  PermitInv'
    OBVIOUS
  <1> USE DEF TypeInv, TypeOK, PermitInv, permitVars
  <1>1. ASSUME NEW e \in Executions, Acquire(e)
        PROVE  PermitInv'
    <2>1. e \notin holders
      BY <1>1 DEF Acquire, HolderPoints
    <2>2. IsFiniteSet(holders') /\ Cardinality(holders') = Cardinality(holders) + 1
      BY <1>1, <2>1, FS_AddElement DEF Acquire
    <2>3. permits' + Cardinality(holders') = Concurrency
      BY <1>1, <2>2, FS_CardinalityType, ConcurrencyAssumption DEF Acquire
    <2> QED
      BY <1>1, <2>2, <2>3 DEF Acquire, HolderPoints
  <1>2. ASSUME NEW e \in Executions, Release(e)
        PROVE  PermitInv'
    <2>1. IsFiniteSet(holders') /\
          Cardinality(holders') = IF e \in holders THEN Cardinality(holders) - 1
                                  ELSE Cardinality(holders)
      BY <1>2, FS_RemoveElement DEF Release
    <2>2. permits' + Cardinality(holders') = Concurrency
      BY <1>2, <2>1, FS_CardinalityType, ConcurrencyAssumption DEF Release
    <2> QED
      BY <1>2, <2>1, <2>2 DEF Release, HolderPoints
  <1>3. ASSUME UNCHANGED permitVars,
               \A e \in holders : pc'[e] \in HolderPoints
        PROVE  PermitInv'
    BY <1>3
  <1>4. ASSUME NEW e \in Executions,
               Start(e) \/ Spawn(e) \/ Arm(e) \/ Check(e) \/ Awake(e)
        PROVE  PermitInv'
    <2>1. e \notin holders
      BY <1>4 DEF Start, Spawn, Arm, Check, Awake, HolderPoints
    <2>2. UNCHANGED permitVars /\ \A f \in Executions : f # e => pc'[f] = pc[f]
      BY <1>4 DEF Start, Spawn, Arm, Check, Awake
    <2> QED
      BY <1>3, <2>1, <2>2
  <1>5. ASSUME NEW e \in Executions, LeaveCancelled(e) \/ MarkRunning(e)
               \/ NotifyRunning(e) \/ Observe(e) \/ Wake(e) \/ Deliver(e)
        PROVE  PermitInv'
    <2>1. /\ UNCHANGED permitVars
          /\ pc'[e] \in HolderPoints
          /\ \A f \in Executions : f # e => pc'[f] = pc[f]
      BY <1>5 DEF LeaveCancelled, MarkRunning, NotifyRunning, Observe, Wake,
                  Deliver, AfterEvent, HolderPoints
    <2> QED
      BY <1>3, <2>1
  <1>6. ASSUME NEW e \in Executions, EmitCancelled(e) \/ RunStep(e)
        PROVE  PermitInv'
    <2>1. PICK kind \in Kinds : Emit(e, kind)
      BY <1>6 DEF EmitCancelled, RunStep, RunStarts, RunFails, RunProgress,
                  RunCompletes, RunCancelled, Kinds, TerminalKinds
    <2>2. /\ UNCHANGED permitVars
          /\ pc'[e] \in HolderPoints
          /\ \A f \in Executions : f # e => pc'[f] = pc[f]
      BY <2>1 DEF Emit, AfterEvent, HolderPoints
    <2> QED
      BY <1>3, <2>2
  <1>7. CASE UNCHANGED <<permitVars, pc>>
    BY <1>3, <1>7
  <1> QED
    BY <1>1, <1>2, <1>4, <1>5, <1>6, <1>7
    DEF Next, CancelAll, MainStep, TaskStep, UploadStep, Cancel, CancelToken,
        UploadRecords, UploadDelivers, vars

\* Permits are neither lost nor made up, and at most Concurrency executions run
\* at any time, for any number of executions, drafts and permits.
THEOREM BoundedConcurrency == Spec => []ConcurrencyBounded
  <1>1. Init => TypeInv /\ PermitInv
    BY InitTyped, FS_EmptySet, ConcurrencyAssumption DEF Init, PermitInv
  <1> QED
    BY <1>1, TypeStep, PermitStep, RunningBounded, PTL DEF Spec

-----------------------------------------------------------------------------
(* Nobody is cancelled by accident *)

CancelInv ==
  /\ \A e \in Executions : pc[e] = "cancel" => e \in cancelled
  /\ CancelledOnlyOnRequest

\* The sink and the emitters only move recorded events around.
LEMMA DeliveryKeepsRecordings ==
  ASSUME TypeInv, NEW e \in Executions, Deliver(e) \/ UploadDelivers(e)
  PROVE  \A f \in Executions : Recordings(f)' \subseteq Recordings(f)
  <1> USE DEF TypeInv, TypeOK
  <1>1. PICK r \in Events : /\ r \in {outgoing[e], upload[e]} \ {None}
                            /\ delivered' = [delivered EXCEPT ![e] = Append(@, r)]
    <2>1. CASE Deliver(e)
      BY <2>1 DEF Deliver, DeliverHasEvent
    <2>2. CASE UploadDelivers(e)
      BY <2>2 DEF UploadDelivers
    <2> QED
      BY <2>1, <2>2
  <1>2. \A i \in 1..Len(delivered'[e]) :
          \/ delivered'[e][i] = r
          \/ i \in 1..Len(delivered[e]) /\ delivered'[e][i] = delivered[e][i]
    <2>1. delivered[e] \in Seq(Events) /\ delivered'[e] = Append(delivered[e], r)
      BY <1>1
    <2> QED
      BY ONLY <2>1, r \in Events
  <1>3. \A f \in Executions : {outgoing'[f], upload'[f]} \ {None}
                              \subseteq {outgoing[f], upload[f]} \ {None}
    BY DEF Deliver, UploadDelivers
  <1>4. ASSUME NEW f \in Executions
        PROVE  {delivered'[f][i] : i \in 1..Len(delivered'[f])} \subseteq Recordings(f)
    <2>1. CASE f = e
      BY <2>1, <1>1, <1>2 DEF Recordings
    <2>2. CASE f # e
      <3>1. delivered'[f] = delivered[f]
        BY <2>2, <1>1
      <3> QED
        BY <3>1 DEF Recordings
    <2> QED
      BY <2>1, <2>2
  <1> QED
    BY <1>3, <1>4 DEF Recordings

\* An emitter that records an event adds that event and no other.
LEMMA EmissionAddsOne ==
  ASSUME TypeInv, NEW e \in Executions, NEW kind \in Kinds,
         UNCHANGED delivered,
         \/ /\ outgoing' = [outgoing EXCEPT ![e] = Recorded(e, kind)]
            /\ UNCHANGED upload
         \/ /\ upload' = [upload EXCEPT ![e] = Recorded(e, kind)]
            /\ UNCHANGED outgoing,
         NEW f \in Executions
  PROVE  \A r \in Recordings(f)' : r \in Recordings(f) \/ (f = e /\ r.kind = kind)
  <1> SUFFICES ASSUME NEW r \in Recordings(f)', r \notin Recordings(f)
               PROVE  f = e /\ r.kind = kind
    OBVIOUS
  <1>1. f = e /\ r = Recorded(e, kind) /\ r # None
    BY DEF Recordings, TypeInv, TypeOK
  <1> QED
    BY <1>1 DEF Recorded

LEMMA CancelStep == TypeInv /\ QueueInv /\ CancelInv /\ [Next]_vars => CancelInv'
  <1> SUFFICES ASSUME TypeInv, QueueInv, CancelInv, [Next]_vars
               PROVE  CancelInv'
    OBVIOUS
  <1> USE DEF CancelInv, CancelledOnlyOnRequest, eventVars
  <1>1. ASSUME UNCHANGED eventVars,
               cancelled \subseteq cancelled',
               \A e \in Executions : pc'[e] = "cancel" => e \in cancelled'
        PROVE  CancelInv'
    <2>1. \A e \in Executions : Recordings(e)' = Recordings(e)
      BY <1>1 DEF Recordings
    <2> QED
      BY <1>1, <2>1
  <1>2. CASE UNCHANGED vars \/ CancelAll
    BY <1>1, <1>2 DEF vars, CancelAll
  <1>3. ASSUME NEW e \in Executions, Cancel(e) \/ CancelToken(e)
        PROVE  CancelInv'
    BY <1>1, <1>3 DEF Cancel, CancelToken
  <1>4. ASSUME NEW e \in Executions,
               Start(e) \/ Spawn(e) \/ Arm(e) \/ Awake(e) \/ LeaveCancelled(e)
               \/ Acquire(e) \/ NotifyRunning(e) \/ Observe(e) \/ Wake(e) \/ Release(e)
        PROVE  CancelInv'
    <2>1. /\ UNCHANGED <<eventVars, cancelled>>
          /\ pc'[e] = "cancel" => e \in cancelled
          /\ \A f \in Executions : f # e => pc'[f] = pc[f]
      BY <1>4 DEF Start, Spawn, Arm, Awake, LeaveCancelled, Acquire, NotifyRunning,
                  Observe, Wake, Release, TypeInv, TypeOK
    <2> QED
      BY <1>1, <2>1
  <1>5. ASSUME NEW e \in Executions, Check(e)
        PROVE  CancelInv'
    <2>1. InQueue(e) /\ e \in executions
      BY <1>5 DEF Check, QueueInv, UnadmittedInQueue, StateAgrees, WaitingPoints
    <2>2. /\ UNCHANGED <<eventVars, cancelled>>
          /\ \A f \in Executions : pc'[f] = "cancel" => pc[f] = "cancel"
      BY <1>5, <2>1 DEF Check, TypeInv, TypeOK
    <2> QED
      BY <1>1, <2>2
  <1>6. ASSUME NEW e \in Executions, MarkRunning(e)
        PROVE  CancelInv'
    <2>1. InQueue(e) /\ e \in executions /\ IsFront(e)
      BY <1>6 DEF MarkRunning, QueueInv, UnadmittedInQueue, StateAgrees,
                  GateHasOneOwner, WaitingPoints
    <2>2. /\ UNCHANGED <<eventVars, cancelled>>
          /\ pc'[e] = "cancel" => e \in cancelled
          /\ \A f \in Executions : f # e => pc'[f] = pc[f]
      BY <1>6, <2>1 DEF MarkRunning, TypeInv, TypeOK
    <2> QED
      BY <1>1, <2>2
  <1>7. ASSUME NEW e \in Executions, EmitCancelled(e) \/ RunStep(e)
        PROVE  CancelInv'
    <2>1. PICK kind \in Kinds : Emit(e, kind) /\ (kind = "CANCELLED" => e \in cancelled)
      BY <1>7 DEF EmitCancelled, RunStep, RunStarts, RunFails, RunProgress,
                  RunCompletes, RunCancelled, Kinds, TerminalKinds
    <2>2. \A f \in Executions : \A r \in Recordings(f)' :
            r \in Recordings(f) \/ (f = e /\ r.kind = kind)
      BY <2>1, EmissionAddsOne DEF Emit
    <2>3. \A f \in Executions : pc'[f] = "cancel" => pc[f] = "cancel"
      BY <2>1 DEF Emit, AfterEvent, TypeInv, TypeOK
    <2>4. cancelled' = cancelled
      BY <2>1 DEF Emit
    <2> QED
      BY <2>1, <2>2, <2>3, <2>4
  <1>8. ASSUME NEW e \in Executions, UploadRecords(e)
        PROVE  CancelInv'
    <2>1. \A f \in Executions : \A r \in Recordings(f)' :
            r \in Recordings(f) \/ (f = e /\ r.kind = "PROGRESS")
      BY <1>8, EmissionAddsOne, "PROGRESS" \in Kinds DEF UploadRecords, Kinds
    <2> QED
      BY <1>8, <2>1 DEF UploadRecords
  <1>9. ASSUME NEW e \in Executions, Deliver(e) \/ UploadDelivers(e)
        PROVE  CancelInv'
    <2>1. \A f \in Executions : Recordings(f)' \subseteq Recordings(f)
      BY <1>9, DeliveryKeepsRecordings
    <2>2. \A f \in Executions : pc'[f] = "cancel" => pc[f] = "cancel"
      BY <1>9 DEF Deliver, UploadDelivers, AfterEvent, TypeInv, TypeOK
    <2>3. cancelled' = cancelled
      BY <1>9 DEF Deliver, UploadDelivers
    <2> QED
      BY <2>1, <2>2, <2>3
  <1> QED
    BY <1>2, <1>3, <1>4, <1>5, <1>6, <1>7, <1>8, <1>9
    DEF Next, MainStep, TaskStep, UploadStep

\* No interleaving of starts, cancellations and tasks makes the coordinator
\* report CANCELLED for an execution whose token nobody cancelled.
THEOREM NobodyCancelledByAccident == Spec => []CancelledOnlyOnRequest
  <1>1. Init => TypeInv /\ QueueInv /\ CancelInv
    <2>1. Init => QueueInv
      BY EmptySeq, NoneAssumption
      DEF Init, QueueInv, IdleIsUnknown, UnadmittedInQueue, StateAgrees,
          GateHasOneOwner, WaitingPoints
    <2>2. Init => \A e \in Executions : Recordings(e) = {}
      BY EmptySeq DEF Init, Recordings
    <2> QED
      BY <2>1, <2>2, InitTyped DEF Init, CancelInv, CancelledOnlyOnRequest
  <1>2. CancelInv => CancelledOnlyOnRequest
    BY DEF CancelInv
  <1> QED
    BY <1>1, <1>2, TypeStep, QueueStep, CancelStep, PTL DEF Spec

-----------------------------------------------------------------------------
(* What a task leaves behind *)

\* Points of a task after its last event was recorded, or refused.
ClosingPoints == {"wake", "release", "ended"}

\* A task that has recorded its last event has no entry any more, only a task
\* on its way to the sink has an event, and only one that waits for a
\* notification is registered for it.
ResidueInv ==
  /\ \A e \in Executions : pc[e] \in ClosingPoints => e \notin executions
  /\ \A e \in Executions : outgoing[e] # None =>
       /\ pc[e] \in {"wake", "deliver"}
       /\ outgoing[e].kind \in TerminalKinds \/ pc[e] = "wake" => e \notin executions
       /\ pc[e] = "wake" => outgoing[e].kind \in TerminalKinds
  /\ \A e \in waiters : pc[e] \in {"check", "await"}

LEMMA ResidueStep == TypeInv /\ QueueInv /\ ResidueInv /\ [Next]_vars => ResidueInv'
  <1> SUFFICES ASSUME TypeInv, QueueInv, ResidueInv, [Next]_vars
               PROVE  ResidueInv'
    OBVIOUS
  <1> USE DEF TypeInv, TypeOK, ResidueInv, ClosingPoints, coordinatorVars, eventVars
  <1>1. CASE CancelAll \/ UNCHANGED vars
    BY <1>1 DEF CancelAll, vars
  <1>2. ASSUME NEW e \in Executions, Start(e)
        PROVE  ResidueInv'
    BY <1>2 DEF Start
  <1>3. ASSUME NEW e \in Executions,
               Cancel(e) \/ CancelToken(e) \/ UploadDelivers(e)
        PROVE  ResidueInv'
    BY <1>3 DEF Cancel, CancelToken, UploadDelivers
  <1>4. ASSUME NEW e \in Executions,
               Spawn(e) \/ Arm(e) \/ Check(e) \/ Awake(e) \/ LeaveCancelled(e) \/ Acquire(e)
        PROVE  ResidueInv'
    BY <1>4 DEF Spawn, Arm, Check, Awake, LeaveCancelled, Acquire
  <1>5. ASSUME NEW e \in Executions, MarkRunning(e) \/ NotifyRunning(e) \/ Observe(e)
        PROVE  ResidueInv'
    BY <1>5 DEF MarkRunning, NotifyRunning, NotifyWaiters, Observe
  <1>6. ASSUME NEW e \in Executions, Wake(e)
        PROVE  ResidueInv'
    BY <1>6 DEF Wake, NotifyWaiters
  <1>7. ASSUME NEW e \in Executions, Deliver(e)
        PROVE  ResidueInv'
    BY <1>7, NoneAssumption DEF Deliver, AfterEvent, DeliverHasEvent
  <1>8. ASSUME NEW e \in Executions, Release(e)
        PROVE  ResidueInv'
    BY <1>8 DEF Release
  <1>9. ASSUME NEW e \in Executions, EmitCancelled(e) \/ RunStep(e)
        PROVE  ResidueInv'
    <2>1. PICK kind \in Kinds : Emit(e, kind) /\ pc[e] \in EmitPoints
      BY <1>9 DEF EmitCancelled, RunStep, RunStarts, RunFails, RunProgress,
                  RunCompletes, RunCancelled, Kinds, TerminalKinds, EmitPoints
    <2>2. /\ executions' \subseteq executions
          /\ kind \in TerminalKinds => e \notin executions'
      BY <2>1, RecordEventEffect DEF Emit
    <2>3. Recorded(e, kind) # None => Recorded(e, kind).kind = kind
      BY DEF Recorded
    <2>4. /\ outgoing' = [outgoing EXCEPT ![e] = Recorded(e, kind)]
          /\ waiters' = waiters
          /\ \A f \in Executions : f # e => pc'[f] = pc[f]
          /\ \/ pc'[e] = "wake" /\ kind \in TerminalKinds
             \/ pc'[e] = "deliver" /\ Recorded(e, kind) # None
             \/ /\ pc'[e] = "release" /\ kind \in TerminalKinds
                /\ Recorded(e, kind) = None
             \/ pc'[e] = "running" /\ Recorded(e, kind) = None
      BY <2>1 DEF Emit, AfterEvent, WakesQueue
    <2>5. e \notin waiters
      BY <2>1 DEF EmitPoints
    <2> QED
      BY ONLY <2>2, <2>3, <2>4, <2>5, TypeInv, ResidueInv
      DEF TypeInv, TypeOK, ResidueInv, ClosingPoints
  <1>10. ASSUME NEW e \in Executions, UploadRecords(e)
        PROVE  ResidueInv'
    BY <1>10 DEF UploadRecords, RecordEvent, TerminalKinds
  <1> QED
    BY <1>1, <1>2, <1>3, <1>4, <1>5, <1>6, <1>7, <1>8, <1>9, <1>10
    DEF Next, MainStep, TaskStep, UploadStep

\* A task that has returned has left its entry, the queue, its draft, its
\* permit and the waiters, and every event it recorded has reached the sink.
THEOREM NothingIsLeftBehind == Spec => []NoResidue
  <1>1. Init => TypeInv /\ PermitInv /\ ResidueInv
    BY InitTyped, FS_EmptySet, ConcurrencyAssumption
    DEF Init, PermitInv, ResidueInv, ClosingPoints
  <1>2. TypeInv /\ QueueInv /\ PermitInv /\ ResidueInv => NoResidue
    <2> SUFFICES ASSUME TypeInv, QueueInv, PermitInv, ResidueInv,
                        NEW e \in Executions, pc[e] = "ended"
                 PROVE  /\ e \notin executions \union holders \union waiters
                        /\ ~InQueue(e) /\ ~IsLatest(e) /\ outgoing[e] = None
      BY DEF NoResidue
    <2>1. e \notin executions /\ e \notin waiters /\ outgoing[e] = None
      BY DEF ResidueInv, ClosingPoints
    <2>2. e \notin holders
      BY DEF PermitInv, HolderPoints
    <2>3. ~InQueue(e)
      BY <2>1 DEF QueueInv, StateAgrees, InQueue
    <2>4. ~IsLatest(e)
      BY <2>1, DraftAssumption, NoneAssumption DEF QueueInv, StateAgrees, IsLatest
    <2> QED
      BY <2>1, <2>2, <2>3, <2>4
  <1> QED
    BY <1>1, <1>2, QueueInvariance, PermitStep, ResidueStep, PTL DEF Spec

-----------------------------------------------------------------------------
(* The numbers of events *)

\* The events given to the sink have numbers of their own, and so have the two
\* on their way to it; no number is higher than the last one drawn, and the
\* terminal event, after which the execution is not live, has that one.
Numbered(e) ==
  /\ pc[e] = "idle" => lastSequence[e] = 0
  /\ \A r \in Recordings(e) :
       /\ r.sequence \in 1..lastSequence[e]
       /\ r.kind \in TerminalKinds => r.sequence = lastSequence[e] /\ e \notin executions
  /\ \A i, j \in 1..Len(delivered[e]) :
       delivered[e][i].sequence = delivered[e][j].sequence => i = j
  /\ \A r \in {outgoing[e], upload[e]} \ {None} : \A i \in 1..Len(delivered[e]) :
       delivered[e][i].sequence # r.sequence
  /\ outgoing[e] # None /\ upload[e] # None => outgoing[e].sequence # upload[e].sequence

NumberInv == \A e \in Executions : Numbered(e)

\* An execution none of whose events changes, while it is not started again.
LEMMA NumbersStay ==
  ASSUME TypeInv, NumberInv, NEW f \in Executions,
         UNCHANGED <<lastSequence[f], outgoing[f], upload[f], delivered[f]>>,
         f \in executions' => f \in executions \/ pc[f] = "idle",
         pc'[f] = "idle" => pc[f] = "idle"
  PROVE  Numbered(f)'
  <1>1. Recordings(f)' = Recordings(f)
    BY DEF Recordings
  <1>2. f \in executions' => \A r \in Recordings(f) : r.kind \notin TerminalKinds
    BY DEF NumberInv, Numbered
  <1> QED
    BY <1>1, <1>2 DEF NumberInv, Numbered

\* Recording an event of a live execution draws the next number, and that of an
\* execution that is not live draws none.
LEMMA NumberDrawn ==
  ASSUME TypeInv, NEW e \in Executions, NEW kind \in Kinds, RecordEvent(e, kind)
  PROVE  /\ \A f \in Executions : f # e => lastSequence'[f] = lastSequence[f]
         /\ executions' \subseteq executions
         /\ \/ /\ Recorded(e, kind) = None
               /\ lastSequence'[e] = lastSequence[e]
            \/ /\ Recorded(e, kind) # None
               /\ Recorded(e, kind).sequence = lastSequence[e] + 1
               /\ Recorded(e, kind).kind = kind
               /\ lastSequence'[e] = lastSequence[e] + 1
               /\ e \in executions
               /\ kind \in TerminalKinds => e \notin executions'
  <1>1. lastSequence \in [Executions -> Nat]
    BY DEF TypeInv, TypeOK
  <1>2. /\ lastSequence' = IF Recorded(e, kind) # None
                           THEN [lastSequence EXCEPT ![e] = @ + 1]
                           ELSE lastSequence
        /\ executions' = IF e \in executions /\ kind \in TerminalKinds
                         THEN executions \ {e} ELSE executions
    BY DEF RecordEvent
  <1>3. Recorded(e, kind) # None =>
          e \in executions /\ Recorded(e, kind) = [sequence |-> lastSequence[e] + 1, kind |-> kind]
    BY DEF Recorded
  <1> QED
    BY ONLY <1>1, <1>2, <1>3, e \in Executions

\* An event that is recorded gets a number that no other event has, and none
\* is recorded after the terminal one.
LEMMA NumbersOfEmission ==
  ASSUME TypeInv, NumberInv, NEW e \in Executions, NEW kind \in Kinds,
         RecordEvent(e, kind), UNCHANGED delivered,
         \/ /\ outgoing' = [outgoing EXCEPT ![e] = Recorded(e, kind)]
            /\ UNCHANGED upload
         \/ /\ upload' = [upload EXCEPT ![e] = Recorded(e, kind)]
            /\ UNCHANGED outgoing,
         \A f \in Executions : pc'[f] = "idle" => pc[f] = "idle" /\ f # e
  PROVE  NumberInv'
  <1> USE DEF TypeInv, TypeOK
  <1> DEFINE new == Recorded(e, kind)
  <1>1. /\ \A f \in Executions : f # e => lastSequence'[f] = lastSequence[f]
        /\ executions' \subseteq executions
        /\ \/ new = None /\ lastSequence'[e] = lastSequence[e]
           \/ /\ new # None /\ new.sequence = lastSequence[e] + 1 /\ new.kind = kind
              /\ lastSequence'[e] = lastSequence[e] + 1
              /\ e \in executions
              /\ kind \in TerminalKinds => e \notin executions'
    BY NumberDrawn
  <1>2. /\ \/ outgoing'[e] = new /\ upload'[e] = upload[e]
           \/ upload'[e] = new /\ outgoing'[e] = outgoing[e]
        /\ delivered'[e] = delivered[e]
    OBVIOUS
  <1> HIDE DEF new
  <1>3. ASSUME NEW f \in Executions, f # e
        PROVE  UNCHANGED <<lastSequence[f], outgoing[f], upload[f], delivered[f]>>
    BY <1>1, <1>3
  <1>4. Recordings(e)' \subseteq Recordings(e) \union ({new} \ {None})
    BY <1>2 DEF Recordings
  <1>5. /\ lastSequence[e] \in Nat
        /\ \A r \in Recordings(e) :
             /\ r.sequence \in 1..lastSequence[e]
             /\ r.kind \in TerminalKinds => r.sequence = lastSequence[e] /\ e \notin executions
    BY DEF NumberInv, Numbered
  <1>6. \A r \in Recordings(e)' :
          /\ r.sequence \in 1..lastSequence'[e]
          /\ r.kind \in TerminalKinds => r.sequence = lastSequence'[e] /\ e \notin executions'
    BY ONLY <1>1, <1>4, <1>5
  <1>7. /\ \A i \in 1..Len(delivered[e]) : delivered[e][i] \in Recordings(e)
        /\ outgoing[e] # None => outgoing[e] \in Recordings(e)
        /\ upload[e] # None => upload[e] \in Recordings(e)
    BY DEF Recordings
  <1>8. \A r \in Recordings(e) : new # None => r.sequence # new.sequence
    BY ONLY <1>1, <1>5
  <1>9. /\ \A r \in {outgoing'[e], upload'[e]} \ {None} : \A i \in 1..Len(delivered'[e]) :
             delivered'[e][i].sequence # r.sequence
        /\ outgoing'[e] # None /\ upload'[e] # None =>
             outgoing'[e].sequence # upload'[e].sequence
    BY <1>2, <1>7, <1>8 DEF NumberInv, Numbered
  <1>10. Numbered(e)'
    <2>1. /\ pc'[e] = "idle" => lastSequence'[e] = 0
          /\ \A i, j \in 1..Len(delivered'[e]) :
               delivered'[e][i].sequence = delivered'[e][j].sequence => i = j
      BY <1>2 DEF NumberInv, Numbered
    <2> QED
      BY <2>1, <1>6, <1>9 DEF Numbered
  <1>11. ASSUME NEW f \in Executions, f # e
         PROVE  Numbered(f)'
    BY <1>1, <1>3, <1>11, NumbersStay
  <1> QED
    BY <1>10, <1>11 DEF NumberInv

\* The sink only moves an event from its way to what was delivered.
LEMMA NumbersOfDelivery ==
  ASSUME TypeInv, NumberInv, NEW e \in Executions, Deliver(e) \/ UploadDelivers(e)
  PROVE  NumberInv'
  <1> USE DEF TypeInv, TypeOK
  <1>1. PICK r \in Events :
          /\ delivered' = [delivered EXCEPT ![e] = Append(@, r)]
          /\ \/ r = outgoing[e] /\ outgoing'[e] = None /\ upload'[e] = upload[e]
             \/ r = upload[e] /\ upload'[e] = None /\ outgoing'[e] = outgoing[e]
          /\ r # None
    BY DEF Deliver, UploadDelivers, DeliverHasEvent
  <1>2. /\ \A f \in Executions : f # e =>
             UNCHANGED <<outgoing[f], upload[f], delivered[f]>>
        /\ UNCHANGED <<executions, lastSequence>>
        /\ \A f \in Executions : pc'[f] = "idle" => pc[f] = "idle"
    BY DEF Deliver, UploadDelivers, AfterEvent, coordinatorVars
  <1>3. /\ Len(delivered[e]) \in Nat
        /\ Len(delivered'[e]) = Len(delivered[e]) + 1
        /\ \A i \in 1..Len(delivered'[e]) :
             delivered'[e][i] = IF i <= Len(delivered[e]) THEN delivered[e][i] ELSE r
    <2>1. delivered[e] \in Seq(Events) /\ delivered'[e] = Append(delivered[e], r)
      BY <1>1
    <2> QED
      BY ONLY <2>1, r \in Events
  <1>4. r \in {outgoing[e], upload[e]} \ {None}
    BY <1>1
  <1>5. Recordings(e)' \subseteq Recordings(e)
    BY DeliveryKeepsRecordings
  <1>6. \A i \in 1..Len(delivered[e]) : delivered[e][i].sequence # r.sequence
    BY <1>4 DEF NumberInv, Numbered
  <1>7. \A i, j \in 1..Len(delivered'[e]) :
          delivered'[e][i].sequence = delivered'[e][j].sequence => i = j
    <2>1. \A i, j \in 1..Len(delivered[e]) :
            delivered[e][i].sequence = delivered[e][j].sequence => i = j
      BY DEF NumberInv, Numbered
    <2>2. \A k \in 1..Len(delivered'[e]) :
            \/ k \in 1..Len(delivered[e]) /\ delivered'[e][k] = delivered[e][k]
            \/ k = Len(delivered[e]) + 1 /\ delivered'[e][k] = r
      BY ONLY <1>3
    <2> SUFFICES ASSUME NEW i \in 1..Len(delivered'[e]), NEW j \in 1..Len(delivered'[e]),
                        delivered'[e][i].sequence = delivered'[e][j].sequence
                 PROVE  i = j
      OBVIOUS
    <2> QED
      BY ONLY <1>6, <2>1, <2>2, i \in 1..Len(delivered'[e]), j \in 1..Len(delivered'[e]),
              delivered'[e][i].sequence = delivered'[e][j].sequence
  <1>8. \A s \in {outgoing'[e], upload'[e]} \ {None} :
          s \in {outgoing[e], upload[e]} \ {None} /\ s.sequence # r.sequence
    <2>1. outgoing[e] # None /\ upload[e] # None => outgoing[e].sequence # upload[e].sequence
      BY DEF NumberInv, Numbered
    <2> QED
      BY ONLY <1>1, <2>1
  <1>9. /\ \A s \in {outgoing'[e], upload'[e]} \ {None} : \A i \in 1..Len(delivered'[e]) :
             delivered'[e][i].sequence # s.sequence
        /\ ~(outgoing'[e] # None /\ upload'[e] # None)
    <2>1. \A s \in {outgoing[e], upload[e]} \ {None} : \A i \in 1..Len(delivered[e]) :
            delivered[e][i].sequence # s.sequence
      BY DEF NumberInv, Numbered
    <2>2. ~(outgoing'[e] # None /\ upload'[e] # None)
      BY <1>1
    <2> QED
      BY ONLY <1>3, <1>8, <2>1, <2>2
  <1>10. /\ pc'[e] = "idle" => lastSequence'[e] = 0
         /\ \A s \in Recordings(e)' :
              /\ s.sequence \in 1..lastSequence'[e]
              /\ s.kind \in TerminalKinds =>
                   s.sequence = lastSequence'[e] /\ e \notin executions'
    BY <1>2, <1>5 DEF NumberInv, Numbered
  <1>11. Numbered(e)'
    BY <1>7, <1>9, <1>10 DEF Numbered
  <1>12. ASSUME NEW f \in Executions, f # e
         PROVE  Numbered(f)'
    BY <1>2, <1>12, NumbersStay
  <1> QED
    BY <1>11, <1>12 DEF NumberInv

LEMMA NumberStep == TypeInv /\ QueueInv /\ NumberInv /\ [Next]_vars => NumberInv'
  <1> SUFFICES ASSUME TypeInv, QueueInv, NumberInv, [Next]_vars
               PROVE  NumberInv'
    OBVIOUS
  <1>1. ASSUME UNCHANGED <<lastSequence, outgoing, upload, delivered>>,
               \A f \in Executions : f \in executions' => f \in executions \/ pc[f] = "idle",
               \A f \in Executions : pc'[f] = "idle" => pc[f] = "idle"
        PROVE  NumberInv'
    BY <1>1, NumbersStay DEF NumberInv
  <1>2. CASE CancelAll \/ UNCHANGED vars
    BY <1>1, <1>2 DEF CancelAll, vars, coordinatorVars, eventVars
  <1>3. ASSUME NEW e \in Executions, MainStep(e)
        PROVE  NumberInv'
    BY <1>1, <1>3 DEF MainStep, Start, Spawn, Cancel, CancelToken, coordinatorVars,
                      eventVars, TypeInv, TypeOK
  <1>4. ASSUME NEW e \in Executions,
               Arm(e) \/ Check(e) \/ Awake(e) \/ LeaveCancelled(e) \/ Acquire(e)
               \/ MarkRunning(e) \/ NotifyRunning(e) \/ Observe(e) \/ Wake(e) \/ Release(e)
        PROVE  NumberInv'
    BY <1>1, <1>4 DEF Arm, Check, Awake, LeaveCancelled, Acquire, MarkRunning,
                      NotifyRunning, Observe, Wake, Release, coordinatorVars,
                      eventVars, TypeInv, TypeOK
  <1>5. ASSUME NEW e \in Executions, EmitCancelled(e) \/ RunStep(e)
        PROVE  NumberInv'
    <2>1. PICK kind \in Kinds : Emit(e, kind) /\ pc[e] \in EmitPoints
      BY <1>5 DEF EmitCancelled, RunStep, RunStarts, RunFails, RunProgress,
                  RunCompletes, RunCancelled, Kinds, TerminalKinds, EmitPoints
    <2>2. \A f \in Executions : pc'[f] = "idle" => pc[f] = "idle" /\ f # e
      BY <2>1 DEF Emit, AfterEvent, EmitPoints, TypeInv, TypeOK
    <2> QED
      BY <2>1, <2>2, NumbersOfEmission DEF Emit
  <1>6. ASSUME NEW e \in Executions, UploadRecords(e)
        PROVE  NumberInv'
    <2>1. \A f \in Executions : pc'[f] = "idle" => pc[f] = "idle" /\ f # e
      BY <1>6 DEF UploadRecords, Uploading, NumberInv, Numbered
    <2> QED
      BY <1>6, <2>1, NumbersOfEmission, "PROGRESS" \in Kinds DEF UploadRecords, Kinds
  <1>7. ASSUME NEW e \in Executions, Deliver(e) \/ UploadDelivers(e)
        PROVE  NumberInv'
    BY <1>7, NumbersOfDelivery
  <1> QED
    BY <1>2, <1>3, <1>4, <1>5, <1>6, <1>7 DEF Next, TaskStep, UploadStep

\* However the task, its upload stream and the sink interleave, the events of
\* an execution are numbered without repetition, and its terminal event is the
\* last that is ever recorded of it.
THEOREM TerminalEventIsLast == Spec => []TerminalIsLast
  <1>1. Init => TypeInv /\ NumberInv
    <2>1. Init => \A e \in Executions : Recordings(e) = {} /\ Len(delivered[e]) = 0
      BY EmptySeq DEF Init, Recordings
    <2> QED
      BY <2>1, InitTyped DEF Init, NumberInv, Numbered
  <1>2. TypeInv /\ NumberInv => TerminalIsLast
    <2> SUFFICES ASSUME TypeInv, NumberInv, NEW e \in Executions
                 PROVE  /\ \A i, j \in 1..Len(delivered[e]) :
                             delivered[e][i].sequence = delivered[e][j].sequence => i = j
                        /\ \A r, s \in Recordings(e) :
                             /\ r.sequence = s.sequence => r = s
                             /\ r.kind \in TerminalKinds => s.sequence <= r.sequence
                             /\ r.kind \in TerminalKinds => e \notin executions
      BY DEF TerminalIsLast
    <2>1. \A i, j \in 1..Len(delivered[e]) :
            delivered[e][i].sequence = delivered[e][j].sequence => i = j
      BY DEF NumberInv, Numbered
    <2>2. ASSUME NEW r \in Recordings(e), NEW s \in Recordings(e)
          PROVE  /\ r.kind \in TerminalKinds => s.sequence <= r.sequence
                 /\ r.kind \in TerminalKinds => e \notin executions
      <3>1. lastSequence[e] \in Nat
        BY DEF TypeInv, TypeOK
      <3> QED
        BY <3>1 DEF NumberInv, Numbered
    <2>3. ASSUME NEW r \in Recordings(e), NEW s \in Recordings(e), r.sequence = s.sequence
          PROVE  r = s
      <3> DEFINE sent == {delivered[e][i] : i \in 1..Len(delivered[e])}
                 way == {outgoing[e], upload[e]} \ {None}
      <3>1. \A x \in sent, y \in way : x.sequence # y.sequence
        BY DEF NumberInv, Numbered
      <3>2. \A x, y \in sent : x.sequence = y.sequence => x = y
        BY <2>1
      <3>3. \A x, y \in way : x.sequence = y.sequence => x = y
        BY DEF NumberInv, Numbered
      <3>4. r \in sent \union way /\ s \in sent \union way
        BY DEF Recordings
      <3> HIDE DEF sent, way
      <3> QED
        BY <2>3, <3>1, <3>2, <3>3, <3>4
    <2> QED
      BY <2>1, <2>2, <2>3
  <1> QED
    BY <1>1, <1>2, QueueInvariance, NumberStep, PTL DEF Spec

-----------------------------------------------------------------------------
(* Removing an id from the queue, seen from the abstract queue *)

\* queue.retain, on a queue that lists an id once, is what the abstract queue
\* does when the execution at that place leaves it.
LEMMA WithoutIsLeave ==
  ASSUME NEW S, NEW q \in Seq(S), NEW at \in 1..Len(q),
         \A i, j \in 1..Len(q) : q[i] = q[j] => i = j
  PROVE  Without(q, q[at]) = SubSeq(q, 1, at - 1) \o SubSeq(q, at + 1, Len(q))
  <1> DEFINE w == Without(q, q[at])
             l == SubSeq(q, 1, at - 1)
             r == SubSeq(q, at + 1, Len(q))
  <1>1. /\ Len(q) \in Nat /\ \A i \in 1..Len(q) : q[i] \in S
        /\ at \in Nat /\ at >= 1 /\ at <= Len(q)
    BY LenProperties, ElementOfSeq
  <1>2. w = [i \in 1..(Len(q) - 1) |-> IF i < at THEN q[i] ELSE q[i + 1]]
    <2>1. (CHOOSE i \in 1..Len(q) : q[i] = q[at]) = at
      OBVIOUS
    <2> QED
      BY <2>1 DEF Without
  <1> HIDE DEF w
  <1>3. w \in Seq(S) /\ Len(w) = Len(q) - 1
    <2>1. \A i \in 1..(Len(q) - 1) : w[i] \in S
      BY <1>1, <1>2
    <2> QED
      BY <1>1, <1>2, <2>1, IsASeq
  <1>4. /\ l \in Seq(S) /\ Len(l) = at - 1
        /\ \A i \in 1..(at - 1) : l[i] = q[i]
    BY <1>1, SubSeqProperties
  <1>5. /\ r \in Seq(S) /\ Len(r) = Len(q) - at
        /\ \A i \in 1..(Len(q) - at) : r[i] = q[at + i]
    <2>1. CASE at = Len(q)
      BY <1>1, <2>1, SubSeqProperties
    <2>2. CASE at < Len(q)
      BY <1>1, <2>2, SubSeqProperties
    <2> QED
      BY <1>1, <2>1, <2>2
  <1> HIDE DEF l, r
  <1>6. /\ l \o r \in Seq(S) /\ Len(l \o r) = Len(q) - 1
        /\ \A i \in 1..(Len(q) - 1) : (l \o r)[i] = IF i < at THEN l[i] ELSE r[i - (at - 1)]
    <2>1. /\ l \o r \in Seq(S) /\ Len(l \o r) = Len(l) + Len(r)
          /\ \A i \in 1..Len(l) + Len(r) :
               (l \o r)[i] = IF i <= Len(l) THEN l[i] ELSE r[i - Len(l)]
      BY ONLY <1>4, <1>5, ConcatProperties
    <2>2. Len(l) = at - 1 /\ Len(r) = Len(q) - at
      BY <1>4, <1>5
    <2>3. \A i \in 1..(Len(q) - 1) : i \in 1..Len(l) + Len(r) /\ (i <= Len(l) <=> i < at)
      BY ONLY <1>1, <2>2
    <2> QED
      BY <1>1, <2>1, <2>2, <2>3
  <1>7. \A i \in 1..(Len(q) - 1) : w[i] = (l \o r)[i]
    <2> SUFFICES ASSUME NEW i \in 1..(Len(q) - 1)
                 PROVE  w[i] = (l \o r)[i]
      OBVIOUS
    <2>1. CASE i < at
      BY <1>1, <1>2, <1>4, <1>6, <2>1
    <2>2. CASE ~(i < at)
      <3>1. i - (at - 1) \in 1..(Len(q) - at) /\ at + (i - (at - 1)) = i + 1
        BY <1>1, <2>2
      <3> QED
        BY <1>1, <1>2, <1>5, <1>6, <2>2, <3>1
    <2> QED
      BY <2>1, <2>2
  <1>8. w = l \o r
    BY <1>3, <1>6, <1>7, SeqEqual
  <1> QED
    BY <1>8 DEF w, l, r

\* Without the front, what is left is the tail.
LEMMA WithoutTheFront ==
  ASSUME NEW S, NEW q \in Seq(S), q # <<>>,
         \A i, j \in 1..Len(q) : q[i] = q[j] => i = j
  PROVE  Without(q, Head(q)) = Tail(q)
  <1>1. Len(q) \in Nat /\ 1 \in 1..Len(q) /\ Head(q) = q[1]
    BY EmptySeq, LenProperties
  <1>2. Without(q, q[1]) = SubSeq(q, 1, 1 - 1) \o SubSeq(q, 1 + 1, Len(q))
    BY <1>1, WithoutIsLeave
  <1>3. SubSeq(q, 1, 1 - 1) = <<>>
    BY SubSeqEmpty
  <1>4. SubSeq(q, 1 + 1, Len(q)) = Tail(q)
    BY TailIsSubSeq
  <1>5. Tail(q) \in Seq(S) /\ <<>> \o Tail(q) = Tail(q)
    BY HeadTailProperties, ConcatEmptySeq
  <1> QED
    BY <1>1, <1>2, <1>3, <1>4, <1>5

-----------------------------------------------------------------------------
(* What the refinement needs to know of the state *)

\* Whoever is in the queue has neither been marked running nor recorded an
\* event, and a task about to be marked owns its permit.
AdmissionInv ==
  /\ \A i \in 1..Len(queue) :
       /\ pc[queue[i]] \in WaitingPoints \union {"starting", "cancel"}
       /\ lastSequence[queue[i]] = 0
       /\ status[queue[i]] = "Queued"
  /\ \A e \in Executions : pc[e] = "idle" => status[e] = "Queued"
  /\ \A e \in Executions : pc[e] = "mark" => e \in holders

\* A step of a task that leaves the queue as it is.
LEMMA AdmissionStays ==
  ASSUME TypeInv, AdmissionInv, NEW e \in Executions,
         UNCHANGED <<queue, status>>,
         \A f \in Executions : f # e => pc'[f] = pc[f] /\ lastSequence'[f] = lastSequence[f],
         InQueue(e) => /\ pc'[e] \in WaitingPoints \union {"starting", "cancel"}
                       /\ lastSequence'[e] = lastSequence[e],
         pc'[e] = "idle" => pc[e] = "idle",
         pc'[e] = "mark" => e \in holders',
         \A f \in Executions : f # e /\ f \in holders => f \in holders'
  PROVE  AdmissionInv'
  <1>1. \A i \in 1..Len(queue) : queue[i] \in Executions
    BY ElementOfSeq DEF TypeInv, TypeOK
  <1> QED
    BY <1>1 DEF AdmissionInv

\* A step of a task that takes its id off the queue.
LEMMA AdmissionLeaves ==
  ASSUME TypeInv, QueueInv, AdmissionInv, NEW e \in Executions,
         queue' = Without(queue, e),
         \A f \in Executions : f # e => /\ pc'[f] = pc[f] /\ lastSequence'[f] = lastSequence[f]
                                        /\ status'[f] = status[f],
         pc'[e] \notin {"idle", "mark"},
         holders' = holders
  PROVE  AdmissionInv'
  <1>1. queue \in Seq(Executions) /\ \A i, j \in 1..Len(queue) : queue[i] = queue[j] => i = j
    BY DEF TypeInv, TypeOK, QueueInv, StateAgrees
  <1>2. \A j \in 1..Len(queue') : \E i \in 1..Len(queue) : queue'[j] = queue[i]
    BY <1>1, WithoutLemma
  <1>3. \A j \in 1..Len(queue') : queue'[j] # e
    BY <1>1, WithoutDistinct
  <1>4. \A i \in 1..Len(queue) : queue[i] \in Executions
    BY <1>1, ElementOfSeq
  <1>5. ASSUME NEW j \in 1..Len(queue')
        PROVE  /\ pc'[queue'[j]] \in WaitingPoints \union {"starting", "cancel"}
               /\ lastSequence'[queue'[j]] = 0
               /\ status'[queue'[j]] = "Queued"
    <2>1. PICK i \in 1..Len(queue) : queue'[j] = queue[i]
      BY <1>2
    <2>2. queue[i] \in Executions /\ queue[i] # e
      BY <1>3, <1>4, <2>1
    <2> QED
      BY <2>1, <2>2 DEF AdmissionInv
  <1> QED
    BY <1>5 DEF AdmissionInv

LEMMA AdmissionStep ==
  TypeInv /\ QueueInv /\ NumberInv /\ AdmissionInv /\ [Next]_vars => AdmissionInv'
  <1> SUFFICES ASSUME TypeInv, QueueInv, NumberInv, AdmissionInv, [Next]_vars
               PROVE  AdmissionInv'
    OBVIOUS
  <1> USE DEF coordinatorVars, permitVars
  <1>ids. \A i \in 1..Len(queue) : queue[i] \in Executions
    BY ElementOfSeq DEF TypeInv, TypeOK
  <1>types. pc \in [Executions -> Points] /\ lastSequence \in [Executions -> Nat]
            /\ status \in [Executions -> {"Queued", "Running"}]
    BY DEF TypeInv, TypeOK
  <1>queued. \A e \in Executions : InQueue(e) =>
           /\ pc[e] \in WaitingPoints \union {"starting", "cancel"}
           /\ lastSequence[e] = 0
    BY DEF AdmissionInv
  <1>1. CASE CancelAll \/ UNCHANGED vars
    BY <1>1 DEF CancelAll, vars, AdmissionInv
  <1>2. ASSUME NEW e \in Executions, Cancel(e) \/ CancelToken(e) \/ UploadDelivers(e)
        PROVE  AdmissionInv'
    BY <1>2 DEF Cancel, CancelToken, UploadDelivers, AdmissionInv
  <1>3. ASSUME NEW e \in Executions, Start(e)
        PROVE  AdmissionInv'
    <2>1. /\ queue' = Append(queue, e) /\ pc[e] = "idle"
          /\ pc' = [pc EXCEPT ![e] = "starting"]
          /\ UNCHANGED <<status, lastSequence, holders>>
      BY <1>3 DEF Start
    <2>2. lastSequence[e] = 0 /\ status[e] = "Queued"
      BY <2>1 DEF NumberInv, Numbered, AdmissionInv
    <2>3. \A i \in 1..Len(queue') : (i \in 1..Len(queue) /\ queue'[i] = queue[i]) \/ queue'[i] = e
      <3>1. queue \in Seq(Executions)
        BY DEF TypeInv, TypeOK
      <3> QED
        BY ONLY <3>1, <2>1, e \in Executions
    <2>4. \A i \in 1..Len(queue) : queue[i] # e
      BY <2>1, <1>ids DEF AdmissionInv, WaitingPoints
    <2> QED
      BY <1>ids, <1>types, <2>1, <2>2, <2>3, <2>4 DEF AdmissionInv
  <1>4. ASSUME NEW e \in Executions,
               Spawn(e) \/ Arm(e) \/ Check(e) \/ Awake(e) \/ LeaveCancelled(e) \/ Acquire(e)
        PROVE  AdmissionInv'
    <2>1. /\ UNCHANGED <<queue, status, lastSequence>>
          /\ pc'[e] \in {"arm", "check", "acquire", "cancel", "await", "mark"}
          /\ pc'[e] = "mark" => e \in holders'
          /\ \A f \in Executions : f # e => pc'[f] = pc[f]
          /\ holders \subseteq holders'
      BY <1>types, <1>4 DEF Spawn, Arm, Check, Awake, LeaveCancelled, Acquire
    <2> QED
      BY <2>1, AdmissionStays DEF WaitingPoints
  <1>5. ASSUME NEW e \in Executions, MarkRunning(e)
        PROVE  AdmissionInv'
    <2>1. IsFront(e)
      BY <1>5 DEF MarkRunning, QueueInv, GateHasOneOwner
    <2>2. /\ queue' = Without(queue, e)
          /\ pc'[e] \in {"notify", "cancel"}
          /\ UNCHANGED <<lastSequence, holders>>
          /\ \A f \in Executions : f # e => pc'[f] = pc[f] /\ status'[f] = status[f]
      BY <1>types, <1>5, <2>1 DEF MarkRunning
    <2> QED
      BY <2>2, AdmissionLeaves
  <1>6. ASSUME NEW e \in Executions,
               NotifyRunning(e) \/ Observe(e) \/ Wake(e) \/ Deliver(e) \/ Release(e)
        PROVE  AdmissionInv'
    <2>1. ~InQueue(e)
      BY <1>6, <1>queued DEF NotifyRunning, Observe, Wake, Deliver, Release, WaitingPoints
    <2>2. /\ UNCHANGED <<queue, status, lastSequence>>
          /\ pc'[e] \notin {"idle", "mark"}
          /\ \A f \in Executions : f # e => pc'[f] = pc[f]
          /\ \A f \in Executions : f # e /\ f \in holders => f \in holders'
      BY <1>types, <1>6 DEF NotifyRunning, Observe, Wake, Deliver, Release, AfterEvent
    <2> QED
      BY <2>1, <2>2, AdmissionStays
  <1>7. ASSUME NEW e \in Executions, EmitCancelled(e) \/ RunStep(e)
        PROVE  AdmissionInv'
    <2>1. PICK kind \in Kinds : Emit(e, kind) /\ pc[e] \in EmitPoints
                                /\ (pc[e] = "cancel" => kind \in TerminalKinds)
      BY <1>7 DEF EmitCancelled, RunStep, RunStarts, RunFails, RunProgress,
                  RunCompletes, RunCancelled, Kinds, TerminalKinds, EmitPoints
    <2>2. /\ UNCHANGED <<status, holders>>
          /\ pc'[e] \in {"wake", "deliver", "release", "running"}
          /\ \A f \in Executions : f # e =>
               pc'[f] = pc[f] /\ lastSequence'[f] = lastSequence[f]
      BY <1>types, <2>1 DEF Emit, AfterEvent, RecordEvent
    <2>3. CASE queue' = Without(queue, e)
      BY <2>2, <2>3, AdmissionLeaves
    <2>4. CASE queue' = queue /\ (kind \in TerminalKinds => e \notin executions)
      <3>1. ~InQueue(e)
        BY <1>queued, <2>1, <2>4 DEF EmitPoints, QueueInv, StateAgrees, WaitingPoints
      <3> QED
        BY <2>2, <2>4, <3>1, AdmissionStays
    <2> QED
      BY <2>1, <2>3, <2>4, RecordEventEffect DEF Emit
  <1>8. ASSUME NEW e \in Executions, UploadRecords(e)
        PROVE  AdmissionInv'
    <2>1. ~InQueue(e)
      BY <1>queued, <1>8 DEF UploadRecords, Uploading
    <2>2. /\ UNCHANGED <<queue, status, pc, holders>>
          /\ \A f \in Executions : f # e => lastSequence'[f] = lastSequence[f]
      BY <1>types, <1>8 DEF UploadRecords, RecordEvent, TerminalKinds
    <2> QED
      BY <2>1, <2>2, AdmissionStays DEF AdmissionInv
  <1> QED
    BY <1>1, <1>2, <1>3, <1>4, <1>5, <1>6, <1>7, <1>8
    DEF Next, MainStep, TaskStep, UploadStep

-----------------------------------------------------------------------------
(* Every step of the coordinator is one of the abstract queue, or none *)

Submitted == {e \in Executions : pc[e] # "idle"}

LEMMA StartSubmits ==
  ASSUME TypeInv, NEW e \in Executions, Start(e)
  PROVE  Abstract!Submit(e)
  <1>1. pc[e] = "idle" /\ pc' = [pc EXCEPT ![e] = "starting"]
    BY DEF Start
  <1>2. e \notin Submitted /\ Submitted' = Submitted \union {e}
    BY <1>1 DEF Submitted, TypeInv, TypeOK
  <1>3. Running' = Running /\ lastSequence' = lastSequence
    BY DEF Start, Running, permitVars
  <1> QED
    BY <1>2, <1>3 DEF Start, Abstract!Submit, Submitted

\* The abstract queue counts as the coordinator does.
LEMMA SameCardinality == ASSUME NEW S PROVE Abstract!Cardinality(S) = Cardinality(S)
  BY DEF Abstract!Cardinality, Cardinality

\* A task that is admitted is the first of the queue, and its permit is one
\* that no running task has.
LEMMA MarkBeginsOrWithdraws ==
  ASSUME TypeInv, QueueInv, PermitInv, AdmissionInv, NEW e \in Executions, MarkRunning(e)
  PROVE  Abstract!Begin \/ \E i \in 1..Len(queue) : Abstract!Withdraw(i)
  <1>1. queue # <<>> /\ Head(queue) = e
    BY DEF MarkRunning, QueueInv, GateHasOneOwner
  <1>2. /\ queue \in Seq(Executions)
        /\ \A i, j \in 1..Len(queue) : queue[i] = queue[j] => i = j
    BY DEF TypeInv, TypeOK, QueueInv, StateAgrees
  <1>3. 1 \in 1..Len(queue) /\ queue[1] = e
    BY <1>1, <1>2, EmptySeq, LenProperties
  <1>4. /\ queue' = Without(queue, e) /\ UNCHANGED <<latestByDraft, lastSequence, holders>>
        /\ pc[e] = "mark" /\ pc'[e] # "idle"
        /\ \A f \in Executions : f # e => pc'[f] = pc[f]
    BY <1>1 DEF MarkRunning, permitVars, TypeInv, TypeOK
  <1>5. Submitted' = Submitted
    BY <1>4 DEF Submitted
  <1>6. status[e] = "Queued" /\ e \in holders
    BY <1>3, <1>4 DEF AdmissionInv
  <1>7. CASE status' = [status EXCEPT ![e] = "Running"]
    <2>1. Running' = Running \union {e}
      BY <1>4, <1>6, <1>7 DEF Running, TypeInv, TypeOK
    <2>2. queue' = Tail(queue)
      BY <1>1, <1>2, <1>4, WithoutTheFront
    <2>3. Cardinality(Running) < Concurrency
      <3>1. Running \subseteq holders \ {e}
        BY <1>6 DEF Running
      <3>2. /\ IsFiniteSet(holders \ {e})
            /\ Cardinality(holders \ {e}) = Cardinality(holders) - 1
        BY <1>6, FS_RemoveElement DEF PermitInv
      <3>3. /\ Cardinality(Running) <= Cardinality(holders \ {e})
            /\ IsFiniteSet(Running)
        BY <3>1, <3>2, FS_Subset
      <3>4. Cardinality(holders) \in Nat /\ Cardinality(Running) \in Nat
        BY <3>3, FS_CardinalityType DEF PermitInv
      <3>5. Cardinality(holders) <= Concurrency
        BY <3>4, ConcurrencyAssumption DEF PermitInv, TypeInv, TypeOK
      <3> QED
        BY <3>2, <3>3, <3>4, <3>5, ConcurrencyAssumption
    <2>4. Abstract!Begin
      BY <1>1, <1>4, <1>5, <2>1, <2>2, <2>3, SameCardinality DEF Abstract!Begin, Submitted
    <2> QED
      BY <2>4
  <1>8. CASE status' = status
    <2>1. Running' = Running
      BY <1>4, <1>8 DEF Running
    <2>2. queue' = Abstract!Leave(1)
      BY <1>2, <1>3, <1>4, WithoutIsLeave DEF Abstract!Leave
    <2>3. Abstract!Withdraw(1)
      BY <1>4, <1>5, <2>1, <2>2 DEF Abstract!Withdraw, Submitted
    <2> QED
      BY <1>3, <2>3
  <1> QED
    BY <1>7, <1>8 DEF MarkRunning

\* A task gives its permit back when it ends.
LEMMA ReleaseFinishes ==
  ASSUME TypeInv, NEW e \in Executions, Release(e)
  PROVE  Abstract!Finish(e) \/ UNCHANGED Abstract!qvars
  <1>1. Submitted' = Submitted
    BY DEF Release, Submitted, TypeInv, TypeOK
  <1>2. UNCHANGED <<queue, latestByDraft, lastSequence, status>> /\ holders' = holders \ {e}
    BY DEF Release, coordinatorVars
  <1>3. Running' = Running \ {e}
    BY <1>2 DEF Running
  <1>4. CASE e \in Running
    BY <1>1, <1>2, <1>3, <1>4 DEF Abstract!Finish, Submitted
  <1>5. CASE e \notin Running
    BY <1>1, <1>2, <1>3, <1>5 DEF Abstract!qvars, Submitted
  <1> QED
    BY <1>4, <1>5

\* Recording an event is hearing of the execution, if it is its draft's current
\* one; the last event of one that waits takes it off the queue.
LEMMA RecordingHears ==
  ASSUME TypeInv, QueueInv, NEW e \in Executions, NEW kind \in Kinds,
         RecordEvent(e, kind), Submitted' = Submitted, e \in Submitted,
         holders' = holders, InQueue(e) => kind \in TerminalKinds
  PROVE  Abstract!QNext \/ UNCHANGED Abstract!qvars
  <1>1. Running' = Running
    BY DEF Running, RecordEvent
  <1>2. /\ queue \in Seq(Executions)
        /\ \A i, j \in 1..Len(queue) : queue[i] = queue[j] => i = j
        /\ \A i \in 1..Len(queue) : queue[i] \in executions
    BY DEF TypeInv, TypeOK, QueueInv, StateAgrees
  <1>3. \/ Abstract!Hear(e)
        \/ UNCHANGED <<latestByDraft, lastSequence>>
    <2>1. CASE e \in executions /\ IsLatest(e)
      <3>1. lastSequence[e] \in Nat /\ lastSequence \in [Executions -> Nat]
        BY DEF TypeInv, TypeOK
      <3>2. Recorded(e, kind) \in Events
        BY <2>1, <3>1 DEF Recorded, Events
      <3>3. lastSequence' = [lastSequence EXCEPT ![e] = @ + 1]
        BY <3>2, NoneAssumption DEF RecordEvent
      <3> QED
        BY <2>1, <3>3 DEF RecordEvent, IsLatest, Abstract!Hear
    <2>2. CASE ~(e \in executions /\ IsLatest(e))
      BY <2>2 DEF RecordEvent, Recorded
    <2> QED
      BY <2>1, <2>2
  <1>4. CASE InQueue(e)
    <2>1. PICK i \in 1..Len(queue) : queue[i] = e
      BY <1>4
    <2>2. queue' = Without(queue, e)
      BY <1>2, <1>4, <2>1 DEF RecordEvent
    <2>3. queue' = Abstract!Leave(i)
      BY <1>2, <2>1, <2>2, WithoutIsLeave DEF Abstract!Leave
    <2>4. Abstract!Withdraw(i)
      BY <1>1, <1>3, <2>1, <2>3 DEF Abstract!Withdraw, Submitted
    <2> QED
      BY <2>1, <2>4 DEF Abstract!QNext
  <1>5. CASE ~InQueue(e)
    <2>1. queue' = queue
      BY <1>5 DEF RecordEvent, Without
    <2>2. CASE Abstract!Hear(e)
      <3>1. Abstract!Report(e)
        BY <1>1, <1>5, <2>1, <2>2 DEF Abstract!Report, Submitted
      <3> QED
        BY <3>1 DEF Abstract!QNext
    <2>3. CASE UNCHANGED <<latestByDraft, lastSequence>>
      BY <1>1, <2>1, <2>3 DEF Abstract!qvars, Submitted
    <2> QED
      BY <1>3, <2>2, <2>3
  <1> QED
    BY <1>4, <1>5

LEMMA StepImplements ==
  /\ TypeInv /\ QueueInv /\ PermitInv /\ NumberInv /\ AdmissionInv
  /\ [Next]_vars
  => [Abstract!QNext]_(Abstract!qvars)
  <1> SUFFICES ASSUME TypeInv, QueueInv, PermitInv, NumberInv, AdmissionInv, [Next]_vars
               PROVE  Abstract!QNext \/ UNCHANGED Abstract!qvars
    OBVIOUS
  <1> USE DEF coordinatorVars, permitVars
  <1>1. ASSUME UNCHANGED <<queue, latestByDraft, lastSequence>>,
               Running' = Running, Submitted' = Submitted
        PROVE  UNCHANGED Abstract!qvars
    BY <1>1 DEF Abstract!qvars, Submitted
  <1>2. CASE CancelAll \/ UNCHANGED vars
    <2>1. UNCHANGED <<queue, latestByDraft, lastSequence, status, holders, pc>>
      BY <1>2 DEF CancelAll, vars
    <2> QED
      BY <1>1, <2>1 DEF Running, Submitted
  <1>3. ASSUME NEW e \in Executions, Cancel(e) \/ CancelToken(e) \/ UploadDelivers(e)
        PROVE  UNCHANGED Abstract!qvars
    <2>1. UNCHANGED <<queue, latestByDraft, lastSequence, status, holders, pc>>
      BY <1>3 DEF Cancel, CancelToken, UploadDelivers
    <2> QED
      BY <1>1, <2>1 DEF Running, Submitted
  <1>4. ASSUME NEW e \in Executions, Start(e)
        PROVE  Abstract!QNext
    BY <1>4, StartSubmits DEF Abstract!QNext
  <1>5. ASSUME NEW e \in Executions,
               Spawn(e) \/ Arm(e) \/ Check(e) \/ Awake(e) \/ LeaveCancelled(e)
               \/ NotifyRunning(e) \/ Observe(e) \/ Wake(e) \/ Deliver(e)
        PROVE  UNCHANGED Abstract!qvars
    <2>1. /\ UNCHANGED <<queue, latestByDraft, lastSequence, status, holders>>
          /\ pc[e] # "idle" /\ pc'[e] # "idle"
          /\ \A f \in Executions : f # e => pc'[f] = pc[f]
      BY <1>5 DEF Spawn, Arm, Check, Awake, LeaveCancelled, NotifyRunning, Observe, Wake,
                  Deliver, AfterEvent, TypeInv, TypeOK
    <2> QED
      BY <1>1, <2>1 DEF Running, Submitted
  <1>6. ASSUME NEW e \in Executions, Acquire(e)
        PROVE  UNCHANGED Abstract!qvars
    <2>1. InQueue(e)
      BY <1>6 DEF Acquire, QueueInv, UnadmittedInQueue, WaitingPoints
    <2>2. status[e] = "Queued"
      BY <2>1 DEF AdmissionInv
    <2>3. /\ UNCHANGED <<queue, latestByDraft, lastSequence, status>>
          /\ holders' = holders \union {e}
          /\ pc[e] # "idle" /\ pc'[e] # "idle"
          /\ \A f \in Executions : f # e => pc'[f] = pc[f]
      BY <1>6 DEF Acquire, TypeInv, TypeOK
    <2> QED
      BY <1>1, <2>2, <2>3 DEF Running, Submitted
  <1>7. ASSUME NEW e \in Executions, MarkRunning(e)
        PROVE  Abstract!QNext
    BY <1>7, MarkBeginsOrWithdraws DEF Abstract!QNext
  <1>8. ASSUME NEW e \in Executions, Release(e)
        PROVE  Abstract!QNext \/ UNCHANGED Abstract!qvars
    BY <1>8, ReleaseFinishes DEF Abstract!QNext
  <1>9. ASSUME NEW e \in Executions, EmitCancelled(e) \/ RunStep(e)
        PROVE  Abstract!QNext \/ UNCHANGED Abstract!qvars
    <2>1. PICK kind \in Kinds : Emit(e, kind) /\ pc[e] \in EmitPoints
                                /\ (pc[e] = "cancel" => kind \in TerminalKinds)
      BY <1>9 DEF EmitCancelled, RunStep, RunStarts, RunFails, RunProgress,
                  RunCompletes, RunCancelled, Kinds, TerminalKinds, EmitPoints
    <2>2. InQueue(e) => pc[e] = "cancel"
      BY <2>1 DEF AdmissionInv, EmitPoints, WaitingPoints
    <2>3. Submitted' = Submitted /\ e \in Submitted
      BY <2>1 DEF Emit, AfterEvent, EmitPoints, Submitted, TypeInv, TypeOK
    <2> QED
      BY <2>1, <2>2, <2>3, RecordingHears DEF Emit
  <1>10. ASSUME NEW e \in Executions, UploadRecords(e)
         PROVE  Abstract!QNext \/ UNCHANGED Abstract!qvars
    <2>1. ~InQueue(e)
      BY <1>10 DEF UploadRecords, Uploading, AdmissionInv
    <2>2. e \in Submitted
      BY <1>10 DEF UploadRecords, Uploading, NumberInv, Numbered, Submitted
    <2>3. Submitted' = Submitted /\ holders' = holders /\ RecordEvent(e, "PROGRESS")
      BY <1>10 DEF UploadRecords, Submitted
    <2> QED
      BY <2>1, <2>2, <2>3, RecordingHears, "PROGRESS" \in Kinds DEF Kinds
  <1> QED
    BY <1>2, <1>3, <1>4, <1>5, <1>6, <1>7, <1>8, <1>9, <1>10
    DEF Next, MainStep, TaskStep, UploadStep

\* The coordinator with its tasks, tokens, permits and notifications implements
\* the abstract queue: executions are admitted first in, first out, no more
\* than Concurrency at a time, and only a draft's current one is heard of.
THEOREM CoordinatorImplementsQueue == Spec => ImplementsQueue
  <1>1. Init => TypeInv /\ QueueInv /\ PermitInv /\ NumberInv /\ AdmissionInv
    <2>1. Init => QueueInv
      BY EmptySeq, NoneAssumption
      DEF Init, QueueInv, IdleIsUnknown, UnadmittedInQueue, StateAgrees,
          GateHasOneOwner, WaitingPoints
    <2>2. Init => PermitInv
      BY FS_EmptySet, ConcurrencyAssumption DEF Init, PermitInv
    <2>3. Init => NumberInv
      <3>1. Init => \A e \in Executions : Recordings(e) = {} /\ Len(delivered[e]) = 0
        BY EmptySeq DEF Init, Recordings
      <3> QED
        BY <3>1 DEF Init, NumberInv, Numbered
    <2>4. Init => AdmissionInv
      BY EmptySeq DEF Init, AdmissionInv
    <2> QED
      BY <2>1, <2>2, <2>3, <2>4, InitTyped
  <1>2. Init => Abstract!QInit
    <2>1. Init => Submitted = {} /\ Running = {}
      BY DEF Init, Submitted, Running
    <2> QED
      BY <2>1 DEF Init, Abstract!QInit, Submitted
  <1> QED
    BY <1>1, <1>2, TypeStep, QueueStep, PermitStep, NumberStep, AdmissionStep,
       StepImplements, PTL
    DEF Spec, ImplementsQueue, Abstract!Spec
=============================================================================
