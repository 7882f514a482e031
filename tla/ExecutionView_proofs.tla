------------------------- MODULE ExecutionView_proofs -------------------------
(***************************************************************************)
(* Machine-checked proofs about the view of executions, for any number of  *)
(* executions and drafts and every habit of the user.                      *)
(***************************************************************************)
EXTENDS ExecutionView, WellFoundedInduction, TLAPS

USE DraftOfAssumption, HabitsAssumption, MaxEventsAssumption, NoneAssumption

\* The elements of a sequence with one more, and of a sequence without its first.
LEMMA AppendLemma ==
  ASSUME NEW s \in Seq(Event), NEW event \in Event, NEW i \in 1..Len(Append(s, event))
  PROVE  \/ i = Len(s) + 1 /\ Append(s, event)[i] = event
         \/ i \in 1..Len(s) /\ Append(s, event)[i] = s[i]
  <1>1. /\ Len(Append(s, event)) = Len(s) + 1 /\ Len(s) \in Nat
        /\ Append(s, event)[Len(s) + 1] = event
        /\ \A j \in 1..Len(s) : Append(s, event)[j] = s[j]
    OBVIOUS
  <1>2. i = Len(s) + 1 \/ i \in 1..Len(s)
    BY <1>1
  <1> QED
    BY <1>1, <1>2

LEMMA TailLemma ==
  ASSUME NEW s \in Seq(Event), s # <<>>
  PROVE  /\ Head(s) \in Event /\ Tail(s) \in Seq(Event) /\ Head(s) = s[1]
         /\ Len(s) \in Nat /\ Len(s) > 0 /\ Len(Tail(s)) = Len(s) - 1
         /\ \A i \in 1..Len(Tail(s)) : i + 1 \in 1..Len(s) /\ Tail(s)[i] = s[i + 1]
         /\ \A i \in 1..Len(s) : s[i] \in Event
  OBVIOUS

-----------------------------------------------------------------------------
(* Reducing events *)

LastOf(S) == CHOOSE event \in S : \A other \in S : other.sequence <= event.sequence

\* Among events with numbers up to MaxEvents one is the last.
LEMMA LastOfLemma ==
  ASSUME NEW S \in SUBSET Event, S # {}
  PROVE  LastOf(S) \in S /\ \A other \in S : other.sequence <= LastOf(S).sequence
  <1> DEFINE Left == {MaxEvents - event.sequence : event \in S}
             Less == {ss \in Nat \X Nat : ss[1] < ss[2]}
  <1>0. IsWellFoundedOn(Less, Nat)
    BY NatLessThanWellFounded DEF OpToRel
  <1>1. Left \in SUBSET Nat /\ Left # {}
    BY DEF Event
  <1>2. \E m \in Left : \A n \in Left : ~ (<<n, m>> \in Less)
    <2> HIDE DEF Less, Left
    <2> QED
      BY <1>0, <1>1, WFMin
  <1>3. PICK m \in Left : \A n \in Left : ~ (n < m)
    <2>1. PICK m \in Left : \A n \in Left : ~ (<<n, m>> \in Less)
      BY <1>2
    <2>2. \A n \in Left : n < m => <<n, m>> \in Less
      <3>1. \A n, k \in Nat : n < k => <<n, k>> \in Less
        OBVIOUS
      <3> HIDE DEF Left, Less
      <3> QED
        BY <1>1, <3>1
    <2> HIDE DEF Left, Less
    <2> QED
      BY <2>1, <2>2
  <1>4. PICK event \in S : m = MaxEvents - event.sequence
    OBVIOUS
  <1>5. ASSUME NEW other \in S
        PROVE  other.sequence <= event.sequence
    <2>1. other.sequence \in 1..MaxEvents /\ event.sequence \in 1..MaxEvents
      BY DEF Event
    <2>2. MaxEvents - other.sequence \in Left
      OBVIOUS
    <2>3. ~ (MaxEvents - other.sequence < m)
      BY <1>3, <2>2
    <2> QED
      BY ONLY <1>4, <2>1, <2>3, MaxEventsAssumption
  <1> QED
    BY <1>4, <1>5 DEF LastOf

\* Reducing events keeps the execution, and takes the phase and the headers from
\* the state it starts with or from an event.
LEMMA ReduceLemma ==
  ASSUME NEW v \in States, NEW evs \in SUBSET Event
  PROVE  /\ Reduce(v, evs) \in States
         /\ Reduce(v, evs).execution = v.execution
         /\ \/ Reduce(v, evs).phase = v.phase
            \/ \E event \in evs : /\ event.execution = v.execution
                                  /\ Sets(event)
                                  /\ Reduce(v, evs).phase = PhaseOf[event.kind]
         /\ \/ Reduce(v, evs).headers = v.headers
            \/ \E event \in evs : event.execution = v.execution /\ event.kind = "HEADERS"
  <1> DEFINE news == {event \in evs : IsNews(v, event)}
             setting == {event \in news : Sets(event)}
  <1>1. Reduce(v, evs) =
          [execution |-> v.execution,
           phase |-> IF setting = {} THEN v.phase ELSE PhaseOf[LastOf(setting).kind],
           last |-> IF news = {} THEN v.last ELSE LastOf(news).sequence,
           headers |-> v.headers \/ \E event \in news : event.kind = "HEADERS"]
    BY DEF Reduce, LastOf
  <1>2. /\ news \in SUBSET Event /\ setting \in SUBSET Event
        /\ \A event \in news : event \in evs /\ event.execution = v.execution
        /\ \A event \in setting : event \in news /\ Sets(event)
    BY DEF IsNews
  <1> HIDE DEF news, setting
  <1>3. setting # {} => LastOf(setting) \in setting
    BY <1>2, LastOfLemma
  <1>4. news # {} => LastOf(news) \in news
    BY <1>2, LastOfLemma
  <1>5. \A event \in Event : Sets(event) => PhaseOf[event.kind] \in Phases
    BY DEF Sets, PhaseOf, Phases
  <1>6. (IF setting = {} THEN v.phase ELSE PhaseOf[LastOf(setting).kind]) \in Phases
    BY <1>2, <1>3, <1>5 DEF States
  <1>7. (IF news = {} THEN v.last ELSE LastOf(news).sequence) \in 0..MaxEvents
    BY <1>2, <1>4 DEF States, Event
  <1>8. (v.headers \/ \E event \in news : event.kind = "HEADERS") \in BOOLEAN
    BY DEF States
  <1>9. Reduce(v, evs) \in States
    BY <1>1, <1>6, <1>7, <1>8 DEF States
  <1>10. \/ Reduce(v, evs).phase = v.phase
         \/ \E event \in evs : /\ event.execution = v.execution
                               /\ Sets(event)
                               /\ Reduce(v, evs).phase = PhaseOf[event.kind]
    BY <1>1, <1>2, <1>3
  <1>11. \/ Reduce(v, evs).headers = v.headers
         \/ \E event \in evs : event.execution = v.execution /\ event.kind = "HEADERS"
    BY <1>1, <1>2 DEF States
  <1> QED
    BY <1>1, <1>9, <1>10, <1>11

\* The events that a state has not seen.
News(v, evs) == {event \in evs : IsNews(v, event)}

\* Reducing takes the number of the last of them, the phase of the last that sets
\* one, and headers if they are among them.
LEMMA ReduceNews ==
  ASSUME NEW v \in States, NEW evs \in SUBSET Event
  PROVE  /\ \/ News(v, evs) = {} /\ Reduce(v, evs).last = v.last
            \/ \E event \in News(v, evs) : Reduce(v, evs).last = event.sequence
         /\ \A event \in News(v, evs) : event.sequence <= Reduce(v, evs).last
         /\ \/ /\ Reduce(v, evs).phase = v.phase
               /\ \A event \in News(v, evs) : ~Sets(event)
            \/ \E event \in News(v, evs) :
                 /\ Sets(event) /\ Reduce(v, evs).phase = PhaseOf[event.kind]
                 /\ \A other \in News(v, evs) : Sets(other) => other.sequence <= event.sequence
         /\ Reduce(v, evs).headers <=>
              v.headers \/ \E event \in News(v, evs) : event.kind = "HEADERS"
  <1> DEFINE news == News(v, evs)
             setting == {event \in news : Sets(event)}
             headers == v.headers \/ \E event \in news : event.kind = "HEADERS"
  <1>1. Reduce(v, evs) =
          [execution |-> v.execution,
           phase |-> IF setting = {} THEN v.phase ELSE PhaseOf[LastOf(setting).kind],
           last |-> IF news = {} THEN v.last ELSE LastOf(news).sequence,
           headers |-> headers]
    BY DEF Reduce, LastOf, News
  <1>2. /\ news \in SUBSET Event /\ setting \in SUBSET Event
        /\ \A event \in news : event \in setting <=> Sets(event)
        /\ setting \subseteq news
    BY DEF News
  <1>3. headers \in BOOLEAN
    BY DEF States
  <1> HIDE DEF news, setting, headers
  <1>4. setting # {} => /\ LastOf(setting) \in setting
                        /\ \A other \in setting : other.sequence <= LastOf(setting).sequence
    BY <1>2, LastOfLemma
  <1>5. news # {} => /\ LastOf(news) \in news
                     /\ \A other \in news : other.sequence <= LastOf(news).sequence
    BY <1>2, LastOfLemma
  <1>6. /\ Reduce(v, evs).phase = IF setting = {} THEN v.phase ELSE PhaseOf[LastOf(setting).kind]
        /\ Reduce(v, evs).last = IF news = {} THEN v.last ELSE LastOf(news).sequence
        /\ Reduce(v, evs).headers = headers
    BY <1>1, <1>3
  <1>7. /\ \/ news = {} /\ Reduce(v, evs).last = v.last
           \/ \E event \in news : Reduce(v, evs).last = event.sequence
        /\ \A event \in news : event.sequence <= Reduce(v, evs).last
    BY ONLY <1>5, <1>6
  <1>8. \/ Reduce(v, evs).phase = v.phase /\ \A event \in news : ~Sets(event)
        \/ \E event \in news :
             /\ Sets(event) /\ Reduce(v, evs).phase = PhaseOf[event.kind]
             /\ \A other \in news : Sets(other) => other.sequence <= event.sequence
    BY <1>2, <1>4, <1>6, Zenon
  <1> QED
    BY <1>6, <1>7, <1>8 DEF news, headers

LEMMA QueuedLemma == \A e \in Executions : Queued(e) \in States /\ Queued(e).execution = e
  BY DEF Queued, States, Phases

-----------------------------------------------------------------------------
(* Type correctness *)

LEMMA TypeInit == Init => TypeOK
  BY DEF Init, TypeOK

LEMMA TypeStep == TypeOK /\ [Next]_vars => TypeOK'
  <1> SUFFICES ASSUME TypeOK, [Next]_vars
               PROVE  TypeOK'
    OBVIOUS
  <1> USE DEF TypeOK
  <1>1. ASSUME NEW e \in Executions, Execute(e)
        PROVE  TypeOK'
    BY <1>1 DEF Execute, coordinatorVars, viewVars
  <1>2. ASSUME NEW e \in Executions, Send(e)
        PROVE  TypeOK'
    BY <1>2, QueuedLemma DEF Send, coordinatorVars
  <1>3. ASSUME NEW e \in Executions, StartBegins(e)
        PROVE  TypeOK'
    BY <1>3 DEF StartBegins, coordinatorVars, viewVars
  <1>4. ASSUME NEW e \in Executions, StartReturns(e)
        PROVE  TypeOK'
    BY <1>4 DEF StartReturns, coordinatorVars, viewVars
  <1>5. ASSUME NEW e \in Executions, StartFails(e)
        PROVE  TypeOK'
    BY <1>5 DEF StartFails, coordinatorVars, viewVars
  <1>6. ASSUME NEW e \in Executions, NEW kind \in Kinds, RecordEvent(e, kind)
        PROVE  TypeOK'
    <2>1. /\ count[e] + 1 \in 1..MaxEvents
          /\ count' = [count EXCEPT ![e] = @ + 1]
          /\ recorded' = recorded \union
               {[execution |-> e, sequence |-> count[e] + 1, kind |-> kind]}
      BY <1>6 DEF RecordEvent
    <2>2. recorded' \subseteq Event /\ count' \in [Executions -> 0..MaxEvents]
      BY <2>1 DEF Event
    <2>3. kinds' \in [Executions -> SUBSET Kinds]
      BY <1>6 DEF RecordEvent
    <2>4. stage' \in [Executions -> {"new", "persisting", "sent", "live", "silent", "ended",
                                     "refused"}]
      BY <1>6 DEF RecordEvent
    <2> QED
      BY <1>6, <2>2, <2>3, <2>4 DEF RecordEvent, viewVars
  <1>7. ASSUME NEW event \in recorded, Sink(event)
        PROVE  TypeOK'
    <2>1. event \in Event /\ event.execution \in Executions
      BY DEF Event
    <2>2. initial' \in [Executions -> SUBSET Event]
      BY <1>7, <2>1 DEF Sink
    <2>3. events' \in Seq(Event)
      BY <1>7, <2>1 DEF Sink
    <2> QED
      BY <1>7, <2>2, <2>3 DEF Sink, coordinatorVars, viewVars
  <1>8. CASE Deliver
    <2>1. Head(events) \in Event /\ Tail(events) \in Seq(Event)
      BY <1>8 DEF Deliver
    <2>2. view' \in [Drafts -> States \union {None}]
      <3>1. CASE UNCHANGED view
        BY <3>1
      <3>2. CASE view' = [d \in Drafts |->
                   IF Shows(d, Head(events).execution)
                   THEN Reduce(view[d], {Head(events)}) ELSE view[d]]
        <4>1. \A d \in Drafts : Shows(d, Head(events).execution) =>
                Reduce(view[d], {Head(events)}) \in States
          BY <2>1, ReduceLemma DEF Shows
        <4> QED
          BY <3>2, <4>1
      <3> QED
        BY <1>8, <3>1, <3>2 DEF Deliver
    <2>3. buffered' \subseteq Event
      BY <1>8, <2>1 DEF Deliver
    <2> QED
      BY <1>8, <2>1, <2>2, <2>3 DEF Deliver, startVars, coordinatorVars
  <1>9. CASE Unlisten \/ Listen
    <2>1. <<>> \in Seq(Event)
      OBVIOUS
    <2>2. events' \in {events, <<>>} /\ listening' \in BOOLEAN
      BY <1>9 DEF Unlisten, Listen
    <2> QED
      BY <1>9, <2>1, <2>2 DEF Unlisten, Listen, startVars, coordinatorVars
  <1>10. ASSUME NEW e \in Executions, Reconcile(e)
         PROVE  TypeOK'
    <2>1. Base(e) \in States
      BY QueuedLemma DEF Base, Shows
    <2>2. initial[e] \union {event \in buffered : event.execution = e} \in SUBSET Event
      OBVIOUS
    <2>3. Reduce(Base(e), initial[e] \union {event \in buffered : event.execution = e}) \in States
      BY <2>1, <2>2, ReduceLemma
    <2>4. view' \in [Drafts -> States \union {None}]
      BY <1>10, <2>3 DEF Reconcile
    <2> QED
      BY <1>10, <2>4 DEF Reconcile, coordinatorVars
  <1>11. ASSUME NEW e \in Executions, Reject(e)
         PROVE  TypeOK'
    <2>1. CASE Shows(DraftOf[e], e)
      <3>1. view[DraftOf[e]] \in States
        BY <2>1 DEF Shows
      <3>2. [view[DraftOf[e]] EXCEPT !.phase = "failed"] \in States
        BY <3>1 DEF States, Phases
      <3>3. view' = [view EXCEPT ![DraftOf[e]] = [view[DraftOf[e]] EXCEPT !.phase = "failed"]]
        BY <1>11, <2>1 DEF Reject
      <3> QED
        BY <1>11, <3>2, <3>3 DEF Reject, coordinatorVars
    <2>2. CASE ~ Shows(DraftOf[e], e)
      BY <1>11, <2>2 DEF Reject, coordinatorVars
    <2> QED
      BY <2>1, <2>2
  <1>12. ASSUME NEW d \in Drafts, ClickCancel(d)
         PROVE  TypeOK'
    <2>1. cancelling' \in [Drafts ->
            [shown : States, answer : {"awaited", "yes", "no"}] \union {None}]
      BY <1>12 DEF ClickCancel
    <2> QED
      BY <1>12, <2>1 DEF ClickCancel, startVars, coordinatorVars
  <1>13. ASSUME NEW d \in Drafts, HandleCancel(d)
         PROVE  TypeOK'
    <2>1. cancelling[d].shown.execution \in Executions
      BY <1>13 DEF HandleCancel, States
    <2>2. cancelRequested' \subseteq Executions
      BY <1>13, <2>1 DEF HandleCancel
    <2>3. cancelling' \in [Drafts ->
            [shown : States, answer : {"awaited", "yes", "no"}] \union {None}]
      BY <1>13 DEF HandleCancel
    <2> QED
      BY <1>13, <2>2, <2>3 DEF HandleCancel, startVars
  <1>14. ASSUME NEW d \in Drafts, CancelReturns(d)
         PROVE  TypeOK'
    <2>1. [cancelling[d].shown EXCEPT !.phase = "failed"] \in States
      BY <1>14 DEF CancelReturns, States, Phases
    <2>2. view' \in [Drafts -> States \union {None}]
      BY <1>14, <2>1 DEF CancelReturns
    <2>3. cancelling' \in [Drafts ->
            [shown : States, answer : {"awaited", "yes", "no"}] \union {None}]
      BY <1>14 DEF CancelReturns
    <2> QED
      BY <1>14, <2>2, <2>3 DEF CancelReturns, startVars, coordinatorVars
  <1>15. CASE UNCHANGED vars
    BY <1>15 DEF vars, startVars, coordinatorVars, viewVars
  <1> QED
    BY <1>1, <1>2, <1>3, <1>4, <1>5, <1>6, <1>7, <1>8, <1>9, <1>10, <1>11, <1>12, <1>13,
       <1>14, <1>15 DEF Next

\* Every reachable state of the view is well typed.
THEOREM TypeCorrect == Spec => []TypeOK
  BY TypeInit, TypeStep, PTL DEF Spec

-----------------------------------------------------------------------------
(* What a tab shows is true *)

\* Events that were recorded of their execution.
Genuine(evs) == \A event \in evs : event.kind \in kinds[event.execution]

\* A state that is true of its execution.
TrueOf(v) ==
  /\ v.phase = "completed" => "COMPLETED" \in kinds[v.execution]
  /\ v.phase = "cancelled" => "CANCELLED" \in kinds[v.execution]
  /\ v.headers => "HEADERS" \in kinds[v.execution]

\* Wherever an event is, it was recorded; what a tab shows, or remembers while it
\* waits for a cancel, is of its draft and true.
HonestInv ==
  /\ Genuine(recorded) /\ Genuine(buffered)
  /\ \A e \in Executions : Genuine(initial[e])
  /\ \A i \in 1..Len(events) : events[i].kind \in kinds[events[i].execution]
  /\ \A d \in Drafts : view[d] # None => DraftOf[view[d].execution] = d /\ TrueOf(view[d])
  /\ \A d \in Drafts : cancelling[d] # None =>
       /\ DraftOf[cancelling[d].shown.execution] = d
       /\ TrueOf(cancelling[d].shown)

LEMMA HonestInit == Init => HonestInv
  BY DEF Init, HonestInv, Genuine

\* Reducing genuine events keeps a state true.
LEMMA ReduceKeepsTruth ==
  ASSUME NEW v \in States, TrueOf(v), NEW evs \in SUBSET Event, Genuine(evs)
  PROVE  TrueOf(Reduce(v, evs))
  <1> DEFINE r == Reduce(v, evs)
  <1>1. /\ r.execution = v.execution
        /\ \/ r.phase = v.phase
           \/ \E event \in evs : /\ event.execution = v.execution
                                 /\ Sets(event)
                                 /\ r.phase = PhaseOf[event.kind]
        /\ \/ r.headers = v.headers
           \/ \E event \in evs : event.execution = v.execution /\ event.kind = "HEADERS"
    BY ReduceLemma
  <1> HIDE DEF r
  <1>2. \A event \in evs : Sets(event) =>
          /\ PhaseOf[event.kind] = "completed" => event.kind = "COMPLETED"
          /\ PhaseOf[event.kind] = "cancelled" => event.kind = "CANCELLED"
    BY DEF Sets, PhaseOf
  <1>3. r.phase = "completed" => "COMPLETED" \in kinds[v.execution]
    BY <1>1, <1>2 DEF TrueOf, Genuine
  <1>4. r.phase = "cancelled" => "CANCELLED" \in kinds[v.execution]
    BY <1>1, <1>2 DEF TrueOf, Genuine
  <1>5. r.headers => "HEADERS" \in kinds[v.execution]
    BY <1>1 DEF TrueOf, Genuine
  <1>6. TrueOf(r)
    BY <1>1, <1>3, <1>4, <1>5 DEF TrueOf
  <1> QED
    BY <1>6 DEF r

LEMMA QueuedIsTrue == \A e \in Executions : TrueOf(Queued(e))
  BY DEF Queued, TrueOf

LEMMA HonestStep == TypeOK /\ HonestInv /\ [Next]_vars => HonestInv'
  <1> SUFFICES ASSUME TypeOK, HonestInv, [Next]_vars
               PROVE  HonestInv'
    OBVIOUS
  <1>1. ASSUME UNCHANGED <<kinds, recorded, initial, events, view, buffered, cancelling>>
        PROVE  HonestInv'
    BY <1>1 DEF HonestInv, Genuine, TrueOf
  <1>2. ASSUME NEW e \in Executions,
               Execute(e) \/ StartBegins(e) \/ StartReturns(e) \/ StartFails(e)
        PROVE  HonestInv'
    BY <1>1, <1>2 DEF Execute, StartBegins, StartReturns, StartFails, coordinatorVars, viewVars
  <1>3. ASSUME NEW d0 \in Drafts, NEW v \in States, TrueOf(v), DraftOf[v.execution] = d0,
               view' = [view EXCEPT ![d0] = v],
               buffered' \subseteq buffered,
               cancelling' \in {cancelling, [cancelling EXCEPT ![d0] = None]},
               UNCHANGED <<kinds, recorded, initial, events>>
        PROVE  HonestInv'
    <2>1. Genuine(recorded)' /\ Genuine(buffered)' /\ \A e \in Executions : Genuine(initial[e])'
      BY <1>3 DEF HonestInv, Genuine
    <2>2. \A i \in 1..Len(events') : events'[i].kind \in kinds'[events'[i].execution]
      BY <1>3 DEF HonestInv
    <2>3. \A d \in Drafts : view'[d] # None =>
            DraftOf[view'[d].execution] = d /\ TrueOf(view[d])'
      BY <1>3 DEF HonestInv, TypeOK, TrueOf
    <2>4. \A d \in Drafts : cancelling'[d] # None =>
            /\ DraftOf[cancelling'[d].shown.execution] = d
            /\ TrueOf(cancelling[d].shown)'
      BY <1>3 DEF HonestInv, TypeOK, TrueOf
    <2> QED
      BY <2>1, <2>2, <2>3, <2>4 DEF HonestInv
  <1>4. ASSUME NEW e \in Executions, Send(e)
        PROVE  HonestInv'
    BY <1>3, <1>4, QueuedLemma, QueuedIsTrue DEF Send, coordinatorVars, TypeOK
  <1>5. ASSUME NEW e \in Executions, NEW kind \in Kinds, RecordEvent(e, kind)
        PROVE  HonestInv'
    <2>1. /\ kinds' = [kinds EXCEPT ![e] = @ \union {kind}]
          /\ recorded' = recorded \union
               {[execution |-> e, sequence |-> count[e] + 1, kind |-> kind]}
          /\ UNCHANGED <<initial, events, view, buffered, cancelling>>
      BY <1>5 DEF RecordEvent, viewVars
    <2>2. \A f \in Executions : kinds[f] \subseteq kinds'[f]
      BY <2>1 DEF TypeOK
    <2>3. kind \in kinds'[e]
      BY <2>1 DEF TypeOK
    <2>4. \A event \in recorded \union buffered : event.execution \in Executions
      BY DEF TypeOK, Event
    <2>5. \A f \in Executions : \A event \in initial[f] : event.execution \in Executions
      BY DEF TypeOK, Event
    <2>6. \A i \in 1..Len(events) : events[i].execution \in Executions
      <3>1. \A i \in 1..Len(events) : events[i] \in Event
        BY DEF TypeOK
      <3> QED
        BY <3>1 DEF Event
    <2>7. /\ \A d \in Drafts : view[d] # None => view[d].execution \in Executions
          /\ \A d \in Drafts : cancelling[d] # None =>
               cancelling[d].shown.execution \in Executions
      BY DEF TypeOK, States
    <2>8. Genuine(recorded)' /\ Genuine(buffered)' /\ \A f \in Executions : Genuine(initial[f])'
      BY <2>1, <2>2, <2>3, <2>4, <2>5 DEF HonestInv, Genuine
    <2>9. \A i \in 1..Len(events') : events'[i].kind \in kinds'[events'[i].execution]
      BY <2>1, <2>2, <2>6 DEF HonestInv
    <2>10. \A d \in Drafts : view'[d] # None =>
             DraftOf[view'[d].execution] = d /\ TrueOf(view[d])'
      BY <2>1, <2>2, <2>7 DEF HonestInv, TrueOf
    <2>11. \A d \in Drafts : cancelling'[d] # None =>
             /\ DraftOf[cancelling'[d].shown.execution] = d
             /\ TrueOf(cancelling[d].shown)'
      BY <2>1, <2>2, <2>7 DEF HonestInv, TrueOf
    <2> QED
      BY <2>8, <2>9, <2>10, <2>11 DEF HonestInv
  <1>6. ASSUME NEW event \in recorded, Sink(event)
        PROVE  HonestInv'
    <2>1. event \in Event /\ event.execution \in Executions
          /\ event.kind \in kinds[event.execution]
      BY DEF TypeOK, Event, HonestInv, Genuine
    <2>2. /\ recorded' = recorded \ {event}
          /\ initial' \in {initial, [initial EXCEPT ![event.execution] = @ \union {event}]}
          /\ events' \in {events, Append(events, event)}
          /\ UNCHANGED <<kinds, view, buffered, cancelling>>
      BY <1>6 DEF Sink, coordinatorVars, viewVars
    <2>3. Genuine(recorded)' /\ Genuine(buffered)'
      BY <2>2 DEF HonestInv, Genuine
    <2>4. ASSUME NEW e \in Executions PROVE Genuine(initial[e])'
      <3>1. initial'[e] \in {initial[e], initial[e] \union {event}}
        BY <2>1, <2>2 DEF TypeOK
      <3> QED
        BY <2>1, <2>2, <3>1 DEF HonestInv, Genuine
    <2>5. \A i \in 1..Len(events') : events'[i].kind \in kinds'[events'[i].execution]
      <3>1. events \in Seq(Event)
        BY DEF TypeOK
      <3>2. \A i \in 1..Len(events') :
              events'[i] = event \/ (i \in 1..Len(events) /\ events'[i] = events[i])
        BY <2>1, <2>2, <3>1, AppendLemma
      <3> QED
        BY <2>1, <2>2, <3>2 DEF HonestInv
    <2>6. /\ \A d \in Drafts : view'[d] # None =>
               DraftOf[view'[d].execution] = d /\ TrueOf(view[d])'
          /\ \A d \in Drafts : cancelling'[d] # None =>
               /\ DraftOf[cancelling'[d].shown.execution] = d
               /\ TrueOf(cancelling[d].shown)'
      BY <2>2 DEF HonestInv, TrueOf
    <2> QED
      BY <2>3, <2>4, <2>5, <2>6 DEF HonestInv
  <1>7. CASE Deliver
    <2> DEFINE event == Head(events)
    <2>1. event \in Event /\ event.kind \in kinds[event.execution]
      BY <1>7 DEF Deliver, TypeOK, HonestInv
    <2>2. /\ events' = Tail(events)
          /\ buffered' \in {buffered, buffered \union {event}}
          /\ \/ UNCHANGED view
             \/ view' = [d \in Drafts |->
                  IF Shows(d, event.execution) THEN Reduce(view[d], {event}) ELSE view[d]]
          /\ UNCHANGED <<kinds, recorded, initial, cancelling>>
      BY <1>7 DEF Deliver, startVars, coordinatorVars
    <2>3. Genuine(recorded)' /\ Genuine(buffered)' /\ \A e \in Executions : Genuine(initial[e])'
      BY <2>1, <2>2 DEF HonestInv, Genuine
    <2>4. \A i \in 1..Len(events') : events'[i].kind \in kinds'[events'[i].execution]
      BY <1>7, <2>2 DEF HonestInv, TypeOK, Deliver
    <2>5. {event} \in SUBSET Event /\ Genuine({event})
      BY <2>1 DEF Genuine
    <2> HIDE DEF event
    <2>6. ASSUME NEW d \in Drafts, view'[d] # None
          PROVE  DraftOf[view'[d].execution] = d /\ TrueOf(view'[d])
      <3>1. CASE view'[d] = view[d]
        BY <2>6, <3>1 DEF HonestInv
      <3>2. CASE view[d] # None /\ view'[d] = Reduce(view[d], {event})
        <4>1. view[d] \in States /\ TrueOf(view[d]) /\ DraftOf[view[d].execution] = d
          BY <3>2 DEF HonestInv, TypeOK
        <4> QED
          BY <2>5, <3>2, <4>1, ReduceLemma, ReduceKeepsTruth
      <3> QED
        BY <2>2, <3>1, <3>2 DEF Shows
    <2>7. \A d \in Drafts : view'[d] # None =>
            DraftOf[view'[d].execution] = d /\ TrueOf(view[d])'
      BY <2>2, <2>6 DEF TrueOf
    <2>8. \A d \in Drafts : cancelling'[d] # None =>
            /\ DraftOf[cancelling'[d].shown.execution] = d
            /\ TrueOf(cancelling[d].shown)'
      BY <2>2 DEF HonestInv, TrueOf
    <2> QED
      BY <2>3, <2>4, <2>7, <2>8 DEF HonestInv
  <1>8. CASE Unlisten \/ Listen
    <2>1. /\ events' \in {events, <<>>}
          /\ UNCHANGED <<kinds, recorded, initial, view, buffered, cancelling>>
      BY <1>8 DEF Unlisten, Listen, startVars, coordinatorVars
    <2>2. \A i \in 1..Len(events') : events'[i].kind \in kinds'[events'[i].execution]
      BY <2>1 DEF HonestInv
    <2> QED
      BY <2>1, <2>2 DEF HonestInv, Genuine, TrueOf
  <1>9. ASSUME NEW e \in Executions, Reconcile(e)
        PROVE  HonestInv'
    <2> DEFINE early == {event \in buffered : event.execution = e}
               reduced == Reduce(Base(e), initial[e] \union early)
    <2>1. Base(e) \in States /\ TrueOf(Base(e)) /\ Base(e).execution = e
      BY QueuedLemma, QueuedIsTrue DEF Base, Shows, TypeOK, HonestInv
    <2>2. initial[e] \union early \in SUBSET Event /\ Genuine(initial[e] \union early)
      BY DEF TypeOK, HonestInv, Genuine
    <2>3. reduced \in States /\ TrueOf(reduced) /\ reduced.execution = e
      BY <2>1, <2>2, ReduceLemma, ReduceKeepsTruth
    <2>4. /\ view' = [view EXCEPT ![DraftOf[e]] = reduced]
          /\ buffered' \subseteq buffered
          /\ UNCHANGED <<kinds, recorded, initial, events, cancelling>>
      BY <1>9 DEF Reconcile, coordinatorVars
    <2> HIDE DEF reduced
    <2> QED
      BY <1>3, <2>3, <2>4
  <1>10. ASSUME NEW e \in Executions, Reject(e)
         PROVE  HonestInv'
    <2>1. CASE Shows(DraftOf[e], e)
      <3>1. /\ view[DraftOf[e]] \in States /\ view[DraftOf[e]].execution = e
            /\ TrueOf(view[DraftOf[e]])
        BY <2>1 DEF Shows, TypeOK, HonestInv
      <3>2. /\ [view[DraftOf[e]] EXCEPT !.phase = "failed"] \in States
            /\ [view[DraftOf[e]] EXCEPT !.phase = "failed"].execution = e
            /\ TrueOf([view[DraftOf[e]] EXCEPT !.phase = "failed"])
        BY <3>1 DEF States, Phases, TrueOf
      <3>3. /\ view' = [view EXCEPT ![DraftOf[e]] = [view[DraftOf[e]] EXCEPT !.phase = "failed"]]
            /\ UNCHANGED <<kinds, recorded, initial, events, buffered, cancelling>>
        BY <1>10, <2>1 DEF Reject, coordinatorVars
      <3> QED
        BY <1>3, <3>2, <3>3
    <2>2. CASE ~ Shows(DraftOf[e], e)
      BY <1>1, <1>10, <2>2 DEF Reject, coordinatorVars
    <2> QED
      BY <2>1, <2>2
  <1>11. ASSUME NEW d \in Drafts, NEW call, TrueOf(call.shown), DraftOf[call.shown.execution] = d,
                cancelling' = [cancelling EXCEPT ![d] = call],
                UNCHANGED <<kinds, recorded, initial, events, view, buffered>>
         PROVE  HonestInv'
    <2>1. \A f \in Drafts : cancelling'[f] = IF f = d THEN call ELSE cancelling[f]
      BY <1>11 DEF TypeOK
    <2>2. \A f \in Drafts : cancelling'[f] # None =>
            /\ DraftOf[cancelling'[f].shown.execution] = f
            /\ TrueOf(cancelling[f].shown)'
      BY <1>11, <2>1 DEF HonestInv, TrueOf
    <2> QED
      BY <1>11, <2>2 DEF HonestInv, Genuine, TrueOf
  <1>12. ASSUME NEW d \in Drafts, ClickCancel(d) \/ HandleCancel(d)
         PROVE  HonestInv'
    <2>1. CASE ClickCancel(d)
      <3> DEFINE call == [shown |-> view[d], answer |-> "awaited"]
      <3>1. TrueOf(call.shown) /\ DraftOf[call.shown.execution] = d
        BY <2>1 DEF ClickCancel, HonestInv
      <3>2. /\ cancelling' = [cancelling EXCEPT ![d] = call]
            /\ UNCHANGED <<kinds, recorded, initial, events, view, buffered>>
        BY <2>1 DEF ClickCancel, startVars, coordinatorVars
      <3> HIDE DEF call
      <3> QED
        BY <1>11, <3>1, <3>2
    <2>2. CASE HandleCancel(d)
      <3>1. PICK answer : cancelling' = [cancelling EXCEPT ![d].answer = answer]
        BY <2>2 DEF HandleCancel
      <3> DEFINE call == [cancelling[d] EXCEPT !.answer = answer]
      <3>2. call.shown = cancelling[d].shown /\ cancelling' = [cancelling EXCEPT ![d] = call]
        BY <2>2, <3>1 DEF HandleCancel, TypeOK
      <3>3. TrueOf(call.shown) /\ DraftOf[call.shown.execution] = d
        BY <2>2, <3>2 DEF HandleCancel, HonestInv
      <3>4. UNCHANGED <<kinds, recorded, initial, events, view, buffered>>
        BY <2>2 DEF HandleCancel, startVars
      <3> HIDE DEF call
      <3> QED
        BY <1>11, <3>2, <3>3, <3>4
    <2> QED
      BY <1>12, <2>1, <2>2
  <1>13. ASSUME NEW d \in Drafts, CancelReturns(d)
         PROVE  HonestInv'
    <2> DEFINE failed == [cancelling[d].shown EXCEPT !.phase = "failed"]
    <2>1. /\ cancelling[d].shown \in States
          /\ DraftOf[cancelling[d].shown.execution] = d
          /\ TrueOf(cancelling[d].shown)
      BY <1>13 DEF CancelReturns, TypeOK, HonestInv
    <2>2. failed \in States /\ DraftOf[failed.execution] = d /\ TrueOf(failed)
      BY <2>1 DEF States, Phases, TrueOf
    <2> HIDE DEF failed
    <2>3. CASE UNCHANGED view
      <3>1. /\ cancelling' = [cancelling EXCEPT ![d] = None]
            /\ UNCHANGED <<kinds, recorded, initial, events, view, buffered>>
        BY <1>13, <2>3 DEF CancelReturns, startVars, coordinatorVars
      <3>2. \A f \in Drafts : cancelling'[f] # None => cancelling'[f] = cancelling[f]
        BY <3>1 DEF TypeOK
      <3> QED
        BY <3>1, <3>2 DEF HonestInv, Genuine, TrueOf
    <2>4. CASE view' = [view EXCEPT ![d] = failed]
      BY <1>3, <1>13, <2>2, <2>4 DEF CancelReturns, startVars, coordinatorVars
    <2> QED
      BY <1>13, <2>3, <2>4 DEF CancelReturns, failed
  <1>14. CASE UNCHANGED vars
    BY <1>1, <1>14 DEF vars, startVars, coordinatorVars, viewVars
  <1> QED
    BY <1>2, <1>4, <1>5, <1>6, <1>7, <1>8, <1>9, <1>10, <1>12, <1>13, <1>14 DEF Next

\* Whatever the user does and in whichever order events and results arrive, a tab
\* shows an execution of its own draft and no outcome that was not recorded of it.
THEOREM HonestView == Spec => []Honest
  <1>1. HonestInv => Honest
    BY DEF HonestInv, Honest, TrueOf
  <1> QED
    BY <1>1, TypeInit, TypeStep, HonestInit, HonestStep, PTL DEF Spec

-----------------------------------------------------------------------------
(* An end that is shown stays *)

\* An event is counted, and is the last of its execution exactly if it is terminal.
Fits(event) ==
  LET e == event.execution IN
    /\ event.sequence <= count[e]
    /\ stage[e] \in {"live", "silent", "ended"}
    /\ event.kind \in TerminalKinds <=> stage[e] = "ended" /\ event.sequence = count[e]

\* A state that shows an end has seen every event, or the start has failed.
EndOf(v) ==
  LET e == v.execution IN
    /\ v.last <= count[e]
    /\ stage[e] \notin {"new", "persisting"}
    /\ v.phase # "running" =>
         \/ stage[e] = "ended" /\ v.last = count[e]
         \/ stage[e] = "refused" /\ v.phase = "failed"

\* Where events are fits, and nobody cancels.
EndInv ==
  /\ \A event \in recorded \union buffered : Fits(event)
  /\ \A e \in Executions : \A event \in initial[e] : Fits(event)
  /\ \A i \in 1..Len(events) : Fits(events[i])
  /\ \A d \in Drafts : view[d] # None => EndOf(view[d])
  /\ \A d \in Drafts : cancelling[d] = None
  /\ \A e \in Executions :
       starting = e \/ e \in replies => stage[e] \in {"live", "silent", "ended", "refused"}

LEMMA EndInit == Init => EndInv
  BY DEF Init, EndInv

\* Reducing fitting events changes nothing of a state that shows an end, and keeps
\* EndOf.
LEMMA ReduceEnd ==
  ASSUME TypeOK, NEW v \in States, EndOf(v), NEW evs \in SUBSET Event,
         \A event \in evs : Fits(event)
  PROVE  /\ EndOf(Reduce(v, evs))
         /\ v.phase # "running" => Reduce(v, evs).phase = v.phase
  <1> DEFINE r == Reduce(v, evs)
             e == v.execution
  <1>1. r \in States /\ r.execution = e /\ e \in Executions /\ count[e] \in Nat
    BY ReduceLemma DEF States, TypeOK
  <1>2. \A event \in News(v, evs) :
          /\ event.execution = e /\ event.sequence \in Nat /\ event.sequence > v.last
          /\ Fits(event) /\ event.kind \in Kinds
    BY DEF News, IsNews, Event
  <1>3. /\ \/ News(v, evs) = {} /\ r.last = v.last
           \/ \E event \in News(v, evs) : r.last = event.sequence
        /\ \A event \in News(v, evs) : event.sequence <= r.last
        /\ \/ r.phase = v.phase
           \/ \E event \in News(v, evs) : Sets(event) /\ r.phase = PhaseOf[event.kind]
    BY ReduceNews
  <1>4. v.last \in Nat /\ r.last \in Nat
    BY <1>1 DEF States
  <1> HIDE DEF r
  <1>5. r.last <= count[e]
    BY <1>2, <1>3 DEF Fits, EndOf
  <1>6. CASE v.phase # "running"
    <2>1. News(v, evs) = {}
      BY <1>1, <1>2, <1>4, <1>6 DEF EndOf, Fits
    <2>2. r.last = v.last /\ r.phase = v.phase
      BY <1>3, <2>1
    <2> QED
      BY <1>1, <2>2 DEF EndOf, r
  <1>7. CASE v.phase = "running"
    <2>1. r.phase # "running" =>
            \E event \in News(v, evs) : event.kind \in TerminalKinds
      <3>1. \A event \in News(v, evs) :
              Sets(event) /\ PhaseOf[event.kind] # "running" => event.kind \in TerminalKinds
        BY <1>2 DEF Sets, PhaseOf, TerminalKinds
      <3> QED
        BY <1>3, <1>7, <3>1
    <2>2. ASSUME NEW event \in News(v, evs), event.kind \in TerminalKinds
          PROVE  stage[e] = "ended" /\ r.last = count[e]
      <3>1. stage[e] = "ended" /\ event.sequence = count[e]
        BY <1>2, <2>2 DEF Fits
      <3> QED
        BY <1>1, <1>3, <1>4, <1>5, <3>1
    <2> QED
      BY <1>1, <1>5, <1>7, <2>1, <2>2 DEF EndOf, r
  <1> QED
    BY <1>6, <1>7

LEMMA QueuedEnd ==
  ASSUME TypeOK, NEW e \in Executions, stage[e] \notin {"new", "persisting"}
  PROVE  EndOf(Queued(e))
  BY DEF Queued, EndOf, TypeOK

\* How the stage of an execution changes when no event is recorded.
Quiet ==
  /\ count' = count
  /\ \A f \in Executions :
       \/ stage'[f] = stage[f]
       \/ stage[f] = "new"
       \/ stage[f] = "persisting" /\ stage'[f] = "sent"
       \/ stage[f] = "sent" /\ stage'[f] \in {"live", "refused"}
       \/ stage[f] = "live" /\ stage'[f] = "silent"

LEMMA QuietKeeps ==
  ASSUME TypeOK, Quiet
  PROVE  /\ \A event \in Event : Fits(event) => Fits(event)'
         /\ \A v \in States : EndOf(v) => EndOf(v)'
  <1>1. ASSUME NEW event \in Event, Fits(event)
        PROVE  Fits(event)'
    <2>1. event.execution \in Executions
      BY DEF Event
    <2> QED
      BY <1>1, <2>1 DEF Fits, Quiet
  <1>2. ASSUME NEW v \in States, EndOf(v)
        PROVE  EndOf(v)'
    <2>1. v.execution \in Executions
      BY DEF States
    <2> QED
      BY <1>2, <2>1 DEF EndOf, Quiet
  <1> QED
    BY <1>1, <1>2

\* A step that records nothing keeps EndInv if it moves fitting events about and
\* what it shows keeps EndOf.
LEMMA QuietStep ==
  ASSUME TypeOK, TypeOK', EndInv, Quiet,
         \A event \in recorded' \union buffered' : Fits(event),
         \A e \in Executions : \A event \in initial'[e] : Fits(event),
         \A i \in 1..Len(events') : Fits(events'[i]),
         \A d \in Drafts : view'[d] = view[d] \/ EndOf(view[d])',
         cancelling' = cancelling,
         \A e \in Executions :
           starting' = e \/ e \in replies' =>
             stage'[e] \in {"live", "silent", "ended", "refused"}
  PROVE  EndInv'
  <1>1. \A event \in recorded' \union buffered' : Fits(event)'
    BY QuietKeeps DEF TypeOK
  <1>2. \A e \in Executions : \A event \in initial'[e] : Fits(event)'
    BY QuietKeeps DEF TypeOK
  <1>3. \A i \in 1..Len(events') : Fits(events[i])'
    <2>1. \A i \in 1..Len(events') : events'[i] \in Event
      BY DEF TypeOK
    <2> QED
      BY <2>1 DEF Fits, Quiet, Event
  <1>4. \A d \in Drafts : view'[d] # None => EndOf(view[d])'
    <2>1. ASSUME NEW d \in Drafts, view[d] # None, view'[d] = view[d]
          PROVE  EndOf(view[d])'
      <3>1. view[d] \in States /\ EndOf(view[d])
        BY <2>1 DEF TypeOK, EndInv
      <3>2. view[d].execution \in Executions
        BY <3>1 DEF States
      <3> QED
        BY <2>1, <3>1, <3>2 DEF EndOf, Quiet
    <2> QED
      BY <2>1
  <1> QED
    BY <1>1, <1>2, <1>3, <1>4 DEF EndInv

LEMMA EndStep ==
  ASSUME "cancel" \notin Habits, TypeOK, TypeOK', EndInv, [Next]_vars
  PROVE  EndInv'
  <1>1. ASSUME UNCHANGED <<recorded, buffered, initial, events, view, cancelling>>, Quiet,
               \A e \in Executions :
                 starting' = e \/ e \in replies' =>
                   stage'[e] \in {"live", "silent", "ended", "refused"}
        PROVE  EndInv'
    BY <1>1, QuietStep DEF EndInv
  <1>2. ASSUME UNCHANGED <<stage, count, starting, cancelling>>, replies' \subseteq replies,
               \A event \in recorded' \union buffered' : Fits(event),
               \A e \in Executions : \A event \in initial'[e] : Fits(event),
               \A i \in 1..Len(events') : Fits(events'[i]),
               \A d \in Drafts : view'[d] = view[d] \/ EndOf(view[d])'
        PROVE  EndInv'
    <2>1. Quiet
      BY <1>2 DEF Quiet
    <2> QED
      BY <1>2, <2>1, QuietStep DEF EndInv
  <1>3. ASSUME NEW e \in Executions, Execute(e)
        PROVE  EndInv'
    BY <1>1, <1>3 DEF Execute, coordinatorVars, viewVars, Quiet, EndInv, TypeOK
  <1>4. ASSUME NEW e \in Executions, Send(e)
        PROVE  EndInv'
    <2>1. Quiet /\ UNCHANGED <<recorded, buffered, initial, events, starting, replies, cancelling>>
      BY <1>4 DEF Send, coordinatorVars, Quiet, TypeOK
    <2>2. view' = [view EXCEPT ![DraftOf[e]] = Queued(e)] /\ stage'[e] = "sent"
      BY <1>4 DEF Send, TypeOK
    <2>3. EndOf(Queued(e))'
      BY <2>1, <2>2, QueuedLemma DEF Queued, EndOf, Quiet, TypeOK
    <2>4. \A d \in Drafts : view'[d] = view[d] \/ EndOf(view[d])'
      <3>1. \A d \in Drafts : view'[d] = view[d] \/ view'[d] = Queued(e)
        BY <2>2 DEF TypeOK
      <3> QED
        BY <2>3, <3>1 DEF EndOf, Queued
    <2>5. \A f \in Executions :
            starting' = f \/ f \in replies' => stage'[f] \in {"live", "silent", "ended", "refused"}
      BY <1>4, <2>1 DEF Send, EndInv, TypeOK
    <2> QED
      BY <2>1, <2>4, <2>5, QuietStep DEF EndInv
  <1>5. ASSUME NEW e \in Executions, StartBegins(e)
        PROVE  EndInv'
    BY <1>1, <1>5 DEF StartBegins, coordinatorVars, viewVars, Quiet, EndInv, TypeOK
  <1>6. ASSUME NEW e \in Executions, StartReturns(e)
        PROVE  EndInv'
    BY <1>1, <1>6 DEF StartReturns, coordinatorVars, viewVars, Quiet, EndInv, TypeOK
  <1>7. ASSUME NEW e \in Executions, StartFails(e)
        PROVE  EndInv'
    BY <1>1, <1>7 DEF StartFails, coordinatorVars, viewVars, Quiet, EndInv, TypeOK
  <1>8. ASSUME NEW e \in Executions, NEW kind \in Kinds, RecordEvent(e, kind)
        PROVE  EndInv'
    <2> DEFINE new == [execution |-> e, sequence |-> count[e] + 1, kind |-> kind]
    <2>1. /\ stage[e] = "live" /\ count[e] \in Nat
          /\ stage'[e] = IF kind \in TerminalKinds THEN "ended" ELSE "live"
          /\ count'[e] = count[e] + 1
          /\ \A f \in Executions \ {e} : stage'[f] = stage[f] /\ count'[f] = count[f]
          /\ recorded' = recorded \union {new}
          /\ UNCHANGED <<starting, initial, replies, events, view, buffered, cancelling>>
      BY <1>8 DEF RecordEvent, viewVars, TypeOK
    <2> HIDE DEF new
    <2>2. ASSUME NEW event, event = new
          PROVE  Fits(event)'
      <3>1. event.execution = e /\ event.sequence = count[e] + 1 /\ event.kind = kind
        BY <2>2 DEF new
      <3> QED
        BY <2>1, <3>1 DEF Fits
    <2>3. ASSUME NEW event \in Event, Fits(event)
          PROVE  Fits(event)'
      <3>1. event.execution \in Executions /\ event.sequence \in Nat
        BY DEF Event
      <3>2. CASE event.execution = e
        <4>1. event.sequence <= count[e] /\ event.kind \notin TerminalKinds
          BY <2>1, <2>3, <3>2 DEF Fits
        <4> QED
          BY ONLY <2>1, <3>1, <3>2, <4>1 DEF Fits
      <3> QED
        BY <2>1, <2>3, <3>1, <3>2 DEF Fits
    <2>4. ASSUME NEW v \in States, EndOf(v)
          PROVE  EndOf(v)'
      <3>1. v.execution \in Executions /\ v.last \in Nat
        BY DEF States
      <3>2. CASE v.execution = e
        <4>1. v.phase = "running" /\ v.last <= count[e]
          BY <2>1, <2>4, <3>2 DEF EndOf
        <4> QED
          BY ONLY <2>1, <3>1, <3>2, <4>1 DEF EndOf
      <3> QED
        BY <2>1, <2>4, <3>1, <3>2 DEF EndOf
    <2>5. \A event \in recorded' \union buffered' : Fits(event)'
      BY <2>1, <2>2, <2>3 DEF EndInv, TypeOK
    <2>6. \A f \in Executions : \A event \in initial'[f] : Fits(event)'
      BY <2>1, <2>3 DEF EndInv, TypeOK
    <2>7. \A i \in 1..Len(events') : Fits(events[i])'
      <3>1. ASSUME NEW i \in 1..Len(events') PROVE Fits(events[i])'
        <4>1. events[i] \in Event /\ Fits(events[i]) /\ events'[i] = events[i]
          BY <2>1 DEF TypeOK, EndInv
        <4> QED
          BY <2>3, <4>1 DEF Fits
      <3> QED
        BY <3>1
    <2>8. ASSUME NEW d \in Drafts, view'[d] # None PROVE EndOf(view[d])'
      <3>1. view[d] \in States /\ EndOf(view[d]) /\ view'[d] = view[d]
        BY <2>1, <2>8 DEF TypeOK, EndInv
      <3> QED
        BY <2>4, <3>1 DEF EndOf
    <2>9. \A f \in Executions :
            starting' = f \/ f \in replies' => stage'[f] \in {"live", "silent", "ended", "refused"}
      BY <2>1 DEF EndInv
    <2> QED
      BY <2>1, <2>5, <2>6, <2>7, <2>8, <2>9 DEF EndInv
  <1>9. ASSUME NEW event \in recorded, Sink(event)
        PROVE  EndInv'
    <2>1. event \in Event /\ event.execution \in Executions /\ Fits(event)
      BY DEF TypeOK, Event, EndInv
    <2>2. /\ recorded' = recorded \ {event}
          /\ initial' \in {initial, [initial EXCEPT ![event.execution] = @ \union {event}]}
          /\ events' \in {events, Append(events, event)}
          /\ UNCHANGED <<stage, starting, replies, count, view, buffered, cancelling>>
      BY <1>9 DEF Sink, coordinatorVars, viewVars
    <2>3. ASSUME NEW f \in Executions, NEW other \in initial'[f] PROVE Fits(other)
      <3>1. initial'[f] \in {initial[f], initial[f] \union {event}}
        BY <2>1, <2>2 DEF TypeOK
      <3> QED
        BY <2>1, <2>3, <3>1 DEF EndInv
    <2>4. ASSUME NEW i \in 1..Len(events') PROVE Fits(events'[i])
      <3>1. events \in Seq(Event)
        BY DEF TypeOK
      <3>2. events'[i] = event \/ (i \in 1..Len(events) /\ events'[i] = events[i])
        BY <2>1, <2>2, <3>1, AppendLemma
      <3> QED
        BY <2>1, <3>2 DEF EndInv
    <2> QED
      BY <1>2, <2>2, <2>3, <2>4 DEF EndInv
  <1>10. CASE Deliver
    <2> DEFINE event == Head(events)
    <2>1. event \in Event /\ Fits(event)
      BY <1>10 DEF Deliver, TypeOK, EndInv
    <2>2. /\ events' = Tail(events)
          /\ buffered' \in {buffered, buffered \union {event}}
          /\ \/ UNCHANGED view
             \/ view' = [d \in Drafts |->
                  IF Shows(d, event.execution) THEN Reduce(view[d], {event}) ELSE view[d]]
          /\ UNCHANGED <<stage, starting, replies, count, recorded, initial, cancelling>>
      BY <1>10 DEF Deliver, startVars, coordinatorVars
    <2>3. \A i \in 1..Len(events') : Fits(events'[i])
      BY <1>10, <2>2 DEF EndInv, TypeOK, Deliver
    <2> HIDE DEF event
    <2>4. ASSUME NEW d \in Drafts, view'[d] # view[d]
          PROVE  EndOf(view[d])'
      <3>1. view'[d] = Reduce(view[d], {event}) /\ view[d] # None
        BY <2>2, <2>4 DEF Shows
      <3>2. view[d] \in States /\ EndOf(view[d])
        BY <3>1 DEF TypeOK, EndInv
      <3>3. EndOf(Reduce(view[d], {event}))
        BY <2>1, <3>2, ReduceEnd
      <3> QED
        BY <2>2, <3>1, <3>3 DEF EndOf
    <2> QED
      BY <1>2, <2>1, <2>2, <2>3, <2>4 DEF EndInv
  <1>11. CASE Unlisten \/ Listen
    <2>1. /\ events' \in {events, <<>>}
          /\ UNCHANGED <<stage, starting, replies, count, recorded, initial, view, buffered, cancelling>>
      BY <1>11 DEF Unlisten, Listen, startVars, coordinatorVars
    <2>2. \A i \in 1..Len(events') : Fits(events'[i])
      BY <2>1 DEF EndInv
    <2> QED
      BY <1>2, <2>1, <2>2 DEF EndInv
  <1>12. ASSUME NEW e \in Executions, Reconcile(e)
         PROVE  EndInv'
    <2> DEFINE early == {event \in buffered : event.execution = e}
               reduced == Reduce(Base(e), initial[e] \union early)
    <2>1. Base(e) \in States /\ EndOf(Base(e))
      <3>1. stage[e] \notin {"new", "persisting"}
        BY <1>12 DEF Reconcile, EndInv
      <3>2. CASE Shows(DraftOf[e], e)
        BY <3>2 DEF Base, Shows, TypeOK, EndInv
      <3>3. CASE ~Shows(DraftOf[e], e)
        BY <3>1, <3>3, QueuedLemma, QueuedEnd DEF Base
      <3> QED
        BY <3>2, <3>3
    <2>2. /\ initial[e] \union early \in SUBSET Event
          /\ \A event \in initial[e] \union early : Fits(event)
      BY DEF TypeOK, EndInv
    <2>3. EndOf(reduced)
      BY <2>1, <2>2, ReduceEnd
    <2>4. /\ view' = [view EXCEPT ![DraftOf[e]] = reduced]
          /\ buffered' \subseteq buffered /\ replies' \subseteq replies
          /\ UNCHANGED <<stage, starting, count, recorded, initial, events, cancelling>>
      BY <1>12 DEF Reconcile, coordinatorVars
    <2> HIDE DEF reduced
    <2>5. ASSUME NEW d \in Drafts, view'[d] # view[d]
          PROVE  EndOf(view[d])'
      <3>1. view'[d] = reduced
        BY <2>4, <2>5 DEF TypeOK
      <3> QED
        BY <2>3, <2>4, <3>1 DEF EndOf
    <2> QED
      BY <1>2, <2>4, <2>5 DEF EndInv
  <1>13. ASSUME NEW e \in Executions, Reject(e)
         PROVE  EndInv'
    <2>1. /\ stage[e] = "refused" /\ replies' \subseteq replies
          /\ UNCHANGED <<stage, starting, count, recorded, initial, events, buffered, cancelling>>
          /\ view' = IF Shows(DraftOf[e], e)
                     THEN [view EXCEPT ![DraftOf[e]].phase = "failed"]
                     ELSE view
      BY <1>13 DEF Reject, coordinatorVars
    <2>2. ASSUME NEW d \in Drafts, view'[d] # view[d]
          PROVE  EndOf(view[d])'
      <3>1. /\ view'[d] = [view[d] EXCEPT !.phase = "failed"]
            /\ view[d] # None /\ view[d].execution = e
        BY <2>1, <2>2 DEF Shows, TypeOK
      <3>2. view[d] \in States /\ EndOf(view[d])
        BY <3>1 DEF TypeOK, EndInv
      <3>3. /\ view'[d].phase = "failed" /\ view'[d].execution = e /\ view'[d].last = view[d].last
        BY <3>1, <3>2 DEF States
      <3> QED
        BY <2>1, <3>1, <3>2, <3>3 DEF EndOf
    <2> QED
      BY <1>2, <2>1, <2>2 DEF EndInv
  <1>14. ASSUME NEW d \in Drafts, ClickCancel(d) \/ HandleCancel(d) \/ CancelReturns(d)
         PROVE  FALSE
    BY <1>14 DEF ClickCancel, HandleCancel, CancelReturns, EndInv
  <1>15. CASE UNCHANGED vars
    BY <1>2, <1>15 DEF vars, startVars, coordinatorVars, viewVars, EndInv
  <1> QED
    BY <1>3, <1>4, <1>5, <1>6, <1>7, <1>8, <1>9, <1>10, <1>11, <1>12, <1>13, <1>14, <1>15 DEF Next

\* Each step leaves the phase of an end that is shown, or the execution, alone.
LEMMA FinalStep ==
  ASSUME "cancel" \notin Habits, TypeOK, EndInv, [Next]_vars,
         NEW d \in Drafts, view[d] # None, view[d].phase # "running"
  PROVE  view'[d].phase = view[d].phase \/ view'[d].execution # view[d].execution
  <1>1. view[d] \in States /\ EndOf(view[d])
    BY DEF TypeOK, EndInv
  <1>2. CASE UNCHANGED view
    BY <1>2
  <1>3. ASSUME NEW e \in Executions, Send(e)
        PROVE  view'[d] = view[d] \/ view'[d].execution # view[d].execution
    <2>1. stage[e] = "persisting" /\ view' = [view EXCEPT ![DraftOf[e]] = Queued(e)]
      BY <1>3 DEF Send
    <2>2. view'[d] = view[d] \/ view'[d] = Queued(e)
      BY <2>1 DEF TypeOK
    <2>3. view[d].execution # e
      BY <1>1, <2>1 DEF EndOf
    <2> QED
      BY <2>2, <2>3, QueuedLemma
  <1>4. CASE Deliver
    <2>1. Head(events) \in Event /\ Fits(Head(events))
      BY <1>4 DEF Deliver, TypeOK, EndInv
    <2>2. view'[d] = view[d] \/ view'[d] = Reduce(view[d], {Head(events)})
      BY <1>4 DEF Deliver
    <2>3. Reduce(view[d], {Head(events)}).phase = view[d].phase
      BY <1>1, <2>1, ReduceEnd
    <2> QED
      BY <2>2, <2>3
  <1>5. ASSUME NEW e \in Executions, Reconcile(e)
        PROVE  view'[d].phase = view[d].phase \/ view'[d].execution # view[d].execution
    <2> DEFINE evs == initial[e] \union {event \in buffered : event.execution = e}
    <2>1. evs \in SUBSET Event /\ \A event \in evs : Fits(event)
      BY DEF TypeOK, EndInv
    <2> HIDE DEF evs
    <2>2. view'[d] = view[d] \/ (d = DraftOf[e] /\ view'[d] = Reduce(Base(e), evs))
      <3>1. view' = [view EXCEPT ![DraftOf[e]] = Reduce(Base(e), evs)]
        BY <1>5 DEF Reconcile, evs
      <3> DEFINE shown == Reduce(Base(e), evs)
      <3>2. view' = [view EXCEPT ![DraftOf[e]] = shown]
        BY <3>1
      <3> HIDE DEF shown
      <3>3. view'[d] = view[d] \/ (d = DraftOf[e] /\ view'[d] = shown)
        BY <3>2 DEF TypeOK
      <3> QED
        BY <3>3 DEF shown
    <2>3. CASE d = DraftOf[e] /\ Shows(d, e) /\ view'[d] = Reduce(Base(e), evs)
      <3>1. Base(e) = view[d]
        BY <2>3 DEF Base
      <3> QED
        BY <1>1, <2>1, <2>3, <3>1, ReduceEnd
    <2>4. CASE d = DraftOf[e] /\ ~Shows(d, e) /\ view'[d] = Reduce(Base(e), evs)
      <3>1. Base(e) = Queued(e) /\ view[d].execution # e
        BY <2>4 DEF Base, Shows
      <3>2. view'[d].execution = e
        BY <2>1, <2>4, <3>1, QueuedLemma, ReduceLemma
      <3> QED
        BY <3>1, <3>2
    <2> QED
      BY <2>2, <2>3, <2>4
  <1>6. ASSUME NEW e \in Executions, Reject(e)
        PROVE  view'[d].phase = view[d].phase
    <2>1. view'[d] = view[d] \/ (view[d].execution = e /\ view'[d] = [view[d] EXCEPT !.phase = "failed"])
      <3>1. view' = view \/ /\ Shows(DraftOf[e], e)
                            /\ view' = [view EXCEPT ![DraftOf[e]].phase = "failed"]
        BY <1>6 DEF Reject
      <3>2. view \in [Drafts -> States \union {None}] /\ DraftOf[e] \in Drafts
        BY DraftOfAssumption DEF TypeOK
      <3>3. CASE d = DraftOf[e]
        BY <3>1, <3>2, <3>3 DEF Shows
      <3>4. CASE d # DraftOf[e]
        BY <3>1, <3>2, <3>4
      <3> QED
        BY <3>3, <3>4
    <2>2. CASE view[d].execution = e /\ view'[d] = [view[d] EXCEPT !.phase = "failed"]
      <3>1. view'[d].phase = "failed"
        BY <1>1, <2>2 DEF States
      <3>2. view[d].phase = "failed"
        BY <1>1, <1>6, <2>2 DEF EndOf, Reject
      <3> QED
        BY <3>1, <3>2
    <2> QED
      BY <2>1, <2>2
  <1>7. ASSUME NEW f \in Drafts, ClickCancel(f) \/ HandleCancel(f) \/ CancelReturns(f)
        PROVE  FALSE
    BY <1>7 DEF ClickCancel, HandleCancel, CancelReturns, EndInv
  <1> QED
    BY <1>2, <1>3, <1>4, <1>5, <1>6, <1>7
       DEF Next, Execute, StartBegins, StartReturns, StartFails, RecordEvent, Sink, Unlisten,
           Listen, vars, viewVars

\* Unless its user cancels, a tab that shows the end of an execution goes on showing
\* it until another execution takes its place: late events, results of starts that
\* overlap and a change of the workspace do not touch it.
THEOREM EndStays ==
  ASSUME "cancel" \notin Habits
  PROVE  Spec => EndIsFinal
  <1>1. TypeOK /\ EndInv /\ [Next]_vars =>
          [\A d \in Drafts :
             view[d] # None /\ view[d].phase # "running" =>
               \/ view'[d].phase = view[d].phase
               \/ view'[d].execution # view[d].execution]_vars
    BY FinalStep
  <1>2. TypeOK /\ EndInv /\ [Next]_vars => EndInv'
    BY EndStep, TypeStep
  <1> QED
    BY <1>1, <1>2, TypeInit, TypeStep, EndInit, PTL DEF Spec, EndIsFinal

-----------------------------------------------------------------------------
(* The end is shown when everything has arrived *)

\* An event of an execution between the coordinator and the listener.
OnTheWay(e, event) ==
  /\ event.execution = e
  /\ event \in recorded \/ \E i \in 1..Len(events) : events[i] = event

\* The start of an execution has been sent and its result not been seen.
Starting(e) == stage[e] = "sent" \/ starting = e \/ e \in replies
Waits(e) == stage[e] = "persisting" \/ Starting(e)

\* A tab waits for one start at a time, and shows that one.
OneStart ==
  /\ listening
  /\ \A e \in Executions : Starting(e) => Shows(DraftOf[e], e)
  /\ \A e, f \in Executions : DraftOf[e] = DraftOf[f] /\ Waits(e) /\ Waits(f) => e = f

\* What is shown of an execution that ended or was refused is its end, or that is
\* on its way.
EndComes(v) ==
  LET e == v.execution IN
    /\ stage[e] = "ended" /\ v.last = count[e] =>
         \E kind \in kinds[e] \intersect TerminalKinds : v.phase = PhaseOf[kind]
    /\ stage[e] = "ended" /\ v.last # count[e] =>
         \E event \in Event : OnTheWay(e, event) /\ event.kind \in TerminalKinds
    /\ stage[e] = "refused" => v.phase = "failed" \/ e \in replies

EndComesInv == \A d \in Drafts : view[d] # None => EndComes(view[d])

LEMMA EndComesInit == Init => OneStart /\ EndComesInv
  BY DEF Init, OneStart, Starting, Waits, EndComesInv

LEMMA OneStartStep ==
  ASSUME Habits = {}, TypeOK, TypeOK', EndInv, OneStart, [Next]_vars
  PROVE  OneStart'
  <1>1. ASSUME UNCHANGED listening,
               \A e \in Executions : Waits(e)' => Waits(e),
               \A e \in Executions : Starting(e)' => Starting(e),
               \A e \in Executions : Shows(DraftOf[e], e) => Shows(DraftOf[e], e)'
        PROVE  OneStart'
    BY <1>1 DEF OneStart
  <1>2. ASSUME UNCHANGED <<listening, stage, starting>>, replies' \subseteq replies,
               \A d \in Drafts : view[d] # None =>
                 view'[d] # None /\ view'[d].execution = view[d].execution
        PROVE  OneStart'
    <2>1. \A e \in Executions : (Waits(e)' => Waits(e)) /\ (Starting(e)' => Starting(e))
      BY <1>2 DEF Waits, Starting
    <2>2. \A e \in Executions : Shows(DraftOf[e], e) => Shows(DraftOf[e], e)'
      BY <1>2 DEF Shows
    <2> QED
      BY <1>1, <1>2, <2>1, <2>2
  <1>3. ASSUME NEW e \in Executions, Execute(e)
        PROVE  OneStart'
    <2>1. /\ Outstanding(DraftOf[e]) = {}
          /\ \A f \in Executions : stage'[f] = IF f = e THEN "persisting" ELSE stage[f]
          /\ stage[e] = "new"
          /\ UNCHANGED <<starting, replies, listening, view>>
      BY <1>3 DEF Execute, viewVars, TypeOK
    <2>2. \A f \in Executions : DraftOf[f] = DraftOf[e] => ~ Waits(f)
      BY <2>1 DEF Outstanding, Waits, Starting
    <2>3. \A f \in Executions : Starting(f)' => Starting(f)
      BY <2>1 DEF Starting
    <2>4. \A f \in Executions : Waits(f)' => Waits(f) \/ f = e
      BY <2>1 DEF Waits, Starting
    <2>5. \A f \in Executions : Shows(DraftOf[f], f)' <=> Shows(DraftOf[f], f)
      BY <2>1 DEF Shows
    <2> QED
      BY <2>1, <2>2, <2>3, <2>4, <2>5 DEF OneStart
  <1>4. ASSUME NEW e \in Executions, Send(e)
        PROVE  OneStart'
    <2>1. /\ stage[e] = "persisting"
          /\ \A f \in Executions : stage'[f] = IF f = e THEN "sent" ELSE stage[f]
          /\ view' = [view EXCEPT ![DraftOf[e]] = Queued(e)]
          /\ UNCHANGED <<starting, replies, listening>>
      BY <1>4 DEF Send, TypeOK
    <2>2. \A f \in Executions : Waits(f)' => Waits(f)
      BY <2>1 DEF Waits, Starting
    <2>3. \A f \in Executions : Starting(f)' => f = e \/ Starting(f)
      BY <2>1 DEF Starting
    <2>4. \A f \in Executions : Starting(f) /\ f # e => DraftOf[f] # DraftOf[e]
      BY <2>1 DEF OneStart, Waits
    <2>5. Shows(DraftOf[e], e)'
      <3>1. view'[DraftOf[e]] = Queued(e)
        BY <2>1 DEF TypeOK
      <3>2. Queued(e) # None
        BY QueuedLemma
      <3> QED
        BY <3>1, <3>2, QueuedLemma DEF Shows
    <2>6. \A f \in Executions : Starting(f) /\ f # e => Shows(DraftOf[f], f)'
      <3>1. \A d \in Drafts : d # DraftOf[e] => view'[d] = view[d]
        BY <2>1 DEF TypeOK
      <3> QED
        BY <2>4, <3>1 DEF OneStart, Shows
    <2> QED
      BY <2>1, <2>2, <2>3, <2>5, <2>6 DEF OneStart
  <1>5. ASSUME NEW e \in Executions, StartBegins(e) \/ StartReturns(e) \/ StartFails(e)
        PROVE  OneStart'
    <2>1. UNCHANGED <<view, listening>>
      BY <1>5 DEF StartBegins, StartReturns, StartFails, viewVars
    <2>2. \A f \in Executions : Starting(f)' => Starting(f)
      BY <1>5 DEF StartBegins, StartReturns, StartFails, Starting, TypeOK
    <2>3. \A f \in Executions : Waits(f)' => Waits(f)
      BY <1>5 DEF StartBegins, StartReturns, StartFails, Starting, Waits, TypeOK
    <2> QED
      BY <1>1, <2>1, <2>2, <2>3 DEF Shows
  <1>6. ASSUME NEW e \in Executions, NEW kind \in Kinds, RecordEvent(e, kind)
        PROVE  OneStart'
    <2>1. UNCHANGED <<view, listening, starting, replies>>
      BY <1>6 DEF RecordEvent, viewVars
    <2>2. \A f \in Executions :
            stage'[f] = stage[f] \/ stage'[f] = "ended"
      BY <1>6 DEF RecordEvent, TypeOK
    <2>3. \A f \in Executions : (Starting(f)' => Starting(f)) /\ (Waits(f)' => Waits(f))
      BY <2>1, <2>2 DEF Starting, Waits
    <2> QED
      BY <1>1, <2>1, <2>3 DEF Shows
  <1>7. ASSUME NEW event \in recorded, Sink(event)
        PROVE  OneStart'
    BY <1>2, <1>7 DEF Sink, viewVars
  <1>8. CASE Deliver
    <2>1. Head(events) \in Event
      BY <1>8 DEF Deliver, TypeOK
    <2>2. \A d \in Drafts : view[d] # None =>
            view'[d] = view[d] \/ view'[d] = Reduce(view[d], {Head(events)})
      BY <1>8 DEF Deliver
    <2>3. \A d \in Drafts : view[d] # None =>
            /\ Reduce(view[d], {Head(events)}).execution = view[d].execution
            /\ Reduce(view[d], {Head(events)}) \in States
      <3>1. \A d \in Drafts : view[d] # None => view[d] \in States
        BY DEF TypeOK
      <3> QED
        BY <2>1, <3>1, ReduceLemma
    <2> QED
      BY <1>2, <1>8, <2>2, <2>3 DEF Deliver, startVars
  <1>9. CASE Unlisten \/ Listen
    BY <1>9 DEF Unlisten, Listen, OneStart
  <1>10. ASSUME NEW e \in Executions, Reconcile(e)
         PROVE  OneStart'
    <2> DEFINE evs == initial[e] \union {event \in buffered : event.execution = e}
               new == Reduce(Base(e), evs)
    <2>1. Shows(DraftOf[e], e) /\ Base(e) = view[DraftOf[e]]
      BY <1>10 DEF Reconcile, OneStart, Starting, Base
    <2>2. evs \in SUBSET Event /\ Base(e) \in States
      BY <2>1 DEF Shows, TypeOK
    <2>3. new \in States /\ new.execution = e
      BY <2>1, <2>2, ReduceLemma DEF Shows
    <2>4. /\ view' = [view EXCEPT ![DraftOf[e]] = new]
          /\ replies' \subseteq replies /\ UNCHANGED <<stage, starting, listening>>
      BY <1>10 DEF Reconcile
    <2>5. new # None
      BY <2>3
    <2> HIDE DEF new
    <2>6. \A d \in Drafts : view[d] # None =>
            view'[d] # None /\ view'[d].execution = view[d].execution
      BY <2>1, <2>3, <2>4, <2>5 DEF TypeOK, Shows
    <2> QED
      BY <1>2, <2>4, <2>6
  <1>11. ASSUME NEW e \in Executions, Reject(e)
         PROVE  OneStart'
    <2> DEFINE new == [view[DraftOf[e]] EXCEPT !.phase = "failed"]
    <2>1. Shows(DraftOf[e], e) /\ view[DraftOf[e]] \in States
      BY <1>11 DEF Reject, OneStart, Starting, Shows, TypeOK
    <2>2. /\ view' = [view EXCEPT ![DraftOf[e]] = new]
          /\ replies' \subseteq replies /\ UNCHANGED <<stage, starting, listening>>
      BY <1>11, <2>1 DEF Reject
    <2>3. new.execution = e
      BY <2>1 DEF Shows, States
    <2>4. new # None
      <3>1. new \in States
        BY <2>1 DEF States, Phases
      <3> QED
        BY <3>1
    <2> HIDE DEF new
    <2>5. \A d \in Drafts : view[d] # None =>
            view'[d] # None /\ view'[d].execution = view[d].execution
      BY <2>1, <2>2, <2>3, <2>4 DEF TypeOK, Shows
    <2> QED
      BY <1>2, <2>2, <2>5
  <1>12. ASSUME NEW d \in Drafts, ClickCancel(d) \/ HandleCancel(d) \/ CancelReturns(d)
         PROVE  OneStart'
    BY <1>12 DEF ClickCancel, HandleCancel, CancelReturns, EndInv
  <1>13. CASE UNCHANGED vars
    BY <1>2, <1>13 DEF vars, startVars, viewVars
  <1> QED
    BY <1>3, <1>4, <1>5, <1>6, <1>7, <1>8, <1>9, <1>10, <1>11, <1>12, <1>13 DEF Next

\* Reducing events shows the end if the last number is reached.
LEMMA ReduceReaches ==
  ASSUME TypeOK, NEW v \in States, EndOf(v), EndComes(v),
         NEW evs \in SUBSET Event, Genuine(evs), \A event \in evs : Fits(event)
  PROVE  LET r == Reduce(v, evs)
             e == v.execution
         IN  stage[e] = "ended" /\ r.last = count[e] =>
               \E kind \in kinds[e] \intersect TerminalKinds : r.phase = PhaseOf[kind]
  <1> DEFINE r == Reduce(v, evs)
             e == v.execution
  <1>1. /\ r \in States /\ e \in Executions /\ count[e] \in Nat
        /\ v.last \in Nat /\ r.last \in Nat /\ v.last <= count[e]
    BY ReduceLemma DEF States, TypeOK, EndOf
  <1>2. \A event \in News(v, evs) :
          /\ event \in evs /\ event.execution = e /\ event.sequence \in Nat
          /\ event.sequence > v.last /\ Fits(event) /\ event.kind \in kinds[e]
    BY DEF News, IsNews, Event, Genuine
  <1>3. /\ \/ News(v, evs) = {} /\ r.last = v.last
           \/ \E event \in News(v, evs) : r.last = event.sequence
        /\ \A event \in News(v, evs) : event.sequence <= r.last
        /\ \/ r.phase = v.phase /\ \A event \in News(v, evs) : ~Sets(event)
           \/ \E event \in News(v, evs) :
                /\ Sets(event) /\ r.phase = PhaseOf[event.kind]
                /\ \A other \in News(v, evs) : Sets(other) => other.sequence <= event.sequence
    BY ReduceNews
  <1> HIDE DEF r
  <1>4. SUFFICES ASSUME stage[e] = "ended", r.last = count[e]
                 PROVE  \E kind \in kinds[e] \intersect TerminalKinds : r.phase = PhaseOf[kind]
    BY DEF r
  <1>5. CASE News(v, evs) = {}
    <2>1. r.last = v.last /\ r.phase = v.phase
      BY <1>3, <1>5
    <2> QED
      BY <1>4, <2>1 DEF EndComes
  <1>6. CASE News(v, evs) # {}
    <2>1. PICK last \in News(v, evs) : last.sequence = count[e]
      BY <1>3, <1>4, <1>6
    <2>2. last.kind \in TerminalKinds
      BY <1>2, <1>4, <2>1 DEF Fits
    <2>3. Sets(last)
      BY <2>2 DEF Sets, PhaseOf, TerminalKinds
    <2>4. PICK event \in News(v, evs) :
            /\ Sets(event) /\ r.phase = PhaseOf[event.kind]
            /\ \A other \in News(v, evs) : Sets(other) => other.sequence <= event.sequence
      BY <1>3, <2>3
    <2>5. event.sequence = count[e]
      BY <1>1, <1>2, <1>3, <1>4, <2>1, <2>3, <2>4
    <2>6. event.kind \in TerminalKinds
      BY <1>2, <1>4, <2>5 DEF Fits
    <2> QED
      BY <1>2, <2>4, <2>6
  <1> QED
    BY <1>5, <1>6

\* The sink moves an event forwards, and a delivery leaves all others where they are.
LEMMA SinkForwards ==
  ASSUME NEW event \in Event, events \in Seq(Event),
         recorded' = recorded \ {event}, events' = Append(events, event),
         NEW f \in Executions, NEW other \in Event, OnTheWay(f, other)
  PROVE  OnTheWay(f, other)'
  <1>1. CASE other = event
    <2>1. Len(events') = Len(events) + 1 /\ events'[Len(events) + 1] = event /\ Len(events) \in Nat
      OBVIOUS
    <2>2. Len(events) + 1 \in 1..Len(events')
      BY <2>1
    <2> QED
      BY <1>1, <2>1, <2>2 DEF OnTheWay
  <1>2. CASE other # event /\ other \in recorded
    BY <1>2 DEF OnTheWay
  <1>3. CASE \E i \in 1..Len(events) : events[i] = other
    <2>1. PICK i \in 1..Len(events) : events[i] = other
      BY <1>3
    <2>2. i \in 1..Len(events') /\ events'[i] = other
      BY <2>1
    <2> QED
      BY <2>2 DEF OnTheWay
  <1> QED
    BY <1>1, <1>2, <1>3 DEF OnTheWay

LEMMA DeliverLeaves ==
  ASSUME events \in Seq(Event), events # <<>>, events' = Tail(events), UNCHANGED recorded,
         NEW f \in Executions, NEW other \in Event, OnTheWay(f, other), other # Head(events)
  PROVE  OnTheWay(f, other)'
  <1>1. CASE other \in recorded
    BY <1>1 DEF OnTheWay
  <1>2. CASE \E i \in 1..Len(events) : events[i] = other
    <2>1. PICK i \in 1..Len(events) : events[i] = other
      BY <1>2
    <2>2. i - 1 \in 1..Len(events') /\ events'[i - 1] = other
      BY <2>1
    <2> QED
      BY <2>2 DEF OnTheWay
  <1> QED
    BY <1>1, <1>2 DEF OnTheWay

LEMMA EndComesStep ==
  ASSUME Habits = {}, TypeOK, TypeOK', EndInv, HonestInv, OneStart, EndComesInv, [Next]_vars
  PROVE  EndComesInv'
  <1>0. \A d \in Drafts : view[d] # None =>
          /\ view[d] \in States /\ view[d].execution \in Executions
          /\ EndOf(view[d]) /\ EndComes(view[d]) /\ DraftOf[view[d].execution] = d
    BY DEF TypeOK, EndInv, EndComesInv, HonestInv, States
  \* Steps that leave the view alone.
  <1>1. ASSUME UNCHANGED view,
               \A d \in Drafts : view[d] # None => EndComes(view[d])'
        PROVE  EndComesInv'
    BY <1>1 DEF EndComesInv
  <1>2. ASSUME UNCHANGED <<view, count, kinds, recorded, events>>, replies \subseteq replies',
               \A e \in Executions :
                 stage'[e] = stage[e] \/ stage'[e] \notin {"ended", "refused"}
        PROVE  EndComesInv'
    <2>1. \A e \in Executions, event \in Event : OnTheWay(e, event) => OnTheWay(e, event)'
      BY <1>2 DEF OnTheWay
    <2>2. ASSUME NEW d \in Drafts, view[d] # None PROVE EndComes(view[d])'
      <3> DEFINE e == view[d].execution
      <3>1. e \in Executions /\ EndComes(view[d])
        BY <1>0, <2>2
      <3>2. stage'[e] = stage[e] \/ stage'[e] \notin {"ended", "refused"}
        BY <1>2, <3>1
      <3> QED
        BY <1>2, <2>1, <3>1, <3>2 DEF EndComes
    <2> QED
      BY <1>1, <1>2, <2>2
  <1>3. ASSUME NEW e \in Executions, Execute(e) \/ StartBegins(e) \/ StartReturns(e)
        PROVE  EndComesInv'
    <2>1. UNCHANGED <<view, count, kinds, recorded, events>> /\ replies \subseteq replies'
      BY <1>3 DEF Execute, StartBegins, StartReturns, coordinatorVars, viewVars
    <2>2. \A f \in Executions :
            stage'[f] = stage[f] \/ stage'[f] \notin {"ended", "refused"}
      BY <1>3 DEF Execute, StartBegins, StartReturns, TypeOK
    <2> QED
      BY <1>2, <2>1, <2>2
  <1>4. ASSUME NEW e \in Executions, Send(e)
        PROVE  EndComesInv'
    <2>1. /\ \A f \in Executions : stage'[f] = IF f = e THEN "sent" ELSE stage[f]
          /\ view' = [view EXCEPT ![DraftOf[e]] = Queued(e)]
          /\ UNCHANGED <<count, kinds, recorded, events, replies>>
      BY <1>4 DEF Send, coordinatorVars, TypeOK
    <2>2. ASSUME NEW d \in Drafts, view'[d] # None PROVE EndComes(view[d])'
      <3>1. CASE view'[d] = Queued(e)
        BY <2>1, <3>1, QueuedLemma DEF EndComes
      <3>2. CASE view'[d] = view[d]
        <4>1. view[d].execution \in Executions /\ EndComes(view[d])
          BY <1>0, <2>2, <3>2
        <4>2. \A f \in Executions, event \in Event : OnTheWay(f, event) => OnTheWay(f, event)'
          BY <2>1 DEF OnTheWay
        <4> QED
          BY <2>1, <3>2, <4>1, <4>2 DEF EndComes
      <3> QED
        BY <2>1, <3>1, <3>2 DEF TypeOK
    <2> QED
      BY <2>2 DEF EndComesInv
  <1>5. ASSUME NEW e \in Executions, StartFails(e)
        PROVE  EndComesInv'
    <2>1. /\ \A f \in Executions : stage'[f] = IF f = e THEN "refused" ELSE stage[f]
          /\ replies' = replies \union {e}
          /\ UNCHANGED <<view, count, kinds, recorded, events>>
      BY <1>5 DEF StartFails, coordinatorVars, viewVars, TypeOK
    <2>2. \A f \in Executions, event \in Event : OnTheWay(f, event) => OnTheWay(f, event)'
      BY <2>1 DEF OnTheWay
    <2>3. ASSUME NEW d \in Drafts, view[d] # None PROVE EndComes(view[d])'
      <3>1. view[d].execution \in Executions /\ EndComes(view[d])
        BY <1>0, <2>3
      <3> QED
        BY <2>1, <2>2, <3>1 DEF EndComes
    <2> QED
      BY <1>1, <2>1, <2>3
  <1>6. ASSUME NEW e \in Executions, NEW kind \in Kinds, RecordEvent(e, kind)
        PROVE  EndComesInv'
    <2> PICK new : new = [execution |-> e, sequence |-> count[e] + 1, kind |-> kind]
      OBVIOUS
    <2>1. /\ stage[e] = "live" /\ count[e] \in Nat /\ count[e] + 1 \in 1..MaxEvents
          /\ stage'[e] = IF kind \in TerminalKinds THEN "ended" ELSE "live"
          /\ count'[e] = count[e] + 1
          /\ \A f \in Executions \ {e} :
               stage'[f] = stage[f] /\ count'[f] = count[f] /\ kinds'[f] = kinds[f]
          /\ recorded' = recorded \union {new}
          /\ UNCHANGED <<view, events, replies>>
      BY <1>6 DEF RecordEvent, viewVars, TypeOK
    <2>2. new \in Event /\ new.execution = e /\ new.kind = kind
      BY <2>1 DEF Event
    <2>3. \A f \in Executions, event \in Event : OnTheWay(f, event) => OnTheWay(f, event)'
      BY <2>1 DEF OnTheWay
    <2>4. OnTheWay(e, new)'
      BY <2>1, <2>2 DEF OnTheWay
    <2>5. ASSUME NEW d \in Drafts, view[d] # None PROVE EndComes(view[d])'
      <3>1. /\ view[d].execution \in Executions /\ EndComes(view[d])
            /\ view[d].last <= count[view[d].execution] /\ view[d].last \in Nat
        BY <1>0, <2>5 DEF EndOf, States
      <3>2. CASE view[d].execution # e
        BY <2>1, <2>3, <3>1, <3>2 DEF EndComes
      <3>3. CASE view[d].execution = e /\ kind \in TerminalKinds
        <4>1. stage'[e] = "ended" /\ view[d].last # count'[e]
          BY <2>1, <3>1, <3>3
        <4> QED
          BY <2>1, <2>2, <2>4, <3>3, <4>1 DEF EndComes, OnTheWay
      <3>4. CASE view[d].execution = e /\ kind \notin TerminalKinds
        BY <2>1, <3>4 DEF EndComes
      <3> QED
        BY <3>2, <3>3, <3>4
    <2> QED
      BY <1>1, <2>1, <2>5
  <1>7. ASSUME NEW event \in recorded, Sink(event)
        PROVE  EndComesInv'
    <2>1. /\ recorded' = recorded \ {event}
          /\ events' = Append(events, event)
          /\ UNCHANGED <<stage, view, count, kinds, replies>>
      BY <1>7 DEF Sink, OneStart, coordinatorVars, viewVars
    <2>2. events \in Seq(Event) /\ event \in Event
      BY DEF TypeOK
    <2>3. ASSUME NEW f \in Executions, NEW other \in Event, OnTheWay(f, other)
          PROVE  OnTheWay(f, other)'
      BY <2>1, <2>2, <2>3, SinkForwards
    <2>4. ASSUME NEW d \in Drafts, view[d] # None PROVE EndComes(view[d])'
      <3>1. view[d].execution \in Executions /\ EndComes(view[d])
        BY <1>0, <2>4
      <3> QED
        BY <2>1, <2>3, <3>1 DEF EndComes
    <2> QED
      BY <1>1, <2>1, <2>4
  <1>8. CASE Deliver
    <2> DEFINE event == Head(events)
    <2>1. /\ events # <<>> /\ events' = Tail(events)
          /\ UNCHANGED <<stage, recorded, count, kinds, replies>>
          /\ \/ /\ UNCHANGED view
                /\ \A d \in Drafts : ~ Shows(d, event.execution)
             \/ view' = [d \in Drafts |->
                  IF Shows(d, event.execution) THEN Reduce(view[d], {event}) ELSE view[d]]
      BY <1>8 DEF Deliver, startVars, coordinatorVars
    <2>new. \A d \in Drafts :
            /\ ~ Shows(d, event.execution) => view'[d] = view[d]
            /\ Shows(d, event.execution) => view'[d] = Reduce(view[d], {event})
      BY <2>1
    <2>2. events \in Seq(Event)
      BY DEF TypeOK
    <2>3. event \in Event /\ Fits(event) /\ event.kind \in kinds[event.execution]
      <3>1. event = events[1] /\ 1 \in 1..Len(events) /\ event \in Event
        BY <2>1, <2>2
      <3> QED
        BY <3>1 DEF EndInv, HonestInv
    <2>4. ASSUME NEW f \in Executions, NEW other \in Event, OnTheWay(f, other), other # event
          PROVE  OnTheWay(f, other)'
      BY <2>1, <2>2, <2>4, DeliverLeaves
    <2> HIDE DEF event
    <2>5. ASSUME NEW d \in Drafts, view'[d] # None PROVE EndComes(view[d])'
      <3>0. view[d] # None
        BY <2>new, <2>5 DEF Shows
      <3> PICK e \in Executions : e = view[d].execution
        BY <1>0, <3>0
      <3>1. view[d] \in States /\ EndOf(view[d]) /\ EndComes(view[d])
        BY <1>0, <3>0
      <3>2. CASE e # event.execution
        <4>1. view'[d] = view[d]
          BY <2>new, <3>2 DEF Shows
        <4>2. \A other \in Event : OnTheWay(e, other) => OnTheWay(e, other)'
          BY <2>4, <3>2 DEF OnTheWay
        <4> QED
          BY <2>1, <3>1, <4>1, <4>2 DEF EndComes
      <3>3. CASE e = event.execution
        <4> DEFINE r == Reduce(view[d], {event})
        <4>1. view'[d] = r
          BY <2>new, <3>0, <3>3 DEF Shows
        <4>2. r \in States /\ r.execution = e
          BY <2>3, <3>1, ReduceLemma
        <4>3. Genuine({event}) /\ \A other \in {event} : Fits(other)
          BY <2>3 DEF Genuine
        <4>4. stage[e] = "ended" /\ r.last = count[e] =>
                 \E kind \in kinds[e] \intersect TerminalKinds : r.phase = PhaseOf[kind]
          BY <2>3, <3>1, <4>3, ReduceReaches
        <4>5. stage[e] = "ended" /\ r.last # count[e] =>
                 \E other \in Event : OnTheWay(e, other)' /\ other.kind \in TerminalKinds
          <5>1. SUFFICES ASSUME stage[e] = "ended", r.last # count[e]
                         PROVE  \E other \in Event : OnTheWay(e, other)' /\ other.kind \in TerminalKinds
            OBVIOUS
          <5>2. EndOf(r) /\ \A other \in News(view[d], {event}) : other.sequence <= r.last
            BY <2>3, <3>1, <4>3, ReduceEnd, ReduceNews
          <5>3. r.last \in Nat /\ count[e] \in Nat /\ r.last < count[e] /\ view[d].last \in Nat
            BY <3>1, <4>2, <5>1, <5>2 DEF EndOf, States, TypeOK
          <5>4. event.kind \notin TerminalKinds
            <6>1. SUFFICES ASSUME event.kind \in TerminalKinds PROVE FALSE
              OBVIOUS
            <6>2. event.sequence = count[e]
              BY <2>3, <3>3, <6>1 DEF Fits
            <6>3. event \notin News(view[d], {event})
              <7>1. SUFFICES ASSUME event.sequence <= r.last PROVE FALSE
                BY <5>2
              <7> QED
                BY ONLY <5>3, <6>2, <7>1
            <6>4. ~ (count[e] > view[d].last)
              BY <3>3, <6>2, <6>3 DEF News, IsNews
            <6>5. view[d].last = count[e] /\ News(view[d], {event}) = {}
              BY <3>1, <5>3, <6>3, <6>4 DEF EndOf, News
            <6>6. r.last = view[d].last
              BY <2>3, <3>1, <6>5, ReduceNews
            <6> QED
              BY <5>1, <6>5, <6>6
          <5>5. view[d].last # count[e]
            <6>1. view[d].last <= r.last
              BY <2>3, <3>1, <5>3, ReduceNews DEF News, IsNews, Event
            <6> QED
              BY <5>3, <6>1
          <5>6. PICK other \in Event : OnTheWay(e, other) /\ other.kind \in TerminalKinds
            BY <3>1, <5>1, <5>5 DEF EndComes
          <5>7. OnTheWay(e, other)'
            BY <2>4, <3>1, <5>4, <5>6
          <5> QED
            BY <5>6, <5>7
        <4>6. stage[e] = "refused" => r.phase = "failed" \/ e \in replies
          <5>1. stage[e] = "refused" => FALSE
            BY <2>3, <3>3 DEF Fits
          <5> QED
            BY <5>1
        <4> HIDE DEF r
        <4> QED
          BY <2>1, <4>1, <4>2, <4>4, <4>5, <4>6 DEF EndComes
      <3> QED
        BY <3>2, <3>3
    <2> QED
      BY <2>5 DEF EndComesInv
  <1>9. CASE Unlisten \/ Listen
    BY <1>9 DEF Unlisten, Listen, OneStart
  <1>10. ASSUME NEW e \in Executions, Reconcile(e)
         PROVE  EndComesInv'
    <2> DEFINE v == view[DraftOf[e]]
               evs == initial[e] \union {event \in buffered : event.execution = e}
               r == Reduce(v, evs)
    <2>1. Shows(DraftOf[e], e) /\ Base(e) = v
      BY <1>10 DEF Reconcile, OneStart, Starting, Base
    <2>2. /\ v \in States /\ v.execution = e /\ EndOf(v) /\ EndComes(v)
      BY <1>0, <2>1 DEF Shows
    <2>3. /\ evs \in SUBSET Event /\ Genuine(evs) /\ \A event \in evs : Fits(event)
      BY DEF TypeOK, HonestInv, Genuine, EndInv
    <2>4. /\ view' = [view EXCEPT ![DraftOf[e]] = r] /\ stage[e] # "refused"
          /\ replies' = replies \ {e}
          /\ UNCHANGED <<stage, count, kinds, recorded, events>>
      BY <1>10, <2>1 DEF Reconcile, coordinatorVars
    <2> HIDE DEF evs
    <2>5. r \in States /\ r.execution = e /\ EndOf(r) /\ v.last <= r.last
      <3>1. r \in States /\ r.execution = e /\ EndOf(r)
        BY <2>2, <2>3, ReduceLemma, ReduceEnd
      <3>2. v.last <= r.last
        BY <2>2, <2>3, <3>1, ReduceNews DEF News, IsNews, Event, States
      <3> QED
        BY <3>1, <3>2
    <2>6. stage[e] = "ended" /\ r.last = count[e] =>
             \E kind \in kinds[e] \intersect TerminalKinds : r.phase = PhaseOf[kind]
      BY <2>2, <2>3, ReduceReaches
    <2> HIDE DEF r
    <2>7. stage[e] = "ended" /\ r.last # count[e] =>
             \E event \in Event : OnTheWay(e, event) /\ event.kind \in TerminalKinds
      <3>1. r.last # count[e] => v.last # count[e]
        BY <2>2, <2>5 DEF EndOf, States, TypeOK
      <3> QED
        BY <2>2, <3>1 DEF EndComes
    <2>8. \A f \in Executions, event \in Event : OnTheWay(f, event) => OnTheWay(f, event)'
      BY <2>4 DEF OnTheWay
    <2>9. ASSUME NEW d \in Drafts, view'[d] # None PROVE EndComes(view[d])'
      <3>1. CASE d = DraftOf[e]
        <4>1. view'[d] = r
          BY <2>4, <3>1 DEF TypeOK
        <4> QED
          BY <2>4, <2>5, <2>6, <2>7, <2>8, <4>1 DEF EndComes
      <3>2. CASE d # DraftOf[e]
        <4>1. view'[d] = view[d]
          BY <2>4, <3>2 DEF TypeOK
        <4>2. /\ view[d].execution \in Executions /\ EndComes(view[d])
              /\ view[d].execution # e
          BY <1>0, <2>9, <3>2, <4>1
        <4> QED
          BY <2>4, <2>8, <4>1, <4>2 DEF EndComes
      <3> QED
        BY <3>1, <3>2
    <2> QED
      BY <2>9 DEF EndComesInv
  <1>11. ASSUME NEW e \in Executions, Reject(e)
         PROVE  EndComesInv'
    <2> DEFINE r == [view[DraftOf[e]] EXCEPT !.phase = "failed"]
    <2>1. Shows(DraftOf[e], e) /\ view[DraftOf[e]] \in States
      BY <1>11 DEF Reject, OneStart, Starting, Shows, TypeOK
    <2>2. /\ view' = [view EXCEPT ![DraftOf[e]] = r] /\ stage[e] = "refused"
          /\ replies' = replies \ {e}
          /\ UNCHANGED <<stage, count, kinds, recorded, events>>
      BY <1>11, <2>1 DEF Reject, coordinatorVars
    <2>3. r.execution = e /\ r.phase = "failed"
      BY <2>1 DEF Shows, States
    <2> HIDE DEF r
    <2>4. \A f \in Executions, event \in Event : OnTheWay(f, event) => OnTheWay(f, event)'
      BY <2>2 DEF OnTheWay
    <2>5. ASSUME NEW d \in Drafts, view'[d] # None PROVE EndComes(view[d])'
      <3>1. CASE d = DraftOf[e]
        <4>1. view'[d] = r
          BY <2>2, <3>1 DEF TypeOK
        <4> QED
          BY <2>2, <2>3, <4>1 DEF EndComes
      <3>2. CASE d # DraftOf[e]
        <4>1. view'[d] = view[d]
          BY <2>2, <3>2 DEF TypeOK
        <4>2. /\ view[d].execution \in Executions /\ EndComes(view[d])
              /\ view[d].execution # e
          BY <1>0, <2>5, <3>2, <4>1
        <4> QED
          BY <2>2, <2>4, <4>1, <4>2 DEF EndComes
      <3> QED
        BY <3>1, <3>2
    <2> QED
      BY <2>5 DEF EndComesInv
  <1>12. ASSUME NEW d \in Drafts, ClickCancel(d) \/ HandleCancel(d) \/ CancelReturns(d)
         PROVE  EndComesInv'
    BY <1>12 DEF ClickCancel, HandleCancel, CancelReturns, EndInv
  <1>13. CASE UNCHANGED vars
    BY <1>2, <1>13 DEF vars, startVars, coordinatorVars, viewVars
  <1> QED
    BY <1>3, <1>4, <1>5, <1>6, <1>7, <1>8, <1>9, <1>10, <1>11, <1>12, <1>13 DEF Next

\* When the user waits for a start before the next, never cancels and stays in the
\* workspace, a tab shows the end of its execution as soon as everything about it has
\* arrived, however fast the events were and whatever overtook the start's result.
THEOREM EndIsShown ==
  ASSUME Habits = {}
  PROVE  Spec => []ShowsTheEnd
  <1>0. "cancel" \notin Habits
    OBVIOUS
  <1>1. TypeOK /\ EndInv /\ OneStart /\ EndComesInv => ShowsTheEnd
    <2>1. ASSUME TypeOK, EndComesInv, NEW d \in Drafts, view[d] # None,
                 Settled(view[d].execution)
          PROVE  LET v == view[d] IN
                   /\ stage[v.execution] = "ended" =>
                        \E kind \in kinds[v.execution] \intersect TerminalKinds :
                          v.phase = PhaseOf[kind]
                   /\ stage[v.execution] = "refused" => v.phase = "failed"
      <3>1. EndComes(view[d])
        BY <2>1 DEF EndComesInv
      <3>2. \A event \in Event : ~ OnTheWay(view[d].execution, event)
        BY <2>1 DEF Settled, OnTheWay
      <3> QED
        BY <2>1, <3>1, <3>2 DEF EndComes, Settled
    <2> QED
      BY <2>1 DEF ShowsTheEnd
  <1>2. TypeOK /\ EndInv /\ [Next]_vars => EndInv'
    BY <1>0, EndStep, TypeStep
  <1>3. TypeOK /\ EndInv /\ OneStart /\ [Next]_vars => OneStart'
    BY OneStartStep, TypeStep
  <1>4. TypeOK /\ EndInv /\ HonestInv /\ OneStart /\ EndComesInv /\ [Next]_vars => EndComesInv'
    BY EndComesStep, TypeStep
  <1> QED
    BY <1>1, <1>2, <1>3, <1>4, TypeInit, TypeStep, HonestInit, HonestStep, EndInit,
       EndComesInit, PTL DEF Spec

-----------------------------------------------------------------------------
(* A completed response has headers *)

\* Without uploads the events of an execution are one behind the other.
InLine ==
  /\ \A event \in recorded : event.kind # "UPLOAD"
  /\ \A event, other \in recorded : event.execution = other.execution => event = other
  /\ \A i, j \in 1..Len(events) :
       events[i].execution = events[j].execution /\ i < j =>
         events[i].sequence < events[j].sequence
  /\ \A event \in recorded, i \in 1..Len(events) :
       event.execution = events[i].execution => events[i].sequence < event.sequence

\* The events that the result of a start brings are the first of the execution, and
\* nothing of it is buffered while the result is awaited.
InitialIsFirst ==
  /\ \A e \in Executions :
       /\ \A event \in initial[e] : event.execution = e
       /\ \A event \in initial[e], other \in recorded :
            other.execution = e => event.sequence < other.sequence
       /\ \A i \in 1..Len(events) : events[i].execution = e =>
            /\ starting = e => events[i] \in initial[e]
            /\ e \in replies =>
                 \/ events[i] \in initial[e]
                 \/ \A event \in initial[e] : event.sequence < events[i].sequence
  /\ \A event \in buffered : ~ Starting(event.execution)

\* Headers come before the completion, and after the start.
HeadersFirst ==
  \A e \in Executions :
    /\ "COMPLETED" \in kinds[e] => "HEADERS" \in kinds[e]
    /\ stage[e] \in {"new", "persisting", "sent"} => kinds[e] = {}

\* Headers that are not shown yet are on their way and will be news.
HeadersCome(v) ==
  "HEADERS" \in kinds[v.execution] /\ ~ v.headers =>
    \E event \in Event :
      /\ OnTheWay(v.execution, event)
      /\ event.kind = "HEADERS" /\ event.sequence > v.last

HeadersComeInv == \A d \in Drafts : view[d] # None => HeadersCome(view[d])

LEMMA HeadersInit == Init => InLine /\ InitialIsFirst /\ HeadersFirst /\ HeadersComeInv
  BY DEF Init, InLine, InitialIsFirst, HeadersFirst, HeadersComeInv

LEMMA InLineStep ==
  ASSUME Habits = {}, Uploads = {}, TypeOK, EndInv, OneStart, InLine, [Next]_vars
  PROVE  InLine'
  <1>1. ASSUME UNCHANGED <<recorded, events>>
        PROVE  InLine'
    BY <1>1 DEF InLine
  <1>2. ASSUME NEW e \in Executions,
               \/ Execute(e) \/ Send(e) \/ Reconcile(e) \/ Reject(e)
               \/ StartBegins(e) \/ StartReturns(e) \/ StartFails(e)
        PROVE  InLine'
    BY <1>1, <1>2 DEF Execute, Send, Reconcile, Reject, StartBegins, StartReturns, StartFails
  <1>3. ASSUME NEW e \in Executions, NEW kind \in Kinds, RecordEvent(e, kind)
        PROVE  InLine'
    <2> PICK new : new = [execution |-> e, sequence |-> count[e] + 1, kind |-> kind]
      OBVIOUS
    <2>1. /\ recorded' = recorded \union {new} /\ UNCHANGED events
          /\ count[e] \in Nat /\ new.execution = e /\ new.sequence = count[e] + 1
          /\ new.kind = kind
      BY <1>3 DEF RecordEvent, TypeOK
    <2>2. kind # "UPLOAD"
      BY <1>3 DEF RecordEvent, MayReport
    <2>3. \A event \in recorded : event.execution # e
      BY <1>3, <2>2 DEF RecordEvent, SinkIsFree, InLine
    <2>4. \A i \in 1..Len(events) : events[i].execution = e => events[i].sequence < new.sequence
      <3>1. \A i \in 1..Len(events) : events[i] \in Event /\ Fits(events[i])
        BY DEF TypeOK, EndInv
      <3>2. \A i \in 1..Len(events) : events[i].execution = e =>
              events[i].sequence \in Nat /\ events[i].sequence <= count[e]
        BY <3>1 DEF Fits, Event
      <3> QED
        BY <2>1, <3>2
    <2> QED
      BY <2>1, <2>2, <2>3, <2>4 DEF InLine
  <1>4. ASSUME NEW event \in recorded, Sink(event)
        PROVE  InLine'
    <2>1. recorded' = recorded \ {event} /\ events' = Append(events, event)
      BY <1>4 DEF Sink, OneStart
    <2>2. events \in Seq(Event) /\ event \in Event
      BY DEF TypeOK
    <2>3. \A i \in 1..Len(events') :
            \/ i = Len(events) + 1 /\ events'[i] = event
            \/ i \in 1..Len(events) /\ events'[i] = events[i]
      BY <2>1, <2>2, AppendLemma
    <2>4. Len(events) \in Nat /\ Len(events') = Len(events) + 1
      BY <2>1, <2>2
    <2>5. ASSUME NEW i \in 1..Len(events'), NEW j \in 1..Len(events'),
                 events'[i].execution = events'[j].execution, i < j
          PROVE  events'[i].sequence < events'[j].sequence
      <3>1. i \in 1..Len(events) /\ events'[i] = events[i]
        BY <2>3, <2>4, <2>5
      <3>2. CASE j = Len(events) + 1 /\ events'[j] = event
        BY <2>5, <3>1, <3>2 DEF InLine
      <3>3. CASE j \in 1..Len(events) /\ events'[j] = events[j]
        BY <2>5, <3>1, <3>3 DEF InLine
      <3> QED
        BY <2>3, <3>2, <3>3
    <2>6. ASSUME NEW other \in recorded', NEW i \in 1..Len(events'),
                 other.execution = events'[i].execution
          PROVE  events'[i].sequence < other.sequence
      <3>1. other \in recorded /\ other # event
        BY <2>1
      <3>2. other.execution # event.execution
        BY <3>1 DEF InLine
      <3> QED
        BY <2>3, <2>6, <3>1, <3>2 DEF InLine
    <2> QED
      BY <2>1, <2>5, <2>6 DEF InLine
  <1>5. CASE Deliver
    <2>1. events # <<>> /\ events' = Tail(events) /\ UNCHANGED recorded
      BY <1>5 DEF Deliver
    <2>2. /\ \A i \in 1..Len(events') : i + 1 \in 1..Len(events) /\ events'[i] = events[i + 1]
          /\ Len(events') \in Nat
      BY <2>1, TailLemma DEF TypeOK
    <2>3. ASSUME NEW i \in 1..Len(events'), NEW j \in 1..Len(events'),
                 events'[i].execution = events'[j].execution, i < j
          PROVE  events'[i].sequence < events'[j].sequence
      <3>1. i + 1 < j + 1
        BY <2>2, <2>3
      <3> QED
        BY <2>2, <2>3, <3>1 DEF InLine
    <2> QED
      BY <2>1, <2>2, <2>3 DEF InLine
  <1>6. CASE Unlisten \/ Listen
    BY <1>6 DEF Unlisten, Listen, OneStart
  <1>7. ASSUME NEW d \in Drafts, ClickCancel(d) \/ HandleCancel(d) \/ CancelReturns(d)
        PROVE  InLine'
    BY <1>7 DEF ClickCancel, HandleCancel, CancelReturns, EndInv
  <1>8. CASE UNCHANGED vars
    BY <1>1, <1>8 DEF vars
  <1> QED
    BY <1>2, <1>3, <1>4, <1>5, <1>6, <1>7, <1>8 DEF Next

LEMMA HeadersFirstStep ==
  ASSUME TypeOK, HeadersFirst, [Next]_vars
  PROVE  HeadersFirst'
  <1>1. ASSUME UNCHANGED kinds,
               \A e \in Executions :
                 stage'[e] \in {"new", "persisting", "sent"} =>
                   stage[e] \in {"new", "persisting", "sent"}
        PROVE  HeadersFirst'
    BY <1>1 DEF HeadersFirst
  <1>2. ASSUME NEW e \in Executions,
               \/ Execute(e) \/ Send(e) \/ Reconcile(e) \/ Reject(e)
               \/ StartBegins(e) \/ StartReturns(e) \/ StartFails(e)
        PROVE  HeadersFirst'
    <2>1. UNCHANGED kinds
      BY <1>2 DEF Execute, Send, Reconcile, Reject, StartBegins, StartReturns, StartFails,
                  coordinatorVars
    <2>2. \A f \in Executions :
            stage'[f] \in {"new", "persisting", "sent"} => stage[f] \in {"new", "persisting", "sent"}
      BY <1>2 DEF Execute, Send, Reconcile, Reject, StartBegins, StartReturns, StartFails, TypeOK
    <2> QED
      BY <1>1, <2>1, <2>2
  <1>3. ASSUME NEW e \in Executions, NEW kind \in Kinds, RecordEvent(e, kind)
        PROVE  HeadersFirst'
    <2>1. /\ kinds' = [kinds EXCEPT ![e] = @ \union {kind}]
          /\ stage[e] = "live" /\ stage' \in {stage, [stage EXCEPT ![e] = "ended"]}
          /\ kind = "COMPLETED" => "HEADERS" \in kinds[e]
      BY <1>3 DEF RecordEvent, MayReport
    <2>2. ASSUME NEW f \in Executions
          PROVE  /\ "COMPLETED" \in kinds'[f] => "HEADERS" \in kinds'[f]
                 /\ stage'[f] \in {"new", "persisting", "sent"} => kinds'[f] = {}
      <3>1. CASE f = e
        <4>1. kinds'[f] = kinds[f] \union {kind} /\ stage'[f] \in {"live", "ended"}
          BY <2>1, <3>1 DEF TypeOK
        <4> QED
          BY <2>1, <3>1, <4>1 DEF HeadersFirst
      <3>2. CASE f # e
        <4>1. kinds'[f] = kinds[f] /\ stage'[f] = stage[f]
          BY <2>1, <3>2 DEF TypeOK
        <4> QED
          BY <4>1 DEF HeadersFirst
      <3> QED
        BY <3>1, <3>2
    <2> QED
      BY <2>2 DEF HeadersFirst
  <1>4. ASSUME NEW event \in recorded, Sink(event)
        PROVE  HeadersFirst'
    BY <1>1, <1>4 DEF Sink, coordinatorVars
  <1>5. CASE Deliver \/ Unlisten \/ Listen
    BY <1>1, <1>5 DEF Deliver, Unlisten, Listen, startVars, coordinatorVars
  <1>6. ASSUME NEW d \in Drafts, ClickCancel(d) \/ HandleCancel(d) \/ CancelReturns(d)
        PROVE  HeadersFirst'
    BY <1>1, <1>6 DEF ClickCancel, HandleCancel, CancelReturns, startVars, coordinatorVars
  <1>7. CASE UNCHANGED vars
    BY <1>1, <1>7 DEF vars, startVars, coordinatorVars
  <1> QED
    BY <1>2, <1>3, <1>4, <1>5, <1>6, <1>7 DEF Next

LEMMA InitialIsFirstStep ==
  ASSUME Habits = {}, TypeOK, TypeOK', EndInv, OneStart, InLine, InitialIsFirst, [Next]_vars
  PROVE  InitialIsFirst'
  <1>0. /\ \A i \in 1..Len(events) : events[i] \in Event /\ Fits(events[i])
        /\ \A event \in recorded : event \in Event /\ Fits(event)
        /\ \A event \in buffered : event \in Event /\ Fits(event)
    BY DEF TypeOK, EndInv
  <1>1. ASSUME UNCHANGED <<initial, recorded, events>>, buffered' \subseteq buffered,
               replies' \subseteq replies, starting' \in {starting, None},
               \A e \in Executions : stage'[e] = "sent" => stage[e] = "sent"
        PROVE  InitialIsFirst'
    <2>1. \A event \in buffered : event.execution \in Executions
      BY <1>0 DEF Event
    <2>2. \A event \in buffered' : ~ Starting(event.execution)'
      BY <1>1, <2>1 DEF InitialIsFirst, Starting
    <2> QED
      BY <1>1, <2>2 DEF InitialIsFirst
  <1>2. ASSUME NEW e \in Executions, Execute(e) \/ Reconcile(e) \/ Reject(e)
        PROVE  InitialIsFirst'
    <2>1. /\ UNCHANGED <<initial, recorded, events, starting>> /\ buffered' \subseteq buffered
          /\ replies' \subseteq replies
      BY <1>2 DEF Execute, Reconcile, Reject, viewVars
    <2>2. \A f \in Executions : stage'[f] = "sent" => stage[f] = "sent"
      BY <1>2 DEF Execute, Reconcile, Reject, TypeOK
    <2> QED
      BY <1>1, <2>1, <2>2
  <1>3. ASSUME NEW e \in Executions, Send(e)
        PROVE  InitialIsFirst'
    <2>1. /\ UNCHANGED <<initial, recorded, events, starting, buffered, replies>>
          /\ stage[e] = "persisting"
          /\ \A f \in Executions \ {e} : stage'[f] = stage[f]
      BY <1>3 DEF Send, TypeOK
    <2>2. ASSUME NEW event \in buffered PROVE ~ Starting(event.execution)'
      <3>1. event.execution \in Executions /\ event.execution # e
        BY <1>0, <2>1 DEF Event, Fits
      <3> QED
        BY <2>1, <3>1 DEF InitialIsFirst, Starting
    <2> QED
      BY <2>1, <2>2 DEF InitialIsFirst
  <1>4. ASSUME NEW e \in Executions, StartBegins(e)
        PROVE  InitialIsFirst'
    <2>1. /\ UNCHANGED <<initial, recorded, events, buffered, replies>>
          /\ stage[e] = "sent" /\ starting' = e /\ starting = None
      BY <1>4 DEF StartBegins, viewVars
    <2>2. \A f \in Executions : stage'[f] = "sent" => stage[f] = "sent"
      BY <1>4 DEF StartBegins, TypeOK
    <2>3. \A i \in 1..Len(events) : events[i].execution # e
      BY <1>0, <2>1 DEF Fits
    <2>4. ASSUME NEW event \in buffered PROVE ~ Starting(event.execution)'
      <3>1. event.execution \in Executions /\ event.execution # e
        BY <1>0, <2>1 DEF Event, Fits
      <3> QED
        BY <2>1, <2>2, <3>1 DEF InitialIsFirst, Starting
    <2> QED
      BY <2>1, <2>3, <2>4 DEF InitialIsFirst
  <1>5. ASSUME NEW e \in Executions, StartReturns(e)
        PROVE  InitialIsFirst'
    <2>1. /\ UNCHANGED <<stage, initial, recorded, events, buffered>>
          /\ starting = e /\ starting' = None /\ replies' = replies \union {e}
      BY <1>5 DEF StartReturns, viewVars
    <2>2. \A event \in buffered : ~ Starting(event.execution)'
      <3>1. \A event \in buffered : event.execution \in Executions
        BY <1>0 DEF Event
      <3> QED
        BY <2>1, <3>1 DEF InitialIsFirst, Starting
    <2> QED
      BY <2>1, <2>2 DEF InitialIsFirst
  <1>6. ASSUME NEW e \in Executions, StartFails(e)
        PROVE  InitialIsFirst'
    <2>1. /\ UNCHANGED <<starting, initial, recorded, events, buffered>>
          /\ stage[e] = "sent" /\ replies' = replies \union {e}
          /\ \A f \in Executions : stage'[f] = "sent" => stage[f] = "sent"
      BY <1>6 DEF StartFails, viewVars, TypeOK
    <2>2. \A i \in 1..Len(events) : events[i].execution # e
      BY <1>0, <2>1 DEF Fits
    <2>3. ASSUME NEW event \in buffered PROVE ~ Starting(event.execution)'
      <3>1. event.execution \in Executions /\ event.execution # e
        BY <1>0, <2>1 DEF Event, Fits
      <3> QED
        BY <2>1, <3>1 DEF InitialIsFirst, Starting
    <2> QED
      BY <2>1, <2>2, <2>3 DEF InitialIsFirst
  <1>7. ASSUME NEW e \in Executions, NEW kind \in Kinds, RecordEvent(e, kind)
        PROVE  InitialIsFirst'
    <2> PICK new : new = [execution |-> e, sequence |-> count[e] + 1, kind |-> kind]
      OBVIOUS
    <2>1. /\ recorded' = recorded \union {new} /\ count[e] \in Nat
          /\ new.execution = e /\ new.sequence = count[e] + 1
          /\ UNCHANGED <<initial, events, starting, buffered, replies>>
      BY <1>7 DEF RecordEvent, viewVars, TypeOK
    <2>2. \A f \in Executions : stage'[f] = "sent" => stage[f] = "sent"
      BY <1>7 DEF RecordEvent, TypeOK
    <2>3. \A event \in initial[e] : event.sequence < new.sequence
      <3>1. \A event \in initial[e] : event \in Event /\ Fits(event) /\ event.execution = e
        BY DEF TypeOK, EndInv, InitialIsFirst
      <3>2. \A event \in initial[e] : event.sequence \in Nat /\ event.sequence <= count[e]
        BY <3>1 DEF Fits, Event
      <3> QED
        BY <2>1, <3>2
    <2>4. \A event \in buffered : ~ Starting(event.execution)'
      <3>1. \A event \in buffered : event.execution \in Executions
        BY <1>0 DEF Event
      <3> QED
        BY <2>1, <2>2, <3>1 DEF InitialIsFirst, Starting
    <2> QED
      BY <2>1, <2>3, <2>4 DEF InitialIsFirst
  <1>8. ASSUME NEW event \in recorded, Sink(event)
        PROVE  InitialIsFirst'
    <2>1. /\ recorded' = recorded \ {event} /\ events' = Append(events, event)
          /\ initial' = IF starting = event.execution
                        THEN [initial EXCEPT ![event.execution] = @ \union {event}] ELSE initial
          /\ UNCHANGED <<stage, starting, buffered, replies>>
      BY <1>8 DEF Sink, OneStart, viewVars
    <2>2. events \in Seq(Event) /\ event \in Event /\ event.execution \in Executions
      BY <1>0 DEF TypeOK, Event
    <2>3. \A i \in 1..Len(events') :
            \/ events'[i] = event
            \/ i \in 1..Len(events) /\ events'[i] = events[i]
      BY <2>1, <2>2, AppendLemma
    <2>4. \A other \in recorded' : other \in recorded /\ other.execution # event.execution
      BY <2>1 DEF InLine
    <2>5. ASSUME NEW e \in Executions
          PROVE  /\ \A other \in initial'[e] : other.execution = e
                 /\ \A other \in initial'[e], next \in recorded' :
                      next.execution = e => other.sequence < next.sequence
                 /\ \A i \in 1..Len(events') : events'[i].execution = e =>
                      /\ starting' = e => events'[i] \in initial'[e]
                      /\ e \in replies' =>
                           \/ events'[i] \in initial'[e]
                           \/ \A other \in initial'[e] : other.sequence < events'[i].sequence
      <3>1. CASE e = event.execution /\ starting = e
        <4>1. initial'[e] = initial[e] \union {event}
          BY <2>1, <3>1 DEF TypeOK
        <4>2. \A i \in 1..Len(events') : events'[i].execution = e => events'[i] \in initial'[e]
          BY <2>3, <3>1, <4>1 DEF InitialIsFirst
        <4> QED
          BY <2>4, <3>1, <4>1, <4>2 DEF InitialIsFirst
      <3>2. CASE e # event.execution \/ starting # e
        <4>1. initial'[e] = initial[e]
          BY <2>1, <2>2, <3>2 DEF TypeOK
        <4>2. \A i \in 1..Len(events') : events'[i].execution = e =>
                \/ events'[i] = event /\ e = event.execution /\ starting # e
                \/ i \in 1..Len(events) /\ events'[i] = events[i]
          BY <2>3, <3>2
        <4>3. \A other \in initial[e] : event.execution = e => other.sequence < event.sequence
          BY DEF InitialIsFirst
        <4> QED
          BY <2>1, <2>4, <4>1, <4>2, <4>3 DEF InitialIsFirst
      <3> QED
        BY <3>1, <3>2
    <2>6. \A other \in buffered' : ~ Starting(other.execution)'
      BY <2>1 DEF InitialIsFirst, Starting
    <2> QED
      BY <2>5, <2>6 DEF InitialIsFirst
  <1>9. CASE Deliver
    <2> DEFINE event == Head(events)
    <2>1. /\ events # <<>> /\ events' = Tail(events)
          /\ UNCHANGED <<stage, starting, initial, replies, recorded>>
          /\ buffered' = buffered \/ (/\ buffered' = buffered \union {event}
                                      /\ \A d \in Drafts : ~ Shows(d, event.execution))
      BY <1>9 DEF Deliver, startVars
    <2>2. \A i \in 1..Len(events') : i + 1 \in 1..Len(events) /\ events'[i] = events[i + 1]
      BY <2>1, TailLemma DEF TypeOK
    <2>3. event \in Event /\ event.execution \in Executions
      BY <2>1, TailLemma DEF TypeOK, Event
    <2> HIDE DEF event
    <2>4. (\A d \in Drafts : ~ Shows(d, event.execution)) => ~ Starting(event.execution)
      BY <2>3 DEF OneStart
    <2>5. \A other \in buffered' : ~ Starting(other.execution)'
      BY <2>1, <2>4 DEF InitialIsFirst, Starting
    <2> QED
      BY <2>1, <2>2, <2>5 DEF InitialIsFirst
  <1>10. CASE Unlisten \/ Listen
    BY <1>10 DEF Unlisten, Listen, OneStart
  <1>11. ASSUME NEW d \in Drafts, ClickCancel(d) \/ HandleCancel(d) \/ CancelReturns(d)
         PROVE  InitialIsFirst'
    BY <1>11 DEF ClickCancel, HandleCancel, CancelReturns, EndInv
  <1>12. CASE UNCHANGED vars
    BY <1>1, <1>12 DEF vars, startVars, viewVars
  <1> QED
    BY <1>2, <1>3, <1>4, <1>5, <1>6, <1>7, <1>8, <1>9, <1>10, <1>11, <1>12 DEF Next

LEMMA HeadersComeStep ==
  ASSUME Habits = {}, TypeOK, TypeOK', EndInv, HonestInv, OneStart, InLine, InitialIsFirst,
         HeadersFirst, HeadersComeInv, [Next]_vars
  PROVE  HeadersComeInv'
  <1>0. \A d \in Drafts : view[d] # None =>
          /\ view[d] \in States /\ view[d].execution \in Executions
          /\ EndOf(view[d]) /\ HeadersCome(view[d]) /\ DraftOf[view[d].execution] = d
    BY DEF TypeOK, EndInv, HeadersComeInv, HonestInv, States
  <1>1. ASSUME UNCHANGED <<view, kinds>>,
               \A e \in Executions, event \in Event : OnTheWay(e, event) => OnTheWay(e, event)'
        PROVE  HeadersComeInv'
    <2>1. ASSUME NEW d \in Drafts, view[d] # None PROVE HeadersCome(view[d])'
      <3>1. view[d].execution \in Executions /\ HeadersCome(view[d])
        BY <1>0, <2>1
      <3> QED
        BY <1>1, <3>1 DEF HeadersCome
    <2> QED
      BY <1>1, <2>1 DEF HeadersComeInv
  <1>2. ASSUME UNCHANGED <<view, kinds, recorded, events>>
        PROVE  HeadersComeInv'
    <2>1. \A e \in Executions, event \in Event : OnTheWay(e, event) => OnTheWay(e, event)'
      BY <1>2 DEF OnTheWay
    <2> QED
      BY <1>1, <1>2, <2>1
  <1>3. ASSUME NEW e \in Executions,
               Execute(e) \/ StartBegins(e) \/ StartReturns(e) \/ StartFails(e)
        PROVE  HeadersComeInv'
    BY <1>2, <1>3 DEF Execute, StartBegins, StartReturns, StartFails, coordinatorVars, viewVars
  <1>4. ASSUME NEW e \in Executions, NEW v \in States, v.execution = e,
               "HEADERS" \in kinds[e] /\ ~ v.headers =>
                 \E event \in Event :
                   OnTheWay(e, event) /\ event.kind = "HEADERS" /\ event.sequence > v.last,
               view' = [view EXCEPT ![DraftOf[e]] = v],
               UNCHANGED <<kinds, recorded, events>>
        PROVE  HeadersComeInv'
    <2>1. \A f \in Executions, event \in Event : OnTheWay(f, event) => OnTheWay(f, event)'
      BY <1>4 DEF OnTheWay
    <2>2. ASSUME NEW d \in Drafts, view'[d] # None PROVE HeadersCome(view[d])'
      <3>1. CASE d = DraftOf[e]
        <4>1. view'[d] = v
          BY <1>4, <3>1 DEF TypeOK
        <4> QED
          BY <1>4, <2>1, <4>1 DEF HeadersCome
      <3>2. CASE d # DraftOf[e]
        <4>1. view'[d] = view[d]
          BY <1>4, <3>2 DEF TypeOK
        <4>2. view[d].execution \in Executions /\ HeadersCome(view[d])
          BY <1>0, <2>2, <4>1
        <4> QED
          BY <1>4, <2>1, <4>1, <4>2 DEF HeadersCome
      <3> QED
        BY <3>1, <3>2
    <2> QED
      BY <2>2 DEF HeadersComeInv
  <1>5. ASSUME NEW e \in Executions, Send(e)
        PROVE  HeadersComeInv'
    <2>1. kinds[e] = {}
      BY <1>5 DEF Send, HeadersFirst
    <2> QED
      BY <1>4, <1>5, <2>1, QueuedLemma DEF Send, coordinatorVars
  <1>6. ASSUME NEW e \in Executions, Reconcile(e)
        PROVE  HeadersComeInv'
    <2> DEFINE v == view[DraftOf[e]]
               early == {event \in buffered : event.execution = e}
               evs == initial[e] \union early
               r == Reduce(v, evs)
    <2>1. Starting(e) /\ Shows(DraftOf[e], e) /\ Base(e) = v
      BY <1>6 DEF Reconcile, OneStart, Starting, Base
    <2>2. v \in States /\ v.execution = e /\ v.last \in Nat /\ HeadersCome(v)
      BY <1>0, <2>1 DEF Shows, States
    <2>3. early = {}
      BY <2>1 DEF InitialIsFirst
    <2>4. /\ view' = [view EXCEPT ![DraftOf[e]] = r]
          /\ e \in replies /\ UNCHANGED <<kinds, recorded, events>>
      BY <1>6, <2>1 DEF Reconcile, coordinatorVars
    <2>5. evs = initial[e] /\ evs \in SUBSET Event /\ \A event \in evs : event.execution = e
      BY <2>3 DEF TypeOK, InitialIsFirst
    <2> HIDE DEF evs
    <2>6. r \in States /\ r.execution = e
      BY <2>2, <2>5, ReduceLemma
    <2>7. /\ r.headers <=> v.headers \/ \E event \in News(v, evs) : event.kind = "HEADERS"
          /\ \/ News(v, evs) = {} /\ r.last = v.last
             \/ \E event \in News(v, evs) : r.last = event.sequence
      BY <2>2, <2>5, ReduceNews
    <2> HIDE DEF r
    <2>8. ASSUME "HEADERS" \in kinds[e], ~ r.headers
          PROVE  \E event \in Event :
                   OnTheWay(e, event) /\ event.kind = "HEADERS" /\ event.sequence > r.last
      <3>1. ~ v.headers /\ \A event \in News(v, evs) : event.kind # "HEADERS"
        BY <2>7, <2>8
      <3>2. PICK event \in Event :
              OnTheWay(e, event) /\ event.kind = "HEADERS" /\ event.sequence > v.last
        BY <2>2, <2>8, <3>1 DEF HeadersCome
      <3>3. event \notin initial[e]
        BY <2>2, <2>5, <3>1, <3>2 DEF News, IsNews, OnTheWay
      <3>4. \A other \in initial[e] : other.sequence < event.sequence
        <4>1. CASE event \in recorded
          BY <3>2, <4>1 DEF InitialIsFirst, OnTheWay
        <4>2. CASE \E i \in 1..Len(events) : events[i] = event
          BY <2>4, <3>2, <3>3, <4>2 DEF InitialIsFirst, OnTheWay
        <4> QED
          BY <3>2, <4>1, <4>2 DEF OnTheWay
      <3>5. \A other \in News(v, evs) : other \in initial[e]
        BY <2>5 DEF News
      <3>6. event.sequence > r.last
        <4>1. CASE r.last = v.last
          BY <3>2, <4>1
        <4>2. CASE \E other \in News(v, evs) : r.last = other.sequence
          <5>1. PICK other \in Event : other.sequence < event.sequence /\ r.last = other.sequence
            BY <2>5, <3>4, <3>5, <4>2
          <5>2. other.sequence \in Nat /\ event.sequence \in Nat
            BY DEF Event
          <5> QED
            BY <5>1, <5>2
        <4> QED
          BY <2>7, <4>1, <4>2
      <3> QED
        BY <3>2, <3>6
    <2> QED
      BY <1>4, <2>4, <2>6, <2>8
  <1>7. ASSUME NEW e \in Executions, Reject(e)
        PROVE  HeadersComeInv'
    <2> DEFINE v == view[DraftOf[e]]
               r == [v EXCEPT !.phase = "failed"]
    <2>1. Shows(DraftOf[e], e)
      BY <1>7 DEF Reject, OneStart, Starting
    <2>2. v \in States /\ v.execution = e /\ HeadersCome(v)
      BY <1>0, <2>1 DEF Shows
    <2>3. view' = [view EXCEPT ![DraftOf[e]] = r] /\ UNCHANGED <<kinds, recorded, events>>
      BY <1>7, <2>1 DEF Reject, coordinatorVars
    <2>4. r \in States /\ r.execution = e /\ r.headers = v.headers /\ r.last = v.last
      BY <2>2 DEF States, Phases
    <2> HIDE DEF r
    <2> QED
      BY <1>4, <2>2, <2>3, <2>4 DEF HeadersCome
  <1>8. ASSUME NEW e \in Executions, NEW kind \in Kinds, RecordEvent(e, kind)
        PROVE  HeadersComeInv'
    <2> PICK new : new = [execution |-> e, sequence |-> count[e] + 1, kind |-> kind]
      OBVIOUS
    <2>1. /\ recorded' = recorded \union {new}
          /\ count[e] \in Nat /\ count[e] + 1 \in 1..MaxEvents
          /\ kinds'[e] = kinds[e] \union {kind}
          /\ \A f \in Executions \ {e} : kinds'[f] = kinds[f]
          /\ UNCHANGED <<view, events>>
      BY <1>8 DEF RecordEvent, viewVars, TypeOK
    <2>2. /\ new \in Event /\ new.execution = e /\ new.kind = kind
          /\ new.sequence = count[e] + 1
      BY <2>1 DEF Event
    <2>3. \A f \in Executions, event \in Event : OnTheWay(f, event) => OnTheWay(f, event)'
      BY <2>1 DEF OnTheWay
    <2>4. OnTheWay(e, new)'
      BY <2>1, <2>2 DEF OnTheWay
    <2>5. ASSUME NEW d \in Drafts, view[d] # None PROVE HeadersCome(view[d])'
      <3>1. /\ view[d].execution \in Executions /\ HeadersCome(view[d])
            /\ view[d].last <= count[view[d].execution] /\ view[d].last \in Nat
        BY <1>0, <2>5 DEF EndOf, States
      <3>2. CASE view[d].execution = e /\ kind = "HEADERS"
        <4>1. new.sequence > view[d].last
          BY <2>1, <2>2, <3>1, <3>2
        <4> QED
          BY <2>1, <2>2, <2>4, <3>2, <4>1 DEF HeadersCome
      <3>3. CASE view[d].execution = e /\ kind # "HEADERS"
        BY <2>1, <2>3, <3>1, <3>3 DEF HeadersCome
      <3>4. CASE view[d].execution # e
        BY <2>1, <2>3, <3>1, <3>4 DEF HeadersCome
      <3> QED
        BY <3>2, <3>3, <3>4
    <2> QED
      BY <2>1, <2>5 DEF HeadersComeInv
  <1>9. ASSUME NEW event \in recorded, Sink(event)
        PROVE  HeadersComeInv'
    <2>1. /\ recorded' = recorded \ {event} /\ events' = Append(events, event)
          /\ UNCHANGED <<view, kinds>>
      BY <1>9 DEF Sink, OneStart, coordinatorVars, viewVars
    <2>2. events \in Seq(Event) /\ event \in Event
      BY DEF TypeOK
    <2>3. ASSUME NEW f \in Executions, NEW other \in Event, OnTheWay(f, other)
          PROVE  OnTheWay(f, other)'
      BY <2>1, <2>2, <2>3, SinkForwards
    <2> QED
      BY <1>1, <2>1, <2>3
  <1>10. CASE Deliver
    <2> DEFINE event == Head(events)
    <2>1. /\ events # <<>> /\ events' = Tail(events)
          /\ UNCHANGED <<recorded, kinds>>
          /\ \/ /\ UNCHANGED view
                /\ \A d \in Drafts : ~ Shows(d, event.execution)
             \/ view' = [d \in Drafts |->
                  IF Shows(d, event.execution) THEN Reduce(view[d], {event}) ELSE view[d]]
      BY <1>10 DEF Deliver, startVars, coordinatorVars
    <2>2. \A d \in Drafts :
            /\ ~ Shows(d, event.execution) => view'[d] = view[d]
            /\ Shows(d, event.execution) => view'[d] = Reduce(view[d], {event})
      BY <2>1
    <2>3. /\ events \in Seq(Event) /\ event \in Event /\ event = events[1]
          /\ 1 \in 1..Len(events)
      BY <2>1, TailLemma DEF TypeOK
    <2>4. ASSUME NEW f \in Executions, NEW other \in Event, OnTheWay(f, other), other # event
          PROVE  OnTheWay(f, other)'
      BY <2>1, <2>3, <2>4, DeliverLeaves
    <2>5. ASSUME NEW other \in Event, OnTheWay(event.execution, other), other # event
          PROVE  event.sequence < other.sequence
      <3>1. CASE other \in recorded
        BY <2>3, <2>5, <3>1 DEF InLine, OnTheWay
      <3>2. CASE \E i \in 1..Len(events) : events[i] = other
        <4>1. PICK i \in 1..Len(events) : events[i] = other
          BY <3>2
        <4>2. 1 < i
          BY <2>3, <2>5, <4>1
        <4> QED
          BY <2>3, <2>5, <4>1, <4>2 DEF InLine, OnTheWay
      <3> QED
        BY <2>5, <3>1, <3>2 DEF OnTheWay
    <2> HIDE DEF event
    <2>6. ASSUME NEW d \in Drafts, view'[d] # None PROVE HeadersCome(view[d])'
      <3>0. view[d] # None
        BY <2>2, <2>6 DEF Shows
      <3> PICK e \in Executions : e = view[d].execution
        BY <1>0, <3>0
      <3>1. view[d] \in States /\ view[d].last \in Nat /\ HeadersCome(view[d])
        BY <1>0, <3>0 DEF States
      <3>2. CASE e # event.execution
        <4>1. view'[d] = view[d]
          BY <2>2, <3>2 DEF Shows
        <4>2. \A other \in Event : OnTheWay(e, other) => OnTheWay(e, other)'
          BY <2>4, <3>2 DEF OnTheWay
        <4> QED
          BY <2>1, <3>1, <4>1, <4>2 DEF HeadersCome
      <3>3. CASE e = event.execution
        <4> DEFINE r == Reduce(view[d], {event})
        <4>1. view'[d] = r
          BY <2>2, <3>0, <3>3 DEF Shows
        <4>2. r \in States /\ r.execution = e
          BY <2>3, <3>1, ReduceLemma
        <4>3. /\ r.headers <=> \/ view[d].headers
                               \/ \E other \in News(view[d], {event}) : other.kind = "HEADERS"
              /\ \/ News(view[d], {event}) = {} /\ r.last = view[d].last
                 \/ \E other \in News(view[d], {event}) : r.last = other.sequence
          <5>1. {event} \in SUBSET Event
            BY <2>3
          <5> QED
            BY <3>1, <5>1, ReduceNews
        <4> HIDE DEF r
        <4>4. ASSUME "HEADERS" \in kinds[e], ~ r.headers
              PROVE  \E other \in Event :
                       OnTheWay(e, other)' /\ other.kind = "HEADERS" /\ other.sequence > r.last
          <5>1. ~ view[d].headers
            BY <4>3, <4>4
          <5>2. PICK other \in Event :
                  OnTheWay(e, other) /\ other.kind = "HEADERS" /\ other.sequence > view[d].last
            BY <3>1, <4>4, <5>1 DEF HeadersCome
          <5>3. other # event
            BY <3>3, <4>3, <4>4, <5>2 DEF News, IsNews
          <5>4. OnTheWay(e, other)' /\ event.sequence < other.sequence
            BY <2>4, <2>5, <3>3, <5>2, <5>3
          <5>5. r.last = view[d].last \/ r.last = event.sequence
            BY <4>3 DEF News
          <5>6. /\ event.sequence \in Nat /\ other.sequence \in Nat
            BY <2>3 DEF Event
          <5>7. other.sequence > r.last
            BY <3>1, <5>2, <5>4, <5>5, <5>6
          <5> QED
            BY <5>2, <5>4, <5>7
        <4> QED
          BY <2>1, <4>1, <4>2, <4>4 DEF HeadersCome
      <3> QED
        BY <3>2, <3>3
    <2> QED
      BY <2>6 DEF HeadersComeInv
  <1>11. CASE Unlisten \/ Listen
    BY <1>11 DEF Unlisten, Listen, OneStart
  <1>12. ASSUME NEW d \in Drafts, ClickCancel(d) \/ HandleCancel(d) \/ CancelReturns(d)
         PROVE  HeadersComeInv'
    BY <1>12 DEF ClickCancel, HandleCancel, CancelReturns, EndInv
  <1>13. CASE UNCHANGED vars
    BY <1>2, <1>13 DEF vars, coordinatorVars, viewVars
  <1> QED
    BY <1>3, <1>5, <1>6, <1>7, <1>8, <1>9, <1>10, <1>11, <1>12, <1>13 DEF Next

\* Where no request body is streamed and the user waits for a start before the next,
\* never cancels and stays in the workspace, a response that is shown as completed is
\* shown with its headers.
THEOREM CompletedHasHeaders ==
  ASSUME Habits = {}, Uploads = {}
  PROVE  Spec => []ShownWithHeaders
  <1>0. "cancel" \notin Habits
    OBVIOUS
  <1>1. ASSUME TypeOK, EndInv, HonestInv, HeadersFirst, HeadersComeInv,
               NEW d \in Drafts, view[d] # None, view[d].phase = "completed", ~ view[d].headers
        PROVE  FALSE
    <2> PICK e \in Executions : e = view[d].execution
      BY <1>1 DEF TypeOK, States
    <2>1. view[d].last = count[e]
      BY <1>1 DEF EndInv, EndOf
    <2>2. "HEADERS" \in kinds[e]
      BY <1>1 DEF HonestInv, TrueOf, HeadersFirst
    <2>3. PICK event \in Event : OnTheWay(e, event) /\ event.sequence > count[e]
      BY <1>1, <2>1, <2>2 DEF HeadersComeInv, HeadersCome
    <2>4. event.execution = e /\ Fits(event)
      BY <1>1, <2>3 DEF OnTheWay, EndInv
    <2>5. count[e] \in Nat /\ event.sequence \in Nat /\ event.sequence <= count[e]
      BY <1>1, <2>4 DEF Fits, TypeOK, Event
    <2> QED
      BY <2>3, <2>5
  <1>2. TypeOK /\ EndInv /\ HonestInv /\ HeadersFirst /\ HeadersComeInv => ShownWithHeaders
    BY <1>1 DEF ShownWithHeaders, TypeOK, States
  <1>3. TypeOK /\ EndInv /\ [Next]_vars => EndInv'
    BY <1>0, EndStep, TypeStep
  <1>4. TypeOK /\ EndInv /\ OneStart /\ [Next]_vars => OneStart'
    BY OneStartStep, TypeStep
  <1>5. TypeOK /\ EndInv /\ OneStart /\ InLine /\ [Next]_vars => InLine'
    BY InLineStep
  <1>6. TypeOK /\ EndInv /\ OneStart /\ InLine /\ InitialIsFirst /\ [Next]_vars => InitialIsFirst'
    BY InitialIsFirstStep, TypeStep
  <1>7. TypeOK /\ HeadersFirst /\ [Next]_vars => HeadersFirst'
    BY HeadersFirstStep
  <1>8. /\ TypeOK /\ EndInv /\ HonestInv /\ OneStart /\ InLine /\ InitialIsFirst
        /\ HeadersFirst /\ HeadersComeInv /\ [Next]_vars
        => HeadersComeInv'
    BY HeadersComeStep, TypeStep
  <1> QED
    BY <1>2, <1>3, <1>4, <1>5, <1>6, <1>7, <1>8, TypeInit, TypeStep, HonestInit, HonestStep,
       EndInit, EndComesInit, HeadersInit, PTL DEF Spec

=============================================================================
