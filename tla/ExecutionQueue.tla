--------------------------- MODULE ExecutionQueue ---------------------------
(***************************************************************************)
(* What the execution coordinator promises its callers, without mutexes,   *)
(* notifications, tokens or tasks.  Executions are submitted, wait in the  *)
(* order of their submission, and either run or are withdrawn; at most     *)
(* Concurrency of them run at a time.  A draft has at most one current     *)
(* execution, the last one submitted for it, and only a current execution  *)
(* is heard of; once it has settled nothing more is heard of it.           *)
(***************************************************************************)
EXTENDS Integers, FiniteSets, Sequences

CONSTANTS Executions, Drafts, DraftOf, Concurrency, None

VARIABLES
  submitted,  \* executions ever submitted
  waiting,    \* those to be admitted, in the order of submission
  running,    \* those admitted and not yet over
  current,    \* the execution each draft shows
  heard       \* how many events have been heard of each execution

qvars == <<submitted, waiting, running, current, heard>>

QInit ==
  /\ submitted = {}
  /\ waiting = <<>>
  /\ running = {}
  /\ current = [d \in Drafts |-> None]
  /\ heard = [e \in Executions |-> 0]

\* A new execution queues up and becomes its draft's current one.
Submit(e) ==
  /\ e \notin submitted
  /\ submitted' = submitted \union {e}
  /\ waiting' = Append(waiting, e)
  /\ current' = [current EXCEPT ![DraftOf[e]] = e]
  /\ UNCHANGED <<running, heard>>

\* The first in the queue begins to run.
Begin ==
  /\ waiting # <<>>
  /\ Cardinality(running) < Concurrency
  /\ running' = running \union {Head(waiting)}
  /\ waiting' = Tail(waiting)
  /\ UNCHANGED <<submitted, current, heard>>

\* A current execution is heard of.  With its last event it settles: its draft
\* has no current execution any more.
Hear(e) ==
  /\ current[DraftOf[e]] = e
  /\ heard' = [heard EXCEPT ![e] = @ + 1]
  /\ current' \in {current, [current EXCEPT ![DraftOf[e]] = None]}

\* The rest of the queue when the execution at position i leaves it.
Leave(i) == SubSeq(waiting, 1, i - 1) \o SubSeq(waiting, i + 1, Len(waiting))

\* An execution gives up before it runs, with or without its last event.
Withdraw(i) ==
  /\ waiting' = Leave(i)
  /\ Hear(waiting[i]) \/ UNCHANGED <<current, heard>>
  /\ UNCHANGED <<submitted, running>>

\* An execution that no longer waits is heard of.
Report(e) ==
  /\ e \in submitted
  /\ \A i \in 1..Len(waiting) : waiting[i] # e
  /\ Hear(e)
  /\ UNCHANGED <<submitted, waiting, running>>

\* A run is over and its slot is free.
Finish(e) ==
  /\ e \in running
  /\ running' = running \ {e}
  /\ UNCHANGED <<submitted, waiting, current, heard>>

QNext ==
  \/ Begin
  \/ \E e \in Executions : Submit(e) \/ Report(e) \/ Finish(e)
  \/ \E i \in 1..Len(waiting) : Withdraw(i)

Spec == QInit /\ [][QNext]_qvars
=============================================================================
