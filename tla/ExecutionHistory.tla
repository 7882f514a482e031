-------------------------- MODULE ExecutionHistory --------------------------
(***************************************************************************)
(* The history of executions: ExecutionHistoryObserver of                  *)
(* src-tauri/src/ipc/boundary/handlers.rs, which turns the last event of   *)
(* an execution into a record, and the table execution_records with its    *)
(* retention (infrastructure/sqlite/repository).                           *)
(*                                                                         *)
(* The time of a record is taken when the event is observed; the lock of   *)
(* the request service is taken after that, so records may be inserted in  *)
(* another order than that of their times.                                 *)
(***************************************************************************)
EXTENDS Integers, FiniteSets

CONSTANTS
  Executions,
  Homes,      \* workspaces
  HomeOf,     \* workspace of each execution
  KeepCount,  \* EXECUTION_HISTORY_RETENTION_LIMIT
  KeepTime,   \* EXECUTION_HISTORY_RETENTION_DAYS
  MaxClock    \* bound: the clock

ASSUME HomeOfAssumption == HomeOf \in [Executions -> Homes]
ASSUME RetentionAssumption == {KeepCount, KeepTime, MaxClock} \subseteq Nat

VARIABLES
  observed,  \* executions whose observer has made its record
  waiting,   \* records made and not inserted: each with its time
  history,   \* table execution_records
  disabled,  \* table execution_history_settings
  homes,     \* table workspaces
  time

historyVars == <<observed, waiting, history, disabled, homes, time>>

Entry == [of : Executions, at : Nat]
HistoryRow == [of : Executions, at : Nat, pinned : BOOLEAN]

HistoryInit ==
  /\ observed = {} /\ waiting = {} /\ history = {} /\ disabled = {}
  /\ homes = Homes /\ time = 0

RowsOf(rows, w) == {row \in rows : HomeOf[row.of] = w}
Unpinned(rows, w) == {row \in RowsOf(rows, w) : ~row.pinned}

\* Mutant: old records go whether or not they are pinned.
CleanedOfAge(rows, w, now) ==
  LET recent == {row \in RowsOf(rows, w) : row.at >= now - KeepTime}
      unpinned == recent \intersect Unpinned(rows, w)
  IN  {((rows \ RowsOf(rows, w)) \union (recent \ unpinned)) \union kept : kept \in
        {s \in SUBSET unpinned :
           /\ Cardinality(s) = IF Cardinality(unpinned) < KeepCount THEN Cardinality(unpinned)
                               ELSE KeepCount
           /\ \A row \in unpinned \ s, keep \in s : row.at <= keep.at}}

\* cleanup_execution_records: what is left, one of several if times are equal.
Cleaned(rows, w, now) ==
  LET recent == {row \in Unpinned(rows, w) : row.at >= now - KeepTime}
  IN  {(rows \ Unpinned(rows, w)) \union kept : kept \in
        {s \in SUBSET recent :
           /\ Cardinality(s) = IF Cardinality(recent) < KeepCount THEN Cardinality(recent)
                               ELSE KeepCount
           /\ \A row \in recent \ s, keep \in s : row.at <= keep.at}}

-----------------------------------------------------------------------------
\* ExecutionHistoryObserver::observe of a last event, of which it may get more
\* than one.
Observe(e) ==
  /\ e \notin observed
  /\ waiting' = waiting \union {[of |-> e, at |-> time]}
  /\ observed' = observed \union {e}
  /\ UNCHANGED <<history, disabled, homes, time>>

\* record_execution: nothing is recorded while the history of the workspace is
\* disabled, for a workspace that is gone, or if the database fails.
RecordExecution(entry) ==
  /\ entry \in waiting
  /\ waiting' = waiting \ {entry}
  /\ LET w == HomeOf[entry.of]
         row == [of |-> entry.of, at |-> entry.at, pinned |-> FALSE]
     IN  \/ /\ w \in homes \ disabled
            /\ history' \in Cleaned(history \union {row}, w, entry.at)
         \/ UNCHANGED history
  /\ UNCHANGED <<observed, disabled, homes, time>>

\* set_execution_record_pinned.
SetPinned(row, pinned) ==
  /\ row \in history
  /\ history' \in Cleaned((history \ {row}) \union {[row EXCEPT !.pinned = pinned]},
                          HomeOf[row.of], time)
  /\ UNCHANGED <<observed, waiting, disabled, homes, time>>

\* set_execution_history_disabled.  What is recorded stays.
SetDisabled(w, off) ==
  /\ w \in homes
  /\ disabled' = IF off THEN disabled \union {w} ELSE disabled \ {w}
  /\ UNCHANGED <<observed, waiting, history, homes, time>>

\* The deletion of a workspace takes its records and its setting along.
DropHome(w) ==
  /\ w \in homes /\ homes # {w}
  /\ homes' = homes \ {w}
  /\ history' = history \ RowsOf(history, w)
  /\ disabled' = disabled \ {w}
  /\ UNCHANGED <<observed, waiting, time>>

HistoryTick ==
  /\ time < MaxClock
  /\ time' = time + 1
  /\ UNCHANGED <<observed, waiting, history, disabled, homes>>

HistoryNext ==
  \/ \E e \in Executions : Observe(e)
  \/ \E entry \in waiting : RecordExecution(entry)
  \/ \E row \in history, pinned \in BOOLEAN : SetPinned(row, pinned)
  \/ \E w \in Homes : DropHome(w) \/ \E off \in BOOLEAN : SetDisabled(w, off)
  \/ HistoryTick

HistorySpec == HistoryInit /\ [][HistoryNext]_historyVars

-----------------------------------------------------------------------------
(* Properties *)

\* Every variable has its type.
HistoryTypeOK ==
  /\ observed \subseteq Executions
  /\ waiting \subseteq Entry
  /\ history \subseteq HistoryRow
  /\ disabled \subseteq homes /\ homes \subseteq Homes
  /\ time \in Nat

\* No more records than the limit are kept of a workspace besides the pinned
\* ones, also after one of those has lost its pin.
HistoryIsBounded == \A w \in Homes : Cardinality(Unpinned(history, w)) <= KeepCount

\* An execution has one record, whatever its observer was told after the end,
\* and the records of a workspace do not outlive it.
OneRecordEach ==
  /\ \A row, other \in history \union {[of |-> e.of, at |-> e.at, pinned |-> FALSE] : e \in waiting} :
       row.of = other.of => row = other
  /\ \A row \in history : HomeOf[row.of] \in homes

\* A record goes with its workspace, or for its age, or because enough newer
\* records are there that are not pinned; a pinned one does not go at all.
OnlyOldRecordsGo ==
  [][\A row \in history :
       LET w == HomeOf[row.of] IN
         w \in homes' /\ (\A other \in history' : other.of # row.of) =>
           /\ row.pinned => \E unpin \in BOOLEAN : SetPinned(row, unpin)
           /\ \/ row.at < time - KeepTime
              \/ KeepCount <= Cardinality({other \in Unpinned(history', w) : other.at >= row.at})]_historyVars

\* What the history promises: one record of an execution, not too many of them,
\* and none lost that the settings keep.
HistoryCorrect ==
  /\ [](HistoryTypeOK /\ HistoryIsBounded /\ OneRecordEach)
  /\ OnlyOldRecordsGo

=============================================================================
