----------------------------- MODULE Diagnostics -----------------------------
(***************************************************************************)
(* The diagnostics log (src-tauri/src/diagnostics/mod.rs): events go to    *)
(* the end of the newest of a few log files, a full file is renamed to the *)
(* next older name, and a bundle is made of all of them.  Commands and     *)
(* executions record from threads of their own, and no lock is held while  *)
(* the files are looked at, renamed and written, so each of these is a     *)
(* step here.                                                              *)
(*                                                                         *)
(* An event has the size one, and a file that exists holds an event.  What *)
(* an event says, and the window in which debugging is on, are left out.   *)
(***************************************************************************)
EXTENDS Integers, SequencesExt

CONSTANTS
  Writers,        \* threads that record
  LogFiles,       \* MAX_DIAGNOSTICS_LOG_FILES
  LogCapacity,    \* MAX_DIAGNOSTICS_LOG_BYTES
  MaxEvents       \* bound: events

ASSUME LogAssumption ==
  /\ LogFiles \in Nat \ {0, 1}
  /\ LogCapacity \in Nat \ {0}
  /\ MaxEvents \in Nat
  /\ IsFiniteSet(Writers)

VARIABLES
  logs,      \* the events in each file, the file 0 being the newest
  at,        \* what each writer does next, and at which file
  made,      \* events that each writer has begun to record
  bundle     \* the bundle that is written: files to read, events read

logVars == <<logs, at, made, bundle>>

Indices == 0..(LogFiles - 1)
Idle == [step |-> "idle", index |-> 0]
Go(w, step, index) == at' = [at EXCEPT ![w] = [step |-> step, index |-> index]]
IsAt(w, step) == at[w].step = step

\* log_paths: the files that there are.
LogPaths == {i \in Indices : logs[i] # <<>>}

\* What all files hold, from the oldest to the newest.
AllEvents == FlattenSeq([i \in 1..LogFiles |-> logs[LogFiles - i]])
TotalBytes == Len(AllEvents)

-----------------------------------------------------------------------------
DiagnosticsInit ==
  /\ logs = [i \in Indices |-> <<>>]
  /\ at = [w \in Writers |-> Idle]
  /\ made = [w \in Writers |-> 0]
  /\ bundle = [paths |-> {}, events |-> <<>>]

\* Mutant: the oldest name is never used.
ThenRotateLess(w) ==
  IF Len(logs[0]) + 1 > LogCapacity THEN Go(w, "look", LogFiles - 2) ELSE Go(w, "total", 0)

\* The size of the newest file decides whether the files are rotated first.
ThenRotate(w) ==
  IF Len(logs[0]) + 1 > LogCapacity THEN Go(w, "look", LogFiles - 1) ELSE Go(w, "total", 0)

\* The beginning of record.
BeginRecord(w) ==
  /\ SumFunction(made) < MaxEvents
  /\ made' = [made EXCEPT ![w] = @ + 1]
  /\ ThenRotate(w)

Record(w) == IsAt(w, "idle") /\ BeginRecord(w) /\ UNCHANGED <<logs, bundle>>

\* The loop of rotate_for_append goes from the oldest file to the newest.
AfterFile(w, index) == IF index = 1 THEN Go(w, "total", 0) ELSE Go(w, "look", index - 1)

LookForLog(w) ==
  /\ IsAt(w, "look")
  /\ IF logs[at[w].index - 1] = <<>> THEN AfterFile(w, at[w].index) ELSE Go(w, "remove", at[w].index)
  /\ UNCHANGED <<logs, made, bundle>>

RemoveLog(w) ==
  /\ IsAt(w, "remove")
  /\ logs' = [logs EXCEPT ![at[w].index] = <<>>]
  /\ Go(w, "rename", at[w].index)
  /\ UNCHANGED <<made, bundle>>

Renamed(index) == [logs EXCEPT ![index] = logs[index - 1], ![index - 1] = <<>>]

\* Without its source the renaming fails, and the event is not recorded.
RenameLog(w) ==
  /\ IsAt(w, "rename")
  /\ IF logs[at[w].index - 1] = <<>>
     THEN Go(w, "idle", 0) /\ UNCHANGED logs
     ELSE logs' = Renamed(at[w].index) /\ AfterFile(w, at[w].index)
  /\ UNCHANGED <<made, bundle>>

\* rotate_logs: above the total the oldest file goes, but never the newest.
\* (The sizes are read and the file is removed in one step here.)
LimitTotal(w) ==
  /\ IsAt(w, "total")
  /\ logs' = IF TotalBytes > LogFiles * LogCapacity /\ LogPaths \ {0} # {}
             THEN [logs EXCEPT ![Max(LogPaths \ {0})] = <<>>]
             ELSE logs
  /\ Go(w, "append", 0)
  /\ UNCHANGED <<made, bundle>>

AppendEvent(w) ==
  /\ IsAt(w, "append")
  /\ logs' = [logs EXCEPT ![0] = Append(@, <<w, made[w]>>)]
  /\ Go(w, "idle", 0)
  /\ UNCHANGED <<made, bundle>>

-----------------------------------------------------------------------------
(* Bundles *)

\* export_bundle; commands run one at a time.
ExportBundle(w) ==
  /\ IsAt(w, "idle") /\ \A v \in Writers : ~IsAt(v, "export")
  /\ Go(w, "export", 0)
  /\ bundle' = [paths |-> LogPaths, events |-> <<>>]
  /\ UNCHANGED <<logs, made>>

\* The files are read from the oldest to the newest.  One that was renamed since
\* it was listed cannot be read, and the export fails; the next export starts the
\* bundle again.
ReadLog(w) ==
  /\ IsAt(w, "export") /\ bundle.paths # {}
  /\ LET oldest == Max(bundle.paths) IN
       IF logs[oldest] = <<>>
       THEN bundle' = [bundle EXCEPT !.paths = {}] /\ Go(w, "idle", 0)
       ELSE bundle' = [paths |-> bundle.paths \ {oldest}, events |-> bundle.events \o logs[oldest]]
              /\ UNCHANGED at
  /\ UNCHANGED <<logs, made>>

\* The export itself is recorded.
FinishBundle(w) ==
  /\ IsAt(w, "export") /\ bundle.paths = {}
  /\ BeginRecord(w)
  /\ UNCHANGED <<logs, bundle>>

DiagnosticsNext ==
  \E w \in Writers :
    \/ Record(w) \/ LookForLog(w) \/ RemoveLog(w) \/ RenameLog(w) \/ LimitTotal(w) \/ AppendEvent(w)
    \/ ExportBundle(w) \/ ReadLog(w) \/ FinishBundle(w)

DiagnosticsSpec == DiagnosticsInit /\ [][DiagnosticsNext]_logVars

-----------------------------------------------------------------------------
(* Properties *)

Events == Writers \X (1..MaxEvents)

\* A file exceeds its limit by no more than the other writers, which may have
\* looked at its size before this one wrote: nothing else keeps the log from
\* growing while the program runs.
LogsTypeOK ==
  /\ \A i \in Indices : logs[i] \in BoundedSeq(Events, LogCapacity + Cardinality(Writers) - 1)
  /\ \A w \in Writers : /\ at[w].step \in {"idle", "look", "remove", "rename", "total", "append", "export"}
                        /\ at[w].index \in Indices
                        /\ made[w] \in 0..MaxEvents

\* Events of one writer in their order, none of them twice.
InOrder(events) ==
  \A i, j \in DOMAIN events : i < j /\ events[i][1] = events[j][1] => events[i][2] < events[j][2]

\* However the rotations of several writers interleave, the files from the oldest
\* to the newest tell what each writer did in its order, and nothing twice.
LogsAreInOrder == InOrder(AllEvents)

\* A bundle that was written while the files were rotated under it may miss
\* events, but has none twice and none out of order.
BundlesAreInOrder == InOrder(bundle.events)

Smaller(a, b) == IF a < b THEN a ELSE b

\* While only one writer records, it loses its oldest events only, and those
\* only when the other files are full.
OldestGoFirst ==
  \A w \in Writers :
    (\A v \in Writers \ {w} : made[v] = 0) =>
      LET written == IF at[w].step \in {"idle", "export"} THEN made[w] ELSE made[w] - 1
          kept == Len(AllEvents)
      IN  /\ AllEvents = [i \in 1..kept |-> <<w, written - kept + i>>]
          /\ kept >= Smaller(written, (LogFiles - 1) * LogCapacity)

\* What the log promises: it is bounded and in order, and so is every bundle of it.
DiagnosticsCorrect ==
  /\ LogsTypeOK
  /\ LogsAreInOrder
  /\ BundlesAreInOrder
  /\ OldestGoFirst

=============================================================================
