----------------------- MODULE MCExecutionCoordinator -----------------------
(* Small instances of the execution coordinator for TLC. *)
EXTENDS ExecutionCoordinator, TLC

CONSTANTS e1, e2, e3, d1, d2

\* Two executions of one draft and one of another: the first draft's can
\* replace one another while the second draft's waits behind them.
TwoDrafts == (e1 :> d1) @@ (e2 :> d1) @@ (e3 :> d2)

\* Two executions of one draft, each of which can replace the other.
OneDraft == (e1 :> d1) @@ (e2 :> d1)

\* Two executions of different drafts: neither replaces the other, so one waits
\* in the queue until the other leaves it.
DraftsOfTheirOwn == (e1 :> d1) @@ (e2 :> d2)
=============================================================================
