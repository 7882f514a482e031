-------------------------- MODULE MCExecutionView --------------------------
(* Small instances of the view for TLC. *)
EXTENDS ExecutionView

CONSTANTS d1, e1, e2

OneDraft == [e \in Executions |-> d1]

=============================================================================
