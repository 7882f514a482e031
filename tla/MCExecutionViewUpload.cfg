\* An upload event that overtakes the headers: TLC finds a counterexample.
CONSTANTS
  d1 = d1
  e1 = e1
  e2 = e2
  None = None
  Executions = {e1}
  Drafts = {d1}
  DraftOf <- OneDraft
  Uploads = {e1}
  Habits = {}
  MaxEvents = 5
SPECIFICATION Spec
CHECK_DEADLOCK FALSE
INVARIANTS ShownWithHeaders
