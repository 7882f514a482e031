\* A cancel that comes too late: TLC finds a counterexample.
CONSTANTS
  d1 = d1
  e1 = e1
  e2 = e2
  None = None
  Executions = {e1}
  Drafts = {d1}
  DraftOf <- OneDraft
  Uploads = {}
  Habits = {"cancel"}
  MaxEvents = 3
SPECIFICATION Spec
CHECK_DEADLOCK FALSE
PROPERTIES CompletedStays
