\* One execution with a streamed body, cancelled at any moment, while workspaces are switched.
CONSTANTS
  d1 = d1
  e1 = e1
  e2 = e2
  None = None
  Executions = {e1}
  Drafts = {d1}
  DraftOf <- OneDraft
  Uploads = {e1}
  Habits = {"overlap", "cancel", "switch"}
  MaxEvents = 5
SPECIFICATION Spec
CHECK_DEADLOCK FALSE
INVARIANTS TypeOK Honest
