\* A queued execution that nobody wakes: TLC finds a counterexample.
CONSTANTS
  e1 = e1
  e2 = e2
  e3 = e3
  d1 = d1
  d2 = d2
  None = None
  Executions = {e1, e2}
  Drafts = {d1}
  DraftOf <- OneDraft
  Uploaders = {}
  Concurrency = 1
  MaxEvents = 2
SPECIFICATION ServingSpec
PROPERTIES
  QueuedIsServed
