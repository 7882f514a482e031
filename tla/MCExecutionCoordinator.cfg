\* Three executions of two drafts behind one permit, one with a streamed body.
CONSTANTS
  e1 = e1
  e2 = e2
  e3 = e3
  d1 = d1
  d2 = d2
  None = None
  Executions = {e1, e2, e3}
  Drafts = {d1, d2}
  DraftOf <- TwoDrafts
  Uploaders = {e1}
  Concurrency = 1
  MaxEvents = 2
SPECIFICATION Spec
INVARIANTS
  TypeOK
  TerminalIsLast
  ConcurrencyBounded
  GateHasOneOwner
  StateAgrees
  NoResidue
  CancelledOnlyOnRequest
PROPERTIES
  SupersededStaysSilent
  ImplementsQueue
