\* Each part in a small instance.  For what is eventual: two executions of two drafts behind one
\* permit, one with a streamed body, and no exchange need ever end; two calls of one flow.
CONSTANTS
  e1 = e1
  e2 = e2
  e3 = e3
  d1 = d1
  d2 = d2
  None = None
  Executions = {e1, e2}
  Drafts = {d1, d2}
  DraftOf <- DraftsOfTheirOwn
  Uploaders = {e1}
  Concurrency = 1
  MaxEvents = 2
  call1 = call1
  call2 = call2
  theFlow = theFlow
  Calls = {call1, call2}
  Flows = {theFlow}
  FlowOf <- OneFlow
  NoFlow = NoFlow
  w1 = w1
  w2 = w2
  w3 = w3
  SpaceIds = {w1, w2, w3}
  EnvIds = {r1, r2}
  NotThere = NotThere
  MaxEnvPosition = 1
  f1 = f1
  f2 = f2
  f3 = f3
  r1 = r1
  r2 = r2
  Folders = {f1, f2, f3}
  Requests = {r1, r2}
  Root = Root
  Absent = Absent
  MaxPosition = 2
  SampleContents <- SomeContents
  Elements <- SomeElements
SPECIFICATION PartsSpec
CHECK_DEADLOCK FALSE
INVARIANTS
  DocumentCorrect
PROPERTIES
  CancelledTaskEnds
  QueuedIsServedOutsideTheWindow
  CallsReturn
  SpacesCorrect
  TreeCorrect
  ListsAreKept
