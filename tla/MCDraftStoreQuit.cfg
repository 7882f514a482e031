\* A pending edit nobody can store, when the service is dropped: TLC finds a counterexample.
CONSTANTS
  d1 = d1
  d2 = d2
  d3 = d3
  s1 = s1
  s2 = s2
  named = named
  moved = moved
  nameless = nameless
  None = None
  Drafts = {d1, d2}
  SavedRequests = {s1}
  Contents = {named, moved, nameless}
  Valid = {named, moved}
  Relinked <- RelinkNothing
SPECIFICATION Spec
PROPERTIES
  QuittingKeepsEdits
CHECK_DEADLOCK FALSE
