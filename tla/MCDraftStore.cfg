\* Two drafts, two saved requests, two contents that differ and one nobody stores.
CONSTANTS
  d1 = d1
  d2 = d2
  d3 = d3
  s1 = s1
  s2 = s2
  named = named
  moved = moved
  nameless = nameless
  None = None
  Drafts = {d1, d2}
  SavedRequests = {s1, s2}
  Contents = {named, moved, nameless}
  Valid = {named, moved}
  Relinked <- RelinkNamed
SPECIFICATION Spec
SYMMETRY Ids
INVARIANTS
  TypeOK
  OneTabPerSavedRequest
  CleanMeansSaved
  TabsInOrder
PROPERTIES
  SavedChangesOnlyBySaving
  ClosedStaysClosed
  EditsSurvive
CHECK_DEADLOCK FALSE
