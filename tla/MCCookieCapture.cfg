\* Cookies alone, two headers a response and nothing that goes wrong: TLC finds a counterexample.
CONSTANTS
  Parts = {"cookies"}
  d1 = d1
  e1 = e1
  e2 = e2
  None = None
  Executions = {e1}
  Drafts = {d1}
  DraftOf <- OneDraft
  Uploads = {e1}
  Habits = {"overlap", "cancel", "switch"}
  MaxEvents = 4
  a = a
  b = b
  x = x
  y = y
  n1 = n1
  n2 = n2
  s1 = s1
  s2 = s2
  Scopes = {a, b}
  CookieValues = {x, y}
  MaxCookies = 2
  MaxSecrets = 3
  MaxTime = 1
  MaxHeaders = 2
  Faults = {}
  Malformed = Malformed
  Nil = Nil
  Spaces = {a, b}
  Envs = {x, y}
  Names = {n1, n2}
  Secrets = {s1, s2}
  Plain = Plain
  NoId = NoId
SPECIFICATION PartsSpec
SYMMETRY Renamings
CHECK_DEADLOCK FALSE
PROPERTIES
  SessionCookiesAreKept
