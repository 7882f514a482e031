\* Two executions of one tab, the second sent when the start of the first has returned;
\* two cookies with every fault and one header a response; the secrets of two environments.
CONSTANTS
  Parts = {"tab", "cookies", "secrets"}
  d1 = d1
  e1 = e1
  e2 = e2
  None = None
  Executions = {e1, e2}
  Drafts = {d1}
  DraftOf <- OneDraft
  Uploads = {}
  Habits = {}
  MaxEvents = 3
  a = a
  b = b
  x = x
  y = y
  n1 = n1
  n2 = n2
  s1 = s1
  s2 = s2
  Scopes = {a, b}
  CookieValues = {x, y}
  MaxCookies = 2
  MaxSecrets = 3
  MaxTime = 1
  MaxHeaders = 1
  Faults = {"database", "storage", "headers"}
  Malformed = Malformed
  Nil = Nil
  Spaces = {a, b}
  Envs = {x, y}
  Names = {n1, n2}
  Secrets = {s1, s2}
  Plain = Plain
  NoId = NoId
SPECIFICATION PartsSpec
SYMMETRY Renamings
VIEW WithoutLast
CHECK_DEADLOCK FALSE
INVARIANTS
  ShowsTheEnd
  ShownWithHeaders
  SecretsCorrect
PROPERTIES
  CookiesCorrect
  EndIsFinal
