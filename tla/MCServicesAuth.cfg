\* Variables alone: TLC finds a counterexample.
CONSTANTS
  Parts = {"resolution"}
  directory1 = directory1
  directory2 = directory2
  aFile = aFile
  nameA = nameA
  nameB = nameB
  nameC = nameC
  aSecret = aSecret
  call1 = call1
  call2 = call2
  theFlow = theFlow
  theKey = theKey
  Callers = {1, 2}
  Keys = {theKey}
  KeyOf <- OneKey
  Skew = 1
  Lifetimes = {1, 3}
  Latency = 1
  MaxTime = 3
  MaxTokens = 3
  NoRecord = NoRecord
  Calls = {call1, call2}
  Flows = {theFlow}
  FlowOf <- OneFlow
  NoFlow = NoFlow
  Executions = {1, 2, 3}
  Homes = {1, 2}
  HomeOf <- LastElsewhere
  KeepCount = 1
  KeepTime = 1
  MaxClock = 3
  Builds = {1, 2, 3}
  Retention = 2
  Opens = 2
  MaxCommits = 2
  MaxCopies = 5
  Exchanges = {1}
  Preview = 1
  Limit = 4
  Chunks = {1, 2}
  MaxRedirects = 3
  FileLife = 1
  MaxNow = 3
  VariableNames = {nameA, nameB, nameC}
  References = {aSecret}
  Literal = Literal
  Redacted = Redacted
  Undefined = Undefined
  CollectionValues <- OfCollection
  EnvironmentValues <- OfEnvironment
  Contents <- SomeContents
  Documents <- SomeDocuments
  ImportIds = {1, 2, 3, 4}
  ImportEnvs = {1, 2, 3}
  ImportSecrets = {1, 2}
  Missing = Missing
  MaxImports = 3
  Samples <- SomeRows
  Titles = {"w1", "w2"}
  Directories = {directory1, directory2}
  FileNames = {aFile}
  Hashes = {"h1", "h2"}
  Nowhere = Nowhere
  MaxRowId = 12
  Characters = {"a", "&", "blank", "single", "double", "backslash", "$", "(", "backtick", ";"}
  MaxWord = 3
  Commands <- SomeCommands
  NoCommand = NoCommand
  Writers = {1, 2}
  LogFiles = 3
  LogCapacity = 1
  MaxEvents = 4
SPECIFICATION Spec
CHECK_DEADLOCK FALSE
INVARIANTS
  SentAuthorizationHasValues
