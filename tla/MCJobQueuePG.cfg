SPECIFICATION Spec
CONSTANTS
  e1 = e1
  e2 = e2
  e3 = e3
  p1 = p1
  p2 = p2
  j1 = j1
  j2 = j2
  Jobs = {j1}
  Executors = {e1, e2}
  Processes = {p1}
  Proc <- MCProc
  NoProcess = NoProcess
  NoJob = NoJob
  MarkStates = {"pending"}
  Backend = "postgres"
  MaxAttempts = 2
  MaxFaults = 2
  MaxRequeues = 1
INVARIANTS
  OverlapNeedsFault
  ExtraAttemptsExplained
PROPERTIES
  LatestClaimCommits
  CancelHonoured
  ImplementsLifecycle
CHECK_DEADLOCK FALSE
