SPECIFICATION Spec
CONSTANTS
  k1 = k1
  s1 = s1
  s2 = s2
  r1 = r1
  r2 = r2
  e1 = e1
  e2 = e2
  Keys = {k1}
  Snaps = {s1, s2}
  NoSnap = NoSnap
  Estimate <- MCEstimate
  Units = {1, 2}
  Limit = 1
  Requests = {r1, r2}
  Executors = {e1, e2}
  Nobody = Nobody
  NoKey = NoKey
  JobKinds = {"narration", "export"}
  Months = 2
  Sweeping = TRUE
  MaxRequeues = 1
  MaxFaults = 1
INVARIANTS
  ChargedOnce
  SucceededIsCharged
  EndedIsClosed
CHECK_DEADLOCK FALSE
