SPECIFICATION FairSpec
CONSTANTS
  big = big
  small = small
  b1 = b1
  b2 = b2
  b3 = b3
  s1 = s1
  e1 = e1
  e2 = e2
  e3 = e3
  p1 = p1
  p2 = p2
  Jobs = {b1, b2, b3, s1}
  Tenants = {big, small}
  TenantOf <- MCTenantOf
  Narrations = {b1, b2, b3}
  Cap <- MCCap
  Executors = {e1, e2, e3}
  Processes = {p1, p2}
  Proc <- MCProc
  NoJob = NoJob
  Recycled = {b1, b2}
  MaxCrashes = 1
INVARIANTS
  CapNearlyKept
PROPERTY EveryJobRuns
CHECK_DEADLOCK FALSE
