SPECIFICATION FairSpec
CONSTANTS
  big = big
  small = small
  b1 = b1
  b2 = b2
  b3 = b3
  s1 = s1
  e1 = e1
  e2 = e2
  e3 = e3
  p1 = p1
  p2 = p2
  Jobs = {s1}
  Tenants = {big, small}
  TenantOf <- MCTenantOf
  Narrations = {s1}
  Cap <- MCCap
  Executors = {e1}
  Processes = {p1}
  Proc <- MCProc
  NoJob = NoJob
  Recycled = {}
  MaxCrashes = 1
PROPERTY CrashedReclaimed
CHECK_DEADLOCK FALSE
