SPECIFICATION FairSpec
CONSTANTS
  p1 = p1
  p2 = p2
  s1 = s1
  s2 = s2
  r1 = r1
  r2 = r2
  None = None
  Plans = {p1, p2}
  Segs = {s1}
  Pages <- SharedPage
  Runs = {r1, r2}
  MaxAttempts <- TwoOne
  MaxConcurrent = 1
  MaxQueued = 1
  KeepOrphans = FALSE
INVARIANTS
  MappingLive
  OnePerPlan
  ArtifactsKept
  NoSilentStill
PROPERTIES
  CancelFrees
CHECK_DEADLOCK FALSE
