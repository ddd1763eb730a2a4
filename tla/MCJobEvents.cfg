SPECIFICATION FairSpec
CONSTANTS
  j1 = j1
  j2 = j2
  Jobs = {j1, j2}
  Backends = {"postgres", "sqlite"}
  Limit = 2
  MaxReconnects = 1
  MaxFetches = 2
  MaxChanges = 3
  MaxClaimed = 1
INVARIANTS
  NoRepeat
  NothingSkipped
  InOrderOfChange
PROPERTIES
  EventsArrive
  CatchesUp
CHECK_DEADLOCK FALSE
