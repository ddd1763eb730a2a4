CONSTANTS
  Pages = {p1, p2}
  Exes = {x1, x2}
  Concurrency = 1
  Window = 2
  MaxByHand = 1
  MaxFaults = 1
SPECIFICATION Spec
SYMMETRY Symmetry
INVARIANTS
  WrittenOnce
  
  EveryPageSettled
CHECK_DEADLOCK FALSE
