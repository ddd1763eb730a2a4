CONSTANTS
  Callers = {c1, c2}
  Narrator = narrator
  Crews <- Pairs
  SegIds = {s1, s2}
  MaxWrites = 2
SPECIFICATION Spec
SYMMETRY Symmetry
INVARIANT FreshIsVoiced
INVARIANT ConfirmedSpoken
PROPERTY NoSilentOverwrite
CHECK_DEADLOCK FALSE
