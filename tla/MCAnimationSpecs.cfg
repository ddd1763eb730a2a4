SPECIFICATION AnimationSpec
CONSTANTS
  g1 = g1
  None = None
  Segments = {g1}
  ClipIds = {1}
  Made <- TwoClips
  MaxRev = 2
  Crews <- MCCrews
INVARIANTS
  ExportedAsPinned
PROPERTIES
  SaveReplacesSeen
  MarkedKept
  DraftKept
