SPECIFICATION Spec
CONSTANTS
  u1 = u1
  u2 = u2
  c1 = c1
  c2 = c2
  r1 = r1
  r2 = r2
  Uploads = {u1, u2}
  First = u1
  Histories = {"aborted", "same"}
  Contents = {c1, c2}
  Requests = {r1, r2}
  Nothing = Nothing
  DeleteAfter = {u2}
  OrphanDelete = TRUE
INVARIANTS
  LiveHasSource
  AnswersHold
  JobMatchesRevision
  CurrentKept
SYMMETRY Symmetry
CHECK_DEADLOCK FALSE
