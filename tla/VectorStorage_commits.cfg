SPECIFICATION Spec
CONSTANTS
  p1 = p1
  p2 = p2
  k1 = k1
  k2 = k2
  None = None
  Proc = {p1, p2}
  Key = {k1, k2}
  MaxWrites = 2
  Faults = TRUE
  MaxStarts = 3
SYMMETRY Symmetry
INVARIANTS UnflaggedCopyIsCurrent UnsavedIsRemembered
PROPERTIES CommitKeepsOthers
CHECK_DEADLOCK FALSE
