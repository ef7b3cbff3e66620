SPECIFICATION Spec
CONSTANTS
  b = b  c1 = c1  c2 = c2  e1 = e1  e2 = e2
  NoRow = NoRow  NoPatch = NoPatch
  Name = {e1, e2}
  Base = {b}
  Parts = {c1, c2}
  Ops <- MCOps
  MaxJobs = 6
SYMMETRY Symmetry
CHECK_DEADLOCK FALSE
INVARIANTS EveryContributionNamed AllOrNothing
PROPERTIES BaseKept
