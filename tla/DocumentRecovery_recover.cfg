SPECIFICATION Spec
CONSTANTS
  p1 = p1  p2 = p2  c1 = c1  c2 = c2  e1 = e1  e2 = e2
  NoPlan = NoPlan  NoRow = NoRow  NoAnchors = NoAnchors
  Plan = {p1, p2}
  ChunksOf <- MCChunksOf
  NamesOf <- MCNamesOf
  MaxJobs = 7
  Crashes = TRUE
CHECK_DEADLOCK FALSE
INVARIANTS CommitIsComplete MarkIsTrue Discoverable RefusedOnlyAmiss
