SPECIFICATION MCSpec
CONSTANTS
  p1 = p1
  p2 = p2
  s1 = s1
  s2 = s2
  h1 = h1
  h2 = h2
  None = None
  Process = {p1, p2}
  Session = {s1, s2}
  Commit = {h1, h2}
  Lease = 1
  MaxTries = 2
  MaxTime = 1
  MaxCalls = 3
  MaxOthers = 1
SYMMETRY Symmetry
INVARIANT CompletedIsBacked
INVARIANT DoneWasProven
INVARIANT DoneHoldsNoLease
PROPERTY RecoversRunnableOnly
CHECK_DEADLOCK FALSE
