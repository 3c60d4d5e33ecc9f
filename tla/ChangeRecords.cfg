SPECIFICATION MCSpec
CONSTANTS
  p1 = p1
  p2 = p2
  h1 = h1
  h2 = h2
  d1 = d1
  d2 = d2
  t1 = t1
  None = None
  Process = {p1, p2}
  Commit = {h1, h2}
  Covered = {h1}
  EvidenceKind = {t1}
  Results = {"passed", "failed"}
  RecordId = {d1, d2}
  Worktree <- Trees
  Requests <- AllRequests
  MaxTime = 1
  MaxCalls = 3
SYMMETRY Symmetry
INVARIANT NeverMergedUnreviewed
INVARIANT ReleasableIsProven
PROPERTY UncontendedRecordsFollow
CHECK_DEADLOCK FALSE
