SPECIFICATION Spec
CONSTANTS
  p = p  q = q  d = d  t = t  u = u  v = v  w = w  x = x  alice = alice  bob = bob
  Caller = {p, q}
  Digest = {d}
  Slug = {t, u, v, w}
  Status <- MCStatus
  DependsOn <- MCDependsOn
  Conflicts <- MCConflicts
  Scope = {"s", "r"}
  Session = {alice, bob}
  Named = {x}
  Requests <- MCRequests
  None = None
  MaxCalls = 4
  MaxTries = 2
INVARIANT AnswerIsBacked
INVARIANT NothingTwice
SYMMETRY Symmetric
CHECK_DEADLOCK FALSE
