SPECIFICATION Spec
CONSTANTS
  Process <- MCProcess
  Session <- MCSession
  SessionOf <- MCSessionOf
  ClaimId = {c1, c2}
  ChangeSet = {x, y}
  Scope <- MCScope
  Overlap <- MCOverlap
  DeclaredScopes <- MCDeclared
  NoClaim = NoClaim
  NoCall = NoCall
  p1 = p1  p2 = p2  alice = alice  bob = bob
  c1 = c1  c2 = c2  x = x  y = y
  Requests <- WideningRequests
  MaxTime = 3
  MaxHead = 3
  MaxTries = 3
INVARIANT WideningIsLocked
INVARIANT LostAttemptsAreProgress
PROPERTY OnlyOverdueRenewalClashes
PROPERTY ClaimNeverRegresses
PROPERTY ImplementsOwnership
CHECK_DEADLOCK FALSE
