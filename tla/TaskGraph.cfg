SPECIFICATION Spec
CONSTANTS
  p1 = p1  p2 = p2  t1 = t1  t2 = t2  i1 = i1  i2 = i2  why = why  other = other
  l1 = l1  forth = forth  back = back  part = part  twin = twin
  Process = {p1, p2}
  Task = {t1, t2}
  Intent = {i1, i2}
  Reason = {why, other}
  Label = {l1}
  Document = {forth, back, part, twin}
  ItemsOf <- MCItemsOf
  Requests <- MCRequests
  Moves <- MCMoves
  None = None
  MaxHead = 6
  MaxTries = 2
  MaxPlans = 1
INVARIANT Acyclic
INVARIANT OfferedWasReady
PROPERTY ReceiptIsFinal
CHECK_DEADLOCK FALSE
SYMMETRY ProcessSymmetry
