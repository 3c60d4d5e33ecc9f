SPECIFICATION FairSessionSpec
CONSTANTS
  p1 = p1  p2 = p2
  Prompt = {p1, p2}
  Nothing = Nothing
  MaxMessages = 4
INVARIANT WaiterIsHeld
INVARIANT RunningHasItsTurn
INVARIANT EndedLeavesNoProcess
PROPERTY AdapterReturns
PROPERTY StopEndsTurns
CHECK_DEADLOCK FALSE
