SPECIFICATION FairFileSpec
CONSTANTS
  Process <- MCProcess
  Body <- MCBody
  Newline = Newline  Fragment = Fragment  NoCall = NoCall
  p1 = p1  p2 = p2  a = a  b = b
  MaxRecords = 2
  MaxFaults = 2
INVARIANT AcknowledgedSurvives
PROPERTY CorruptionIsFinal
PROPERTY ImplementsLedgerPort
PROPERTY CallsReturn
CHECK_DEADLOCK FALSE
