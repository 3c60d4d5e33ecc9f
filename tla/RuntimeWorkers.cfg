SPECIFICATION Spec
CONSTANTS
  c1 = c1  c2 = c2  a1 = a1  b1 = b1  n = n  m = m
  Caller = {c1, c2}
  Switcher = {c1}
  Config = {a1, b1}
  NameOf <- MCNames
  Registries = {{a1, b1}}
  Op = {"start", "input", "status", "stop", "switch"}
  None = None
  MaxCalls = 3
  MaxStarts = 2
INVARIANT KnownWorkerIsShown
INVARIANT ExitedHasExited
INVARIANT StoppedSourceEnds
INVARIANT SwitchIsAccountedFor
CHECK_DEADLOCK FALSE
