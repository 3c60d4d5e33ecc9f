SPECIFICATION Spec
CONSTANTS
  Caller = {a, b}
  OperationId = {o1, o2}
  Draft = {d1, d2}
  d1 = d1
  Principal = {local, alice}
  Local = local
  MayAppend = {alice}
  Imported <- MCImported
  Limit = 1
  MaxTries = 2
  MaxEntries = 2
  MaxFailures = 1
SYMMETRY Alike
PROPERTY CallersSeeOneLog
INVARIANT StoreStaysReadable
INVARIANT LostRacesAreProgress
CHECK_DEADLOCK FALSE
