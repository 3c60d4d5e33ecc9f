SPECIFICATION BoundarySpec
CONSTANTS
  t1 = t1  t2 = t2  s1 = s1  c = c  h = h  v = v  ann = ann  bob = bob  x = x  y = y
  Thread = {t1, t2}
  Server = {s1}
  ServerOf <- MCServerOf
  Key = {k1, k2}
  Claims = {c}
  Documents = {h, v}
  Who = {ann, bob}
  What = {x, y}
  Requests <- MCRequests
  None = None
  MaxCalls = 3
  MaxCrashes = 1
  MaxLocal = 1
  Provider = {"github", "gitlab", "gitea", "bitbucket", "azure"}
  PageSize = 1
  MaxPages = 3
  Sample <- MCSample
  MaxObjects = 2
  MaxChanges = 2
INVARIANT AnswersAgree
INVARIANT AnswerIsBacked
INVARIANT EffectOnce
INVARIANT NothingIsOverlooked
INVARIANT ValuesAreReported
CHECK_DEADLOCK FALSE
