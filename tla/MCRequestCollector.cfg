CONSTANTS
  k1 = k1
  k2 = k2
  k3 = k3
  Keys = {k1, k2, k3}
  KeyLists <- TwoOfThree
  Callers = {c1, c2}
  Calls = {1, 2}
  Consumes = {1, 2}
  MaxBatchSize = 2
  HasFetchSingle = TRUE
  RetiresOnIdle = TRUE
  MayDispose = TRUE
  None = None
SPECIFICATION CollectorSpec
INVARIANTS
  CollectorTypeOK
  NothingForgotten
  AnswersMatch
  FetchesAccounted
PROPERTY EveryCallerAnswered
