SPECIFICATION Spec
CONSTANTS
  N = 3
  Values = {1, 4}
  Points = {p, q}
  Configs <- EveryMode
  Undefined = Undefined
  Error = Error
  Hang = Hang
  Pending = Pending
INVARIANTS
  TypeOK
  ResolvedByVotes
  RejectedOnlyUnsettled
PROPERTY CallerAnswered
CHECK_DEADLOCK FALSE
