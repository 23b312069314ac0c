CONSTANTS
  Feeds = {A, B}
  A = A
  B = B
  FeedOrder <- MCFeedOrder
  Signers = {s1, s2, s3}
  s1 = s1
  s2 = s2
  s3 = s3
  Ttl = 1
  LatestTtl = 1
  None = None
  Callers = {c1, c2}
  Gateways = {g1, g2}
  g1 = g1
  FirstGateway = g1
  Requests <- MCRequests
  MaxTime = 3
  Served <- MCServed
SPECIFICATION Spec
INVARIANT TypeOK
PROPERTIES AnswersConform RejectedUnserved EveryRequestSettled
CHECK_DEADLOCK FALSE
