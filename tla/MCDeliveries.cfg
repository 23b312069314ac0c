SPECIFICATION Spec
CONSTANTS
  p = p
  q = q
  NONE = NONE
  NoCaller = NoCaller
  Other = Other
  OtherIdentifier = "other"
  Connectors <- MCConnectors
  BatchCount <- MCBatchCount
  MaxParallelTxCount <- MCMaxParallelTxCount
  MaxTxSendAttempts <- MCMaxTxSendAttempts
  AlternativeSenderMaxAttempts = 1
  MaxClock = 2
  MaxDelay = 0
  Callers = {p, q}
  Identifier <- MCIdentifier
  MoveTxSendAttempts = 2
  MaxSequenceNumber = 3
INVARIANTS TypeOK DeliveredMeansWritten
PROPERTY EveryCallerAnswered
\* An update that was answered and calls that have settled leave nothing to do.
CHECK_DEADLOCK FALSE
