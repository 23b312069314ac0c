SPECIFICATION Spec
CONSTANTS
  p = p
  q = q
  NONE = NONE
  NoCaller = NoCaller
  Other = Other
  OtherIdentifier = "other"
  Connectors = {"stellar"}
  BatchCount <- MCTwoBatches
  MaxParallelTxCount <- MCMaxParallelTxCount
  MaxTxSendAttempts <- MCMaxTxSendAttempts
  AlternativeSenderMaxAttempts = 1
  MaxClock = 2
  MaxDelay = 0
  Callers = {p}
  Identifier <- MCIdentifier
  MoveTxSendAttempts = 2
  MaxSequenceNumber = 3
INVARIANT BatchesWritten
\* An update that was answered and calls that have settled leave nothing to do.
CHECK_DEADLOCK FALSE
