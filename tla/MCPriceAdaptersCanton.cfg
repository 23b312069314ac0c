SPECIFICATION Spec
CONSTANTS
  a = a
  b = b
  c = c
  bad = bad
  stranger = stranger
  BTC = BTC
  ETH = ETH
  NoPrice = NoPrice
  NEVER = NEVER
  Feeds = {BTC, ETH}
  Signers = {a, b, c, bad, stranger}
  Faulty = {bad, stranger}
  Times = {1, 2, 3, 4, 5}
  Payloads <- MCPayloads
  config <- MCConfig
  Quote <- MCQuote
  U64 = 1000
  U256 = 1000
  MS_IN_SEC = 2
  MAX_DATA_TIMESTAMP_DELAY_SECONDS = 1
  StarknetAhead = 2
  TonAhead = 1
  NORMALIZED = 100
  MinInterval = 1
  PriceFeedContracts = {BTC}
  MaxMessages = 2
  MaxClock = 4
  pill_keep_ms = 1
  pill_staleness_ms = 4
  ARCHIVE_BATCH_SIZE = 2
  MaxOwnerCalls = 1
  CantonPayloads <- MCCantonPayloads
  ClaimedTimes = {2, 3, 5, 8}
  NotDemoted = NotDemoted
  Chains = {"canton"}
INVARIANT NewestPillsKept
CHECK_DEADLOCK FALSE
