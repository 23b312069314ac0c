SPECIFICATION Spec
CONSTANTS
  a = a
  b = b
  c = c
  bad = bad
  stranger = stranger
  BTC = BTC
  ETH = ETH
  relayer = relayer
  anyone = anyone
  NoPrice = NoPrice
  U64 = 9
  U256 = 8
  MaxTime = 4
  Times = {0, 1, 2, 3, 4, 5}
  Feeds = {BTC, ETH}
  Senders = {relayer, anyone}
  Signers = {a, b, c, bad, stranger}
  Faulty = {bad, stranger}
  Configs <- MCConfigs
  Payloads <- MCPayloads
  Quote <- MCQuote
  Tables <- MCTables
INVARIANTS
  TypeOK
  HonestPrices
  NeverLockedOut
  FreshQuorumAccepted
PROPERTY ImplementsPriceFeeds
CHECK_DEADLOCK FALSE
