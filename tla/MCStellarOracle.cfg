SPECIFICATION Spec
CONSTANTS
  BTC = BTC
  ETH = ETH
  xlm = xlm
  usd = usd
  NONE = NONE
  NoPrice = NoPrice
  Feeds = {BTC, ETH}
  SepFeeds = {BTC, ETH}
  Assets = {xlm, usd}
  Decimals = {1, 3}
  DECIMALS = 2
  Times = {2, 3, 4, 6, 7, 8}
  MaxClock = 4
  Quote <- MCQuote
  MS_IN_SEC = 2
  HISTORY_LIMIT = 2
  DATA_STALENESS = 2
  max_timestamp_delay_ms = 1
  max_timestamp_ahead_ms = 1
  min_interval_between_updates_ms = 2
  I128 = 100
INVARIANTS
  TypeOK
  FeedMapOK
  HistoryInOrder
  ReadersAgree
PROPERTY ImplementsPriceFeeds
CHECK_DEADLOCK FALSE
