---------------------------- MODULE RoundAdapters ----------------------------
(***************************************************************************)
(* The adapters that keep one timestamp for the feeds written last:         *)
(* casper-connector/.../price_adapter.rs, fuel-connector/sway/.../          *)
(* redstone_adapter.sw and prices.sw, starknet-connector/cairo/.../         *)
(* price_rounds_adapter.cairo and ton-connector/contracts/price_manager.fc. *)
(* On TON a price feed is a contract of its own, which fetches its price    *)
(* from the manager by messages; single_feed_man.fc is both in one.         *)
(***************************************************************************)
EXTENDS ChainPayloads

CONSTANTS
  NORMALIZED,         \* Starknet: timestamps from here on are no seconds
  MinInterval,        \* Fuel: MIN_INTERVAL_BETWEEN_UPDATES, in seconds
  NEVER,              \* Fuel: no last_update_block_timestamp
  PriceFeedContracts, \* TON: the feeds that have a contract of their own
  MaxMessages         \* the bound on a feed's requests in transit

VARIABLES
  values,             \* values[feed]; NO_VALUE where there is none
  feed_ids,           \* the feeds of the last write
  timestamp,          \* of the last write: milliseconds; on Starknet seconds
  last_update,        \* Fuel: last_update_block_timestamp
  round_number,       \* Starknet
  feeds,              \* TON: the storage of each price feed
  requests,           \* TON: the FETCH_DATA messages on their way to the manager
  answers             \* TON: the DATA_FETCHED messages on their way to a feed

ASSUME RoundAssumption ==
  /\ NORMALIZED \in Nat /\ MinInterval \in Nat /\ NEVER \notin Nat
  /\ PriceFeedContracts \subseteq Feeds /\ MaxMessages \in Nat

roundVars == <<values, feed_ids, timestamp, last_update, round_number>>
tonVars == <<feeds, requests, answers>>

NO_VALUE == 0

RoundAdapterInit ==
  /\ values = [feed \in Feeds |-> NO_VALUE]
  /\ feed_ids = {}
  /\ timestamp = 0
  /\ last_update = NEVER
  /\ round_number = 0
  /\ feeds = [feed \in Feeds |-> [price |-> 0, timestamp |-> 0]]
  /\ requests = [feed \in Feeds |-> 0]
  /\ answers = [feed \in Feeds |-> << >>]

\* Written and, when not written, cleared if the last write held it.
RoundWritten(new_feed_ids, new_values, new_timestamp) ==
  /\ values' = [feed \in Feeds |->
       IF feed \in new_feed_ids THEN new_values[feed]
       ELSE IF feed \in feed_ids THEN NO_VALUE ELSE values[feed]]
  /\ feed_ids' = new_feed_ids
  /\ timestamp' = new_timestamp

\* The library's result where the timestamps of packages may differ: its smallest
\* timestamp, and values that honest signers signed then or later.
ProcessedMin(new_feed_ids) ==
  {p \in [timestamp : Timely,
          values : [new_feed_ids -> UNION {Quote[f][t] : f \in new_feed_ids, t \in Timely}]] :
     \A feed \in new_feed_ids : \E t \in Timely :
       t >= p.timestamp /\ p.values[feed] \in Quote[feed][t]}

\* write_result; the feeds left out are cleared after the others are written.
CasperWritePrices(new_feed_ids) ==
  \E p \in ProcessedMin(new_feed_ids) :
    /\ p.timestamp > timestamp
    /\ RoundWritten(new_feed_ids, p.values, p.timestamp)
    /\ UNCHANGED <<last_update, round_number, tonVars>>

\* check_last_update_block_timestamp
FuelIntervalPassed == last_update # NEVER => clock >= last_update + MinInterval

\* redstone_adapter.sw: write_prices and overwrite_prices, by a trusted updater.
FuelWritePrices(new_feed_ids) ==
  /\ FuelIntervalPassed
  /\ last_update' = clock
  /\ \E p \in ProcessedMin(new_feed_ids) :
       /\ p.timestamp > timestamp
       /\ RoundWritten(new_feed_ids, p.values, p.timestamp)
  /\ UNCHANGED <<round_number, tonVars>>

\* prices.sw: write_prices and overwrite_prices, by anyone and at any time.
FuelPricesWritePrices(new_feed_ids) ==
  /\ \E p \in ProcessedMin(new_feed_ids) :
       /\ p.timestamp > timestamp
       /\ RoundWritten(new_feed_ids, p.values, p.timestamp)
  /\ UNCHANGED <<last_update, round_number, tonVars>>

\* Mutant of StarknetRoundWritten: the feeds of the last round stay.
StarknetRoundKept(new_feed_ids, new_values, new_timestamp) ==
  /\ new_timestamp < NORMALIZED
  /\ new_timestamp > timestamp
  /\ values' = [feed \in Feeds |-> IF feed \in new_feed_ids THEN new_values[feed] ELSE values[feed]]
  /\ feed_ids' = new_feed_ids
  /\ timestamp' = new_timestamp
  /\ round_number' = round_number + 1
  /\ UNCHANGED <<last_update, tonVars>>

\* write_price_values_internal, given the number of the next round: all the feeds of
\* the last round are cleared before the new ones are written.
StarknetRoundWritten(new_feed_ids, new_values, new_timestamp) ==
  /\ new_timestamp < NORMALIZED
  /\ new_timestamp > timestamp
  /\ RoundWritten(new_feed_ids, new_values, new_timestamp)
  /\ round_number' = round_number + 1
  /\ UNCHANGED <<last_update, tonVars>>

\* write_prices.  For no feeds only the timestamps of the packages are looked at; the
\* least timestamp of no packages is too large for a normalized one.
StarknetWritePrices(new_feed_ids, payload) ==
  /\ payload # << >>
  /\ StarknetPayloadSound(payload, new_feed_ids)
  /\ StarknetRoundWritten(new_feed_ids,
       [feed \in new_feed_ids |-> StarknetValue(payload, feed)],
       StarknetTimestamp(payload) \div MS_IN_SEC)

\* write_price_values: the owner writes what honest signers signed, without payload.
StarknetWritePriceValues(new_feed_ids, t) ==
  \E new_values \in [new_feed_ids -> UNION {Quote[feed][t] : feed \in new_feed_ids}] :
    /\ \A feed \in new_feed_ids : new_values[feed] \in Quote[feed][t]
    /\ StarknetRoundWritten(new_feed_ids, new_values, t \div MS_IN_SEC)

\* price_manager.fc: write_prices; a new dictionary replaces the old one.
TonWritePrices(new_feed_ids, payload) ==
  /\ TonPayloadSound(payload, new_feed_ids)
  /\ TonTimestamp(payload, new_feed_ids) > timestamp
  /\ values' = [feed \in Feeds |->
       IF feed \in new_feed_ids THEN TonValue(payload, feed) ELSE NO_VALUE]
  /\ feed_ids' = new_feed_ids
  /\ timestamp' = TonTimestamp(payload, new_feed_ids)
  /\ UNCHANGED <<last_update, round_number, tonVars>>

\* price_feed.fc: a FETCH_DATA of anyone is forwarded to the manager.
TonForward(feed) ==
  /\ requests[feed] + Len(answers[feed]) < MaxMessages
  /\ requests' = [requests EXCEPT ![feed] = @ + 1]
  /\ UNCHANGED <<roundVars, feeds, answers>>

\* Mutant of TonAnswer: zero is answered for a feed that the round left out.
TonAnswerZero(feed) ==
  /\ requests[feed] > 0
  /\ requests' = [requests EXCEPT ![feed] = @ - 1]
  /\ answers' = [answers EXCEPT ![feed] =
       Append(@, [price |-> values[feed], timestamp |-> timestamp])]
  /\ UNCHANGED <<roundVars, feeds>>

\* price_manager.fc: the answer to a FETCH_DATA.  Without a price the manager throws
\* and the message bounces, which the feed ignores.
TonAnswer(feed) ==
  /\ requests[feed] > 0
  /\ requests' = [requests EXCEPT ![feed] = @ - 1]
  /\ answers' = [answers EXCEPT ![feed] =
       IF feed \in feed_ids
       THEN Append(@, [price |-> values[feed], timestamp |-> timestamp])
       ELSE @]
  /\ UNCHANGED <<roundVars, feeds>>

\* price_feed.fc: DATA_FETCHED.  Messages between two contracts arrive in order.
TonFetched(feed) ==
  /\ answers[feed] # << >>
  /\ feeds' = [feeds EXCEPT ![feed] = Head(answers[feed])]
  /\ answers' = [answers EXCEPT ![feed] = Tail(@)]
  /\ UNCHANGED <<roundVars, requests>>

\* single_feed_man.fc: write_price and get_price.
TonWritePrice(feed, payload) ==
  /\ TonPayloadSound(payload, {feed})
  /\ TonTimestamp(payload, {feed}) > feeds[feed].timestamp
  /\ feeds' = [feeds EXCEPT ![feed] =
       [price |-> TonValue(payload, feed), timestamp |-> TonTimestamp(payload, {feed})]]
  /\ UNCHANGED <<roundVars, requests, answers>>

RoundAdapterNext ==
  \/ \E new \in (SUBSET Feeds) \ {{}} :
       \/ chain = "casper" /\ CasperWritePrices(new)
       \/ chain = "fuel" /\ FuelWritePrices(new)
       \/ chain = "fuel_prices" /\ FuelPricesWritePrices(new)
       \/ chain = "ton" /\ \E payload \in TonPayloads : TonWritePrices(new, payload)
  \/ \E new \in SUBSET Feeds :
       \/ chain = "starknet" /\ \E payload \in Payloads : StarknetWritePrices(new, payload)
       \/ chain = "starknet" /\ \E t \in Times : StarknetWritePriceValues(new, t)
  \/ \E feed \in PriceFeedContracts :
       \/ chain = "ton" /\ (TonForward(feed) \/ TonAnswer(feed) \/ TonFetched(feed))
       \/ chain = "ton_single" /\ \E payload \in TonPayloads : TonWritePrice(feed, payload)

-----------------------------------------------------------------------------
\* The feeds that a reader gets a price of, with the time of the round.
Round ==
  [timestamp |-> IF chain = "starknet" THEN timestamp * MS_IN_SEC ELSE timestamp,
   values |-> [feed \in {f \in Feeds : values[f] # NO_VALUE} |-> values[feed]]]

\* The price of one feed with its timestamp, as its contract on TON keeps it.
FeedRound(feed) ==
  [timestamp |-> feeds[feed].timestamp,
   values |-> [f \in {feed} \ {g \in Feeds : feeds[g].timestamp = 0} |-> feeds[f].price]]

Rounds == INSTANCE PriceRounds WITH round <- Round
FeedRounds(feed) == INSTANCE PriceRounds WITH round <- FeedRound(feed)
=============================================================================
