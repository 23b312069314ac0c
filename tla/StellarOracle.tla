---------------------------- MODULE StellarOracle ----------------------------
(***************************************************************************)
(* stellar-connector/stellar/contracts: redstone-adapter, which keeps the   *)
(* last price of every feed and a short history of it, and redstone-sep-40, *)
(* which reads it and shows its feeds as assets of the SEP-40 interface.    *)
(*                                                                         *)
(* A transaction is atomic, and one that fails is no step.  Time is counted *)
(* in seconds of the ledger; the timestamps of prices in milliseconds.      *)
(***************************************************************************)
EXTENDS Sep40FeedMap, Subsequences

CONSTANTS
  Feeds,              \* what updaters write; any feed may be registered, or not
  Times, MaxClock,    \* package timestamps (ms), and the bound on the clock (s)
  Quote,              \* Quote[feed][timestamp]: the values honest signers signed
  NoPrice,
  MS_IN_SEC,
  HISTORY_LIMIT,
  DATA_STALENESS,     \* ms
  max_timestamp_delay_ms, max_timestamp_ahead_ms, min_interval_between_updates_ms,
  I128                \* i128::MAX + 1

VARIABLES
  latest,     \* the feed's own key in the storage; NoPrice where there is none
  history,    \* StorageKey::Feed(feed), oldest first
  map,        \* the feed map of redstone-sep-40
  clock       \* env.ledger().timestamp()

vars == <<latest, history, map, clock>>

PriceData == [price : Nat, package_timestamp : Nat, write_timestamp : Nat]

\* The same in the terms of PriceFeeds.
PublishedData == [value : Nat, timestamp : Nat, write_timestamp : Nat]

ASSUME OracleAssumption ==
  /\ Times \subseteq Nat /\ MaxClock \in Nat
  /\ Quote \in [Feeds -> [Times -> SUBSET Nat]]
  /\ NoPrice \notin PriceData \cup PublishedData
  /\ MS_IN_SEC \in Nat \ {0} /\ HISTORY_LIMIT \in Nat \ {0}
  /\ min_interval_between_updates_ms \in Nat

Now == clock * MS_IN_SEC

TypeOK ==
  /\ latest \in [Feeds -> PriceData \cup {NoPrice}]
  /\ history \in [Feeds -> Seq(PriceData)]
  /\ map \in FeedMap
  /\ clock \in Nat

\* The version of the adapter before this one kept no history; the constructor of
\* the registry is its empty map followed by an AddFeed for every mapping given.
Init ==
  /\ clock = 1
  /\ latest \in [Feeds -> {NoPrice} \cup
       {[price |-> v, package_timestamp |-> t, write_timestamp |-> s * MS_IN_SEC] :
          v \in UNION {Quote[feed][u] : feed \in Feeds, u \in Times}, t \in Times, s \in 0 .. 1}]
  /\ \A feed \in Feeds : latest[feed] # NoPrice =>
       latest[feed].price \in Quote[feed][latest[feed].package_timestamp]
  /\ history = [feed \in Feeds |-> << >>]
  /\ map = EmptyMap

-----------------------------------------------------------------------------
(* redstone-adapter                                                         *)

\* What process_payload returns for a payload: one timestamp, and for each of the
\* requested feeds that enough packages hold, a value among the honest ones.
ProcessedPayloads ==
  {p \in [timestamp : Times, values : UNION {[feeds -> UNION {Quote[f][t] : f \in Feeds, t \in Times}] :
                                                feeds \in SUBSET Feeds}] :
     \A feed \in DOMAIN p.values : p.values[feed] \in Quote[feed][p.timestamp]}

PayloadTimely(timestamp) ==
  /\ timestamp <= Now + max_timestamp_ahead_ms
  /\ Now <= timestamp + max_timestamp_delay_ms

\* Mutant of Verified: package timestamps may repeat.
VerifiedAgain(feed, timestamp, trusted) ==
  latest[feed] # NoPrice =>
    /\ latest[feed].package_timestamp <= timestamp
    /\ latest[feed].write_timestamp
         + (IF trusted THEN 0 ELSE min_interval_between_updates_ms) < Now

\* Mutant of Verified: trusted updaters may write twice in one ledger.
VerifiedTwice(feed, timestamp, trusted) ==
  latest[feed] # NoPrice =>
    /\ latest[feed].package_timestamp < timestamp
    /\ trusted \/ latest[feed].write_timestamp + min_interval_between_updates_ms < Now

\* UpdateTimestampVerifier::verify_timestamp, as update_feed calls it.
Verified(feed, timestamp, trusted) ==
  latest[feed] # NoPrice =>
    /\ latest[feed].package_timestamp < timestamp
    /\ latest[feed].write_timestamp
         + (IF trusted THEN 0 ELSE min_interval_between_updates_ms) < Now

\* PriceDataStorage::push refuses what is older than its last entry.
Pushable(feed, timestamp) ==
  history[feed] # << >> =>
    history[feed][Len(history[feed])].package_timestamp <= timestamp

\* The entries of PriceDataStorage after a push: the last ones up to the limit.
Pushed(entries, data) ==
  LET n == Len(entries) + 1 IN
    SubSeq(Append(entries, data), IF n > HISTORY_LIMIT THEN n - HISTORY_LIMIT + 1 ELSE 1, n)

\* update_feed: the feeds of a payload that are not skipped.
Updated(payload, trusted) ==
  {feed \in DOMAIN payload.values :
     /\ Verified(feed, payload.timestamp, trusted)
     /\ Pushable(feed, payload.timestamp)}

\* write_prices: the feeds of a payload are updated or skipped one by one.
WritePrices(payload, trusted) ==
  LET data(feed) == [price |-> payload.values[feed],
                     package_timestamp |-> payload.timestamp, write_timestamp |-> Now]
      updated == Updated(payload, trusted)
  IN /\ PayloadTimely(payload.timestamp)
     /\ latest' = [feed \in Feeds |-> IF feed \in updated THEN data(feed) ELSE latest[feed]]
     /\ history' = [feed \in Feeds |->
          IF feed \in updated THEN Pushed(history[feed], data(feed)) ELSE history[feed]]
     /\ UNCHANGED <<map, clock>>

-----------------------------------------------------------------------------
(* redstone-sep-40: what its owner does                                     *)

AddFeed(mapping) ==
  /\ Addable(map, mapping)
  /\ map' = Inserted(map, mapping)
  /\ UNCHANGED <<latest, history, clock>>

RemoveFeed(feed) ==
  /\ map.asset_of[feed] # NONE
  /\ map' = Detached(map, feed)
  /\ UNCHANGED <<latest, history, clock>>

\* A removal and an addition in one; when the addition fails nothing is removed.
UpdateFeed(mapping) ==
  /\ map.asset_of[mapping.feed] # NONE
  /\ Addable(Detached(map, mapping.feed), mapping)
  /\ map' = Inserted(Detached(map, mapping.feed), mapping)
  /\ UNCHANGED <<latest, history, clock>>

\* Ledgers close.
Tick ==
  /\ clock < MaxClock
  /\ clock' = clock + 1
  /\ UNCHANGED <<latest, history, map>>

Next ==
  \/ \E payload \in ProcessedPayloads, trusted \in BOOLEAN : WritePrices(payload, trusted)
  \/ \E mapping \in FeedMapping : AddFeed(mapping)
  \/ \E feed \in SepFeeds : RemoveFeed(feed)
  \/ \E mapping \in FeedMapping : UpdateFeed(mapping)
  \/ Tick

Spec == Init /\ [][Next]_vars

-----------------------------------------------------------------------------
(* redstone-sep-40: what anyone reads.  <<>> is None, <<x>> is Some(x).     *)

Scale(feed) ==
  IF FeedDecimals(map, feed) < map.max_decimals
  THEN 10 ^ (map.max_decimals - FeedDecimals(map, feed))
  ELSE 1

\* price_data_to_sep_40 answers None when the scaled price is no i128.
Convertible(feed, data) == data.price * Scale(feed) < I128

Converted(feed, data) ==
  [price |-> data.price * Scale(feed), timestamp |-> data.package_timestamp \div MS_IN_SEC]

\* lastprice; the adapter answers no price that was written too long ago.
LastPrice(asset) ==
  LET feed == map.feed_of[asset] IN
    IF /\ feed \in Feeds /\ latest[feed] # NoPrice
       /\ Now <= latest[feed].write_timestamp + DATA_STALENESS
       /\ Convertible(feed, latest[feed])
    THEN <<Converted(feed, latest[feed])>>
    ELSE << >>

\* Mutant of HistoryOf: the first entries.
OldestHistory(feed, records) ==
  SubSeq(history[feed], 1, IF Len(history[feed]) < records THEN Len(history[feed]) ELSE records)

\* read_price_history: the last entries.
HistoryOf(feed, records) ==
  LET n == Len(history[feed]) IN
    IF n > records THEN SubSeq(history[feed], n - records + 1, n) ELSE history[feed]

\* prices; << >> is also what a result without an entry becomes.
Prices(asset, records) ==
  LET feed == map.feed_of[asset]
      all == HistoryOf(feed, records)
      convertible == Keep(all, {i \in DOMAIN all : Convertible(feed, all[i])})
  IN IF feed \in Feeds
     THEN [i \in DOMAIN convertible |-> Converted(feed, convertible[i])]
     ELSE << >>

\* price: the first entry of the second asked for.
PriceAt(asset, second) ==
  LET feed == map.feed_of[asset]
      found == {i \in DOMAIN history[feed] :
                  history[feed][i].package_timestamp \div MS_IN_SEC = second}
  IN IF feed \in Feeds /\ found # {}
     THEN LET first == history[feed][CHOOSE i \in found : \A j \in found : i <= j] IN
            IF Convertible(feed, first) THEN <<Converted(feed, first)>> ELSE << >>
     ELSE << >>

-----------------------------------------------------------------------------
\* Safety.  However the owner adds, removes and updates feeds, the five entries of
\* the storage that make up the registry stay in step, and no price is ever
\* scaled down, because no registered feed has more than max_decimals.
FeedMapOK == AssetsListed(map) /\ MappedBothWays(map) /\ DecimalsBounded(map)

\* Safety.  The two places where the adapter keeps a feed agree: the history ends
\* with the latest price, and leads up to it in package and in write time.  A feed
\* that has only been written by the version without history has none.
HistoryInOrder ==
  \A feed \in Feeds :
    LET h == history[feed] IN
      /\ Len(h) <= HISTORY_LIMIT
      /\ h # << >> => latest[feed] = h[Len(h)]
      /\ \A i, j \in DOMAIN h : i < j =>
           /\ h[i].package_timestamp < h[j].package_timestamp
           /\ h[i].write_timestamp < h[j].write_timestamp

\* Safety.  The three ways to read an asset agree: the records asked for end with
\* the last price, and a last price that is alone in its second is the one that is
\* answered for that second.
ReadersAgree ==
  \A asset \in Assets, records \in 1 .. HISTORY_LIMIT :
    LET last == LastPrice(asset)
        recent == Prices(asset, records)
        h == history[map.feed_of[asset]]
    IN last # << >> /\ h # << >> =>
         /\ recent # << >> /\ recent[Len(recent)] = last[1]
         /\ \/ PriceAt(asset, last[1].timestamp) = last
            \/ \E i \in 1 .. Len(h) - 1 :
                 h[i].package_timestamp \div MS_IN_SEC = last[1].timestamp

\* latest, in the terms of PriceFeeds.
PublishedPrices ==
  [feed \in Feeds |->
     IF latest[feed] = NoPrice
     THEN NoPrice
     ELSE [value |-> latest[feed].price, timestamp |-> latest[feed].package_timestamp,
           write_timestamp |-> latest[feed].write_timestamp]]

PF == INSTANCE PriceFeeds WITH prices <- PublishedPrices, clock <- Now, vouched <- Feeds

\* The adapter implements what PriceFeeds promises.
ImplementsPriceFeeds == PF!Spec
=============================================================================
