---------------------------- MODULE FeedAdapters ----------------------------
(***************************************************************************)
(* The adapters that keep every feed on its own: radix-connector/.../       *)
(* price_adapter.rs, solana-connector/.../write_price.rs, stylus-connector/ *)
(* .../price-adapter/src/lib.rs and move-connector/.../price_adapter.move.  *)
(* One transaction writes any number of feeds, or none when one is refused. *)
(***************************************************************************)
EXTENDS ChainPayloads

CONSTANT NoPrice

VARIABLES
  prices,                   \* NoPrice where a feed has no entry
  repeated                  \* no variable of a contract: the feeds whose price was taken
                            \* on Aptos from several values of one faulty signer

PriceData == [value : Nat, timestamp : Nat, write_timestamp : Nat]

ASSUME FeedAssumption == NoPrice \notin PriceData

PackageTimestamp(feed) == IF prices[feed] = NoPrice THEN 0 ELSE prices[feed].timestamp

\* The feeds become values at timestamp; the transaction runs at now.
FeedsWritten(feeds, values, timestamp, now) ==
  prices' = [feed \in Feeds |->
    IF feed \in feeds
    THEN [value |-> values[feed], timestamp |-> timestamp, write_timestamp |-> now]
    ELSE prices[feed]]

\* process_payload_and_write: a feed without an entry is not verified.
RadixWritePrices(feeds, trusted) ==
  \E p \in Processed(feeds) :
    /\ \A feed \in feeds : prices[feed] # NoPrice =>
         UpdateSound(prices[feed].write_timestamp, prices[feed].timestamp, Now, p.timestamp, trusted)
    /\ FeedsWritten(feeds, p.values, p.timestamp, Now)
    /\ UNCHANGED repeated

\* write_price; a new account holds the timestamp 0 and no time of a write.
SolanaWritePrice(feed, trusted) ==
  \E p \in Processed({feed}) :
    /\ PackageTimestamp(feed) < p.timestamp
    /\ prices[feed] # NoPrice =>
         UpdateSound(prices[feed].write_timestamp, PackageTimestamp(feed), Now, p.timestamp, trusted)
    /\ FeedsWritten({feed}, p.values, p.timestamp, Now)
    /\ UNCHANGED repeated

\* write_new_price: the block's timestamp, in seconds, is what the interval, in
\* milliseconds, is added to and compared with, and what is stored.
StylusUpdateSound(feed, timestamp, trusted) ==
  /\ PackageTimestamp(feed) < timestamp
  /\ prices[feed] # NoPrice =>
       UpdateSound(prices[feed].write_timestamp, PackageTimestamp(feed), clock, timestamp, trusted)

\* write_prices
StylusWritePrices(feeds, trusted) ==
  \E p \in Processed(feeds) :
    /\ \A feed \in feeds : StylusUpdateSound(feed, p.timestamp, trusted)
    /\ FeedsWritten(feeds, p.values, p.timestamp, clock)
    /\ UNCHANGED repeated

\* Mutant of AptosUpdateTime: time may stand still for a trusted updater.
AptosUpdateTimeLax(feed, trusted) ==
  prices[feed] # NoPrice =>
    IF trusted
    THEN prices[feed].write_timestamp <= Now
    ELSE prices[feed].write_timestamp + config.min_interval_between_updates_ms < Now

\* assert_update_time, for a feed that has an entry.
AptosUpdateTime(feed, trusted) ==
  prices[feed] # NoPrice =>
    IF trusted
    THEN prices[feed].write_timestamp < Now
    ELSE prices[feed].write_timestamp + config.min_interval_between_updates_ms < Now

\* write_new_prices; overwrite_price aborts the transaction for an old timestamp.
AptosWritePrices(feeds, payload, trusted) ==
  /\ AptosPayloadSound(payload, feeds)
  /\ LET timestamp == Timestamp(payload, WithFeed(payload, CHOOSE feed \in feeds : TRUE)) IN
       /\ \A feed \in feeds :
            AptosUpdateTime(feed, trusted) /\ timestamp > PackageTimestamp(feed)
       /\ FeedsWritten(feeds, [feed \in feeds |-> AptosValue(payload, feed)], timestamp, Now)
  /\ repeated' = (repeated \ feeds) \cup {feed \in feeds : RepeatedIn(payload, feed)}

FeedAdapterInit ==
  /\ prices = [feed \in Feeds |-> NoPrice]
  /\ repeated = {}

FeedAdapterNext ==
  \E feeds \in (SUBSET Feeds) \ {{}}, trusted \in BOOLEAN :
    \/ chain = "radix" /\ RadixWritePrices(feeds, trusted)
    \/ chain = "solana" /\ \E feed \in feeds : feeds = {feed} /\ SolanaWritePrice(feed, trusted)
    \/ chain = "stylus" /\ StylusWritePrices(feeds, trusted)
    \/ chain = "aptos" /\ \E payload \in Payloads : AptosWritePrices(feeds, payload, trusted)

\* The time of writes in the terms of PriceFeeds.
WriteClock == IF chain = "stylus" THEN clock ELSE Now

PF == INSTANCE PriceFeeds WITH clock <- WriteClock, vouched <- Feeds \ repeated
=============================================================================
