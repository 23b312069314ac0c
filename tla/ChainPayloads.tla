---------------------------- MODULE ChainPayloads ----------------------------
(***************************************************************************)
(* What the price adapters of the other chains take for a valid payload,    *)
(* and the values they take out of it.  The contracts on Aptos, Starknet    *)
(* and TON carry their own processor; those on Radix, Solana, Stylus,       *)
(* Casper and Fuel leave it to a library outside this repository, which is  *)
(* represented by what it may return.                                      *)
(*                                                                         *)
(* A payload is a sequence of data packages as in PayloadVerification.      *)
(* Ledgers keep time in seconds, data packages in milliseconds.            *)
(***************************************************************************)
EXTENDS PayloadVerification

CONSTANTS
  Feeds, Signers, Faulty,
  Times,                    \* package timestamps
  Payloads,
  config,                   \* thresholds and windows (ms), the same on all chains
  MAX_DATA_TIMESTAMP_DELAY_SECONDS,
  StarknetAhead, TonAhead,  \* MAX_DATA_TIMESTAMP_AHEAD_SECONDS of either
  Quote,                    \* Quote[feed][timestamp]: the values honest signers signed
  MS_IN_SEC

VARIABLES
  chain,                    \* the chain whose contract runs
  clock                     \* the ledger's time, in seconds

Now == clock * MS_IN_SEC

Package == [signer : Signers, timestamp : Times, points : Seq(Point(Feeds, Nat))]

Config ==
  [signers : SUBSET Signers, signer_count_threshold : Nat \ {0},
   max_timestamp_delay_ms : Nat, max_timestamp_ahead_ms : Nat,
   min_interval_between_updates_ms : Nat]

\* Honest nodes sign what they observed, never for the epoch itself, and the faulty ones
\* among the configured signers are less than half a threshold.  Any node may have a feed
\* several times in a package.
ASSUME ChainAssumption ==
  /\ Times \subseteq Nat /\ MS_IN_SEC \in Nat \ {0}
  /\ IsFiniteSet(Signers) /\ Faulty \subseteq Signers
  /\ config \in Config
  /\ 2 * Cardinality(Faulty \cap config.signers) < config.signer_count_threshold
  /\ MAX_DATA_TIMESTAMP_DELAY_SECONDS \in Nat /\ StarknetAhead \in Nat /\ TonAhead \in Nat
  /\ Quote \in [Feeds -> [Times -> SUBSET (1 .. U256 - 1)]]
  /\ \A feed \in Feeds, t \in Times : Quote[feed][t] # {} => t > 0
  /\ Payloads \subseteq Seq(Package)
  /\ \A payload \in Payloads : \A i \in DOMAIN payload :
       payload[i].signer \notin Faulty =>
         \A j \in DOMAIN payload[i].points :
           LET point == payload[i].points[j] IN
             point.value \in Quote[point.feed][payload[i].timestamp]

\* The timestamps that TimestampSound admits now.
Timely == {t \in Times : TimestampSound(t, config, Now)}

Least(S) == CHOOSE x \in S : \A y \in S : x <= y

\* Positions of points: a later package, or later in the same package.
LastPosition(D) ==
  CHOOSE d \in D : \A e \in D : e[1] < d[1] \/ (e[1] = d[1] /\ e[2] <= d[2])

-----------------------------------------------------------------------------
(* The library on Radix, Solana, Stylus, Casper and Fuel                    *)

\* process_payload: a timely timestamp and a value for each of the feeds, with
\* honest values on both sides.
Processed(feeds) ==
  {p \in [timestamp : Timely, values : [feeds -> UNION {Quote[f][t] : f \in feeds, t \in Timely}]] :
     \A feed \in feeds : p.values[feed] \in Quote[feed][p.timestamp]}

\* UpdateTimestampVerifier::verify_timestamp and verify_update, for the time of the
\* last write of a feed, the timestamp it holds and those of the update.
UpdateSound(write_timestamp, package_timestamp, now, timestamp, trusted) ==
  /\ package_timestamp < timestamp
  /\ write_timestamp + (IF trusted THEN 0 ELSE config.min_interval_between_updates_ms) < now

-----------------------------------------------------------------------------
(* Aptos: redstone_sdk/sources/payload.move and validate.move              *)

\* verify_data_packages
DataPackagesVerified(payload, I) ==
  /\ TimestampsAgree(payload, I)
  /\ TimestampSound(Timestamp(payload, I), config, Now)
  /\ SignersSound(payload, I, config)

\* process_payload; the timestamps of the feeds are compared at the end.
AptosPayloadSound(payload, feeds) ==
  /\ feeds # {}
  /\ \A feed \in feeds : DataPackagesVerified(payload, WithFeed(payload, feed))
  /\ \A f, g \in feeds :
       Timestamp(payload, WithFeed(payload, f)) = Timestamp(payload, WithFeed(payload, g))

\* extract_values_by_feed_id, which takes every point of a package, and calculate_median.
AptosValue(payload, feed) ==
  LET D == PointsOf(payload, WithFeed(payload, feed), feed) IN
    Median(D, [d \in D |-> payload[d[1]].points[d[2]].value])

\* extract_values_by_feed_id takes several values of the feed from a faulty signer.
RepeatedIn(payload, feed) ==
  \E i \in DOMAIN payload : \E j, k \in DOMAIN payload[i].points :
    /\ payload[i].signer \in Faulty /\ j # k
    /\ payload[i].points[j].feed = feed /\ payload[i].points[k].feed = feed

-----------------------------------------------------------------------------
(* Starknet: cairo/redstone/src                                            *)

\* validate_timestamp, of every package as it is parsed, in seconds.
StarknetTimely(payload) ==
  \A i \in DOMAIN payload :
    payload[i].timestamp \div MS_IN_SEC \in
      clock - MAX_DATA_TIMESTAMP_DELAY_SECONDS .. clock + StarknetAhead

\* make_values_dict: one slot per feed and known signer, which keeps the last value.
Slot(payload, feed, signer) ==
  {d \in PointsOf(payload, DOMAIN payload, feed) : payload[d[1]].signer = signer}

Row(payload, feed) ==
  [signer \in {s \in config.signers : Slot(payload, feed, s) # {}} |->
     LET d == LastPosition(Slot(payload, feed, signer)) IN payload[d[1]].points[d[2]].value]

\* make_values_matrix
StarknetPayloadSound(payload, feeds) ==
  /\ StarknetTimely(payload)
  /\ \A feed \in feeds :
       Cardinality(DOMAIN Row(payload, feed)) >= config.signer_count_threshold

StarknetValue(payload, feed) ==
  Median(DOMAIN Row(payload, feed), Row(payload, feed))

\* get_min_timestamp, over all the packages, whoever signed them.
StarknetTimestamp(payload) == Least({payload[i].timestamp : i \in DOMAIN payload})

-----------------------------------------------------------------------------
(* TON: contracts/redstone, whose packages hold one data point each        *)

\* The packages that get a place in the matrix.
TonPlaced(payload, feeds) ==
  {i \in DOMAIN payload : payload[i].signer \in config.signers
                          /\ payload[i].points[1].feed \in feeds}

\* validate_timestamp
TonTimely(payload) ==
  \A i \in DOMAIN payload :
    payload[i].timestamp \div MS_IN_SEC \in
      clock - MAX_DATA_TIMESTAMP_DELAY_SECONDS .. clock + TonAhead

TonPayloads == {payload \in Payloads : \A i \in DOMAIN payload : Len(payload[i].points) = 1}

\* process_payload and make_matrix, whose rows keep the last value of a signer, too.
TonPayloadSound(payload, feeds) ==
  /\ TonTimely(payload)
  /\ \A feed \in feeds :
       Cardinality(DOMAIN Row(payload, feed)) >= config.signer_count_threshold

TonValue(payload, feed) ==
  Median(DOMAIN Row(payload, feed), Row(payload, feed))

\* min_timestamp, over the packages that were placed only.
TonTimestamp(payload, feeds) ==
  Least({payload[i].timestamp : i \in TonPlaced(payload, feeds)})
=============================================================================
