------------------------- MODULE PayloadVerification -------------------------
(***************************************************************************)
(* sui-connector/sui/contracts/price_adapter/sources/redstone_sdk: what the *)
(* contract accepts as a payload for one feed and the value it takes out of *)
(* it.  A payload is the sequence of its data packages after parsing and     *)
(* signature recovery; a package names its signer, its timestamp and its    *)
(* data points.  Filters keep the positions of a sequence, so a filtered     *)
(* payload is written here as a set of positions.                           *)
(***************************************************************************)
EXTENDS Median, Sequences

CONSTANTS
  U64,      \* the largest u64: an addition beyond it aborts the transaction
  U256      \* 2^256: a longer value loses its high bytes in from_bytes_to_u256

ASSUME WidthAssumption == U64 \in Nat /\ U256 \in Nat \ {0}

Point(feeds, values) == [feed : feeds, value : values]

\* filter_packages_by_feed_id
WithFeed(payload, feed) ==
  {i \in DOMAIN payload :
     \E j \in DOMAIN payload[i].points : payload[i].points[j].feed = feed}

\* Mutant of FeedsDistinct: the check is forgotten.
FeedsUnchecked(payload, I) == TRUE

\* try_verify_feeds_in_data_packages: no feed twice in one package.
FeedsDistinct(payload, I) ==
  \A i \in I : \A j, k \in DOMAIN payload[i].points :
    payload[i].points[j].feed = payload[i].points[k].feed => j = k

\* filter_out_data_packages_with_zero_values: one zero, of any feed, drops the package.
WithoutZeros(payload, I) ==
  {i \in I : \A j \in DOMAIN payload[i].points : payload[i].points[j].value # 0}

\* verify_timestamps_are_the_same
TimestampsAgree(payload, I) ==
  /\ I # {}
  /\ \A i, j \in I : payload[i].timestamp = payload[j].timestamp

\* data_packages[0].timestamp()
Timestamp(payload, I) == payload[CHOOSE i \in I : \A j \in I : i <= j].timestamp

\* Mutant of TimestampSound: a package must be younger than the delay, not as old.
TimestampSoundStrict(timestamp, config, now) ==
  /\ timestamp + config.max_timestamp_delay_ms <= U64
  /\ timestamp + config.max_timestamp_delay_ms > now
  /\ now + config.max_timestamp_ahead_ms <= U64
  /\ timestamp <= now + config.max_timestamp_ahead_ms

\* Mutant of TimestampSound: only old packages are refused.
TimestampNotOld(timestamp, config, now) ==
  /\ timestamp + config.max_timestamp_delay_ms <= U64
  /\ timestamp + config.max_timestamp_delay_ms >= now

\* verify_timestamp, with the overflow of its sums.
TimestampSound(timestamp, config, now) ==
  /\ timestamp + config.max_timestamp_delay_ms <= U64
  /\ timestamp + config.max_timestamp_delay_ms >= now
  /\ now + config.max_timestamp_ahead_ms <= U64
  /\ timestamp <= now + config.max_timestamp_ahead_ms

\* verify_signer_count: each signer known and used once, and enough of them.
SignersSound(payload, I, config) ==
  /\ \A i \in I : payload[i].signer \in config.signers
  /\ \A i, j \in I : payload[i].signer = payload[j].signer => i = j
  /\ Cardinality(I) >= config.signer_count_threshold

\* The data points of a feed, as pairs of positions, and their numbers.
PointsOf(payload, I, feed) ==
  UNION {{<<i, j>> : j \in {k \in DOMAIN payload[i].points :
                              payload[i].points[k].feed = feed}} : i \in I}

NumbersOf(payload, D) ==
  [d \in D |-> payload[d[1]].points[d[2]].value % U256]

\* The packages of a payload that count for a feed.
Relevant(payload, feed) == WithoutZeros(payload, WithFeed(payload, feed))

\* try_process_payload gives a value.
PayloadSound(payload, feed, config, now) ==
  /\ FeedsDistinct(payload, WithFeed(payload, feed))
  /\ TimestampsAgree(payload, Relevant(payload, feed))
  /\ TimestampSound(Timestamp(payload, Relevant(payload, feed)), config, now)
  /\ SignersSound(payload, Relevant(payload, feed), config)

\* The value and the timestamp of the ParsedPayload.
PayloadTimestamp(payload, feed) == Timestamp(payload, Relevant(payload, feed))
PayloadValue(payload, feed) ==
  LET D == PointsOf(payload, Relevant(payload, feed), feed) IN
    Median(D, NumbersOf(payload, D))
=============================================================================
