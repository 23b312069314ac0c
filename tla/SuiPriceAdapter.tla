--------------------------- MODULE SuiPriceAdapter ---------------------------
(***************************************************************************)
(* sui-connector/sui/contracts/price_adapter/sources/price_adapter.move:    *)
(* the shared object that keeps the last price of every feed.               *)
(*                                                                         *)
(* A transaction is atomic, and the calls in one transaction see one clock. *)
(* A call that aborts, or returns an error Result before it has touched the *)
(* table, changes nothing and is no step.                                   *)
(***************************************************************************)
EXTENDS PayloadVerification

CONSTANTS
  Feeds, Senders,
  Signers, Faulty,    \* signers, and those who may sign anything
  Times, MaxTime,     \* package timestamps, and the bound on the clock
  Payloads,           \* the payloads that updaters submit
  Configs,            \* the configurations the admin sets
  Quote,              \* Quote[feed][timestamp]: the values honest signers signed
  Tables,             \* what the first version of the package may have left in the table
  NoPrice

VARIABLES
  prices,     \* the table; NoPrice where it has no entry
  config,
  version,
  clock       \* clock.timestamp_ms()

vars == <<prices, config, version, clock>>

VERSION == 2

Package ==
  [signer : Signers, timestamp : Times, points : Seq(Point(Feeds, Nat))]

PriceData == [value : Nat, timestamp : Nat, write_timestamp : Nat]

ConfigType ==
  [signers : SUBSET Signers, signer_count_threshold : Nat,
   max_timestamp_delay_ms : Nat, max_timestamp_ahead_ms : Nat,
   trusted_updaters : SUBSET Senders, min_interval_between_updates_ms : Nat]

\* Honest signers sign no price for the epoch itself, and none of u256's width.
ASSUME DomainAssumption ==
  /\ Times \subseteq Nat /\ MaxTime \in Nat
  /\ IsFiniteSet(Signers)
  /\ Quote \in [Feeds -> [Times -> SUBSET (1 .. U256 - 1)]]
  /\ \A feed \in Feeds, t \in Times : Quote[feed][t] # {} => t > 0
  /\ NoPrice \notin PriceData

ASSUME ConfigAssumption == Configs \subseteq ConfigType

\* Signatures cannot be forged: what a payload says an honest signer signed, it signed.
ASSUME PayloadAssumption ==
  \A payload \in Payloads :
    /\ payload \in Seq(Package)
    /\ \A i \in DOMAIN payload : payload[i].signer \notin Faulty =>
         \A j \in DOMAIN payload[i].points :
           LET point == payload[i].points[j] IN
             \/ point.value = 0
             \/ point.value \in Quote[point.feed][payload[i].timestamp]

\* An admin never leaves faulty signers half of a threshold.
ASSUME FaultAssumption ==
  \A c \in Configs : 2 * Cardinality(Faulty \cap c.signers) < c.signer_count_threshold

\* redstone_sdk_config::check; that signers are distinct is the type of the field.
CheckConfig(c) ==
  /\ Cardinality(c.signers) >= c.signer_count_threshold
  /\ c.signer_count_threshold > 0

DefaultPriceData == [value |-> 0, timestamp |-> 0, write_timestamp |-> 0]

TypeOK ==
  /\ prices \in [Feeds -> PriceData \cup {NoPrice}]
  /\ config \in Configs
  /\ version \in {1, VERSION}
  /\ clock \in Nat

\* The first version of the package wrote prices as this one does, before the clock's 0.
ASSUME TableAssumption ==
  \A table \in Tables :
    /\ table \in [Feeds -> PriceData \cup {NoPrice}]
    /\ \A feed \in Feeds : table[feed] # NoPrice =>
         /\ table[feed].write_timestamp = 0
         /\ \E c \in Configs : table[feed].timestamp <= c.max_timestamp_ahead_ms
         /\ \E lo, hi \in Quote[feed][table[feed].timestamp] :
              lo <= table[feed].value /\ table[feed].value <= hi

\* A new object is empty; one of the first version has prices and waits for its migration.
Init ==
  /\ \/ version = VERSION /\ prices = [feed \in Feeds |-> NoPrice]
     \/ version = 1 /\ prices \in Tables
  /\ config \in {c \in Configs : CheckConfig(c)}
  /\ clock = 0

-----------------------------------------------------------------------------
Interval(sender) ==
  IF sender \in config.trusted_updaters
  THEN 1
  ELSE config.min_interval_between_updates_ms + 1

\* is_update_time_sound, for a feed that has an entry.
UpdateTimeSound(feed, sender) ==
  prices[feed] # NoPrice =>
    /\ prices[feed].write_timestamp + Interval(sender) <= U64
    /\ prices[feed].write_timestamp + Interval(sender) <= clock

\* Mutant of Overwritten: a package of the same time is written again.
OverwrittenBySame(feed, value, timestamp) ==
  LET old == IF prices[feed] = NoPrice THEN DefaultPriceData ELSE prices[feed] IN
    IF timestamp < old.timestamp
    THEN old
    ELSE [value |-> value, timestamp |-> timestamp, write_timestamp |-> clock]

\* overwrite_price: what the entry of a feed becomes.  The default entry that
\* get_or_create_default adds stays in the table when the timestamp is refused.
Overwritten(feed, value, timestamp) ==
  LET old == IF prices[feed] = NoPrice THEN DefaultPriceData ELSE prices[feed] IN
    IF timestamp <= old.timestamp
    THEN old
    ELSE [value |-> value, timestamp |-> timestamp, write_timestamp |-> clock]

\* write_price and try_write_price.
WritePrice(feed, payload, sender) ==
  /\ version = VERSION
  /\ UpdateTimeSound(feed, sender)
  /\ PayloadSound(payload, feed, config, clock)
  /\ prices' = [prices EXCEPT ![feed] =
       Overwritten(feed, PayloadValue(payload, feed), PayloadTimestamp(payload, feed))]
  /\ UNCHANGED <<config, version, clock>>

\* update_config; a field whose option is none keeps the value config has.
UpdateConfig(new) ==
  /\ version = VERSION
  /\ CheckConfig(new)
  /\ config' = new
  /\ UNCHANGED <<prices, version, clock>>

\* Mutant of MigrateToVersion2: the version is bumped unconditionally.
MigrateAgain ==
  /\ version' = version + 1
  /\ UNCHANGED <<prices, config, clock>>

MigrateToVersion2 ==
  /\ version = 1
  /\ version' = VERSION
  /\ UNCHANGED <<prices, config, clock>>

\* The chain's clock moves on.
Tick ==
  /\ clock < MaxTime
  /\ clock' = clock + 1
  /\ UNCHANGED <<prices, config, version>>

Next ==
  \/ \E feed \in Feeds, payload \in Payloads, sender \in Senders :
       WritePrice(feed, payload, sender)
  \/ \E new \in Configs : UpdateConfig(new)
  \/ MigrateToVersion2
  \/ Tick

Spec == Init /\ [][Next]_vars

-----------------------------------------------------------------------------
\* Safety.  Every price in the table has honest values, signed for its feed and
\* its timestamp, on both sides: no minority of signers, however it repeats
\* packages, feeds or zeros, moves a median out of what honest nodes reported.
HonestPrices ==
  \A feed \in Feeds : prices[feed] # NoPrice =>
    \E lo, hi \in Quote[feed][prices[feed].timestamp] :
      lo <= prices[feed].value /\ prices[feed].value <= hi

\* Safety.  A price is never so far ahead of the clock that the timestamps honest
\* nodes sign later on could not overtake it (overwrite_price refuses older ones).
NeverLockedOut ==
  \A feed \in Feeds : prices[feed] # NoPrice =>
    \E c \in Configs : prices[feed].timestamp <= clock + c.max_timestamp_ahead_ms

\* The packages of a payload are of distinct honest configured signers, at the
\* clock's time, with no feed twice, and enough of them report a value of feed.
FreshQuorum(payload, feed) ==
  /\ \A i \in DOMAIN payload :
       /\ payload[i].timestamp = clock
       /\ payload[i].signer \in config.signers \ Faulty
       /\ \A j \in DOMAIN payload :
            payload[i].signer = payload[j].signer => i = j
       /\ \A j, k \in DOMAIN payload[i].points :
            payload[i].points[j].feed = payload[i].points[k].feed => j = k
  /\ Cardinality({i \in DOMAIN payload :
       /\ \E j \in DOMAIN payload[i].points : payload[i].points[j].feed = feed
       /\ \A j \in DOMAIN payload[i].points : payload[i].points[j].value # 0})
     >= config.signer_count_threshold

\* Safety.  What a quorum of honest signers signs for the current time is never
\* refused: not for a zero that another package holds, nor for the other feeds of
\* its packages.  The sums of verify_timestamp must not overflow.
FreshQuorumAccepted ==
  \A payload \in Payloads, feed \in Feeds :
    /\ FreshQuorum(payload, feed)
    /\ clock + config.max_timestamp_delay_ms <= U64
    /\ clock + config.max_timestamp_ahead_ms <= U64
    => PayloadSound(payload, feed, config, clock)

PF == INSTANCE PriceFeeds WITH vouched <- Feeds

\* The adapter implements what PriceFeeds promises: only later prices replace a
\* price, stamped with the time of the write, and all are honest.
ImplementsPriceFeeds == PF!Spec
=============================================================================
