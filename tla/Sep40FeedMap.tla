---------------------------- MODULE Sep40FeedMap ----------------------------
(***************************************************************************)
(* stellar-connector/stellar/contracts/redstone-sep-40/src/feed_map.rs:     *)
(* which asset of the SEP-40 interface stands for which RedStone feed, kept *)
(* in five places of the storage that every change has to keep in step.     *)
(* A map is a record of them; NONE is an entry that is not there.           *)
(***************************************************************************)
EXTENDS Integers, Sequences

CONSTANTS
  SepFeeds,   \* what may be registered as a feed
  Assets,
  Decimals,   \* decimals that a mapping may name
  DECIMALS,   \* those of a mapping that names none
  NONE

\* Decimals are u32; a map's max_decimals is read together with DECIMALS.
ASSUME DecimalsAssumption == Decimals \subseteq Nat /\ DECIMALS \in Nat

ASSUME NoneAssumption == NONE \notin SepFeeds /\ NONE \notin Assets /\ NONE \notin Nat

FeedMapping == [feed : SepFeeds, asset : Assets, decimals : Decimals \cup {NONE}]

\* assets: StorageKey::Assets; asset_of: FeedToAsset; feed_of: AssetToFeed;
\* decimals: FeedDecimals; max_decimals: MaxDecimals.
FeedMap ==
  [assets : Seq(Assets),
   asset_of : [SepFeeds -> Assets \cup {NONE}],
   feed_of : [Assets -> SepFeeds \cup {NONE}],
   decimals : [SepFeeds -> Nat \cup {NONE}],
   max_decimals : Nat]

\* What the getters answer when nothing is stored.
EmptyMap ==
  [assets |-> << >>,
   asset_of |-> [feed \in SepFeeds |-> NONE],
   feed_of |-> [asset \in Assets |-> NONE],
   decimals |-> [feed \in SepFeeds |-> NONE],
   max_decimals |-> DECIMALS]

FeedDecimals(map, feed) ==
  IF map.decimals[feed] = NONE THEN DECIMALS ELSE map.decimals[feed]

Greater(m, n) == IF m < n THEN n ELSE m

-----------------------------------------------------------------------------
\* add refuses a feed, and insert an asset, that the map has already.
Addable(map, mapping) ==
  /\ map.asset_of[mapping.feed] = NONE
  /\ map.feed_of[mapping.asset] = NONE

\* insert.
Inserted(map, mapping) ==
  LET d == IF mapping.decimals = NONE THEN DECIMALS ELSE mapping.decimals IN
    [assets |-> Append(map.assets, mapping.asset),
     asset_of |-> [map.asset_of EXCEPT ![mapping.feed] = mapping.asset],
     feed_of |-> [map.feed_of EXCEPT ![mapping.asset] = mapping.feed],
     decimals |-> [map.decimals EXCEPT ![mapping.feed] = d],
     max_decimals |-> Greater(map.max_decimals, d)]

\* The assets without the first occurrence of one of them.
Without(assets, asset) ==
  IF \E i \in DOMAIN assets : assets[i] = asset
  THEN LET i == CHOOSE i \in DOMAIN assets :
                  /\ assets[i] = asset
                  /\ \A j \in DOMAIN assets : assets[j] = asset => i <= j
       IN SubSeq(assets, 1, i - 1) \o SubSeq(assets, i + 1, Len(assets))
  ELSE assets

\* Mutant of RecomputedMax: the maximum starts from nothing, not from 0.
RecomputedMaxOfAll(map) ==
  LET all == {FeedDecimals(map, map.feed_of[map.assets[i]]) : i \in DOMAIN map.assets}
  IN IF all = {} THEN NONE ELSE CHOOSE max \in all : \A d \in all : d <= max

\* recompute_max_decimals: 0 when nothing is left.
RecomputedMax(map) ==
  LET all == {0} \cup {FeedDecimals(map, map.feed_of[map.assets[i]]) :
                         i \in {j \in DOMAIN map.assets : map.feed_of[map.assets[j]] # NONE}}
  IN CHOOSE max \in all : \A d \in all : d <= max

\* The map without a feed and its asset.
Unmapped(map, feed) ==
  LET asset == map.asset_of[feed] IN
    [assets |-> Without(map.assets, asset),
     asset_of |-> [map.asset_of EXCEPT ![feed] = NONE],
     feed_of |-> [map.feed_of EXCEPT ![asset] = NONE],
     decimals |-> [map.decimals EXCEPT ![feed] = NONE],
     max_decimals |-> map.max_decimals]

\* detach.
Detached(map, feed) ==
  LET rest == Unmapped(map, feed) IN
    IF FeedDecimals(map, feed) = map.max_decimals
    THEN [rest EXCEPT !.max_decimals = RecomputedMax(rest)]
    ELSE rest

-----------------------------------------------------------------------------
\* The assets are listed once each, and are those that are mapped.
AssetsListed(map) ==
  /\ \A i, j \in DOMAIN map.assets : map.assets[i] = map.assets[j] => i = j
  /\ \A asset \in Assets :
       map.feed_of[asset] # NONE <=> \E i \in DOMAIN map.assets : map.assets[i] = asset

\* The two directions are inverse of each other.
MappedBothWays(map) ==
  \A feed \in SepFeeds, asset \in Assets :
    map.asset_of[feed] = asset <=> map.feed_of[asset] = feed

\* Decimals are stored for the mapped feeds, max_decimals bounds them, and more
\* than DECIMALS are in use only when some mapped feed has that many.
DecimalsBounded(map) ==
  /\ \A feed \in SepFeeds : map.asset_of[feed] # NONE <=> map.decimals[feed] # NONE
  /\ \A feed \in SepFeeds : map.decimals[feed] # NONE => map.decimals[feed] <= map.max_decimals
  /\ map.max_decimals > DECIMALS =>
       \E feed \in SepFeeds : map.decimals[feed] = map.max_decimals
=============================================================================
