------------------------- MODULE StellarOracleProofs -------------------------
(***************************************************************************)
(* Theorems about StellarOracle, for any feeds, assets, decimals, limits    *)
(* and schedules.                                                          *)
(***************************************************************************)
EXTENDS StellarOracle, FiniteLemmas

-----------------------------------------------------------------------------
(* The list of assets.                                                      *)

\* Taking the first occurrence out of a list without duplicates takes the element out.
LEMMA WithoutHolds ==
  ASSUME NEW S, NEW s \in Seq(S), NEW x, NoDuplicates(s)
  PROVE  /\ Without(s, x) \in Seq(S)
         /\ NoDuplicates(Without(s, x))
         /\ \A y : Holds(Without(s, x), y) <=> Holds(s, y) /\ y # x
<1>1. CASE ~ \E i \in DOMAIN s : s[i] = x
  BY <1>1 DEF Without, Holds
<1>2. CASE \E i \in DOMAIN s : s[i] = x
  <2> DEFINE First(i) == s[i] = x /\ \A j \in DOMAIN s : s[j] = x => i <= j
             k == CHOOSE i \in DOMAIN s : First(i)
             a == SubSeq(s, 1, k - 1)
             b == SubSeq(s, k + 1, Len(s))
             t == a \o b
  <2>1. Len(s) \in Nat /\ DOMAIN s = 1 .. Len(s) /\ \A i \in 1 .. Len(s) : s[i] \in S
    BY LenProperties, ElementOfSeq
  <2>2. PICK i \in DOMAIN s : s[i] = x
    BY <1>2
  <2>3. First(i)
    BY <2>1, <2>2 DEF NoDuplicates
  <2>4. k \in DOMAIN s /\ s[k] = x
    BY <2>3
  <2>5. Without(s, x) = t
    BY <1>2 DEF Without
  <2> HIDE DEF k, First
  <2>6. k \in Nat /\ Len(s) \in Nat /\ 1 <= k /\ k <= Len(s)
    BY <2>1, <2>4
  <2>7. /\ a \in Seq(S) /\ Len(a) = k - 1 /\ \A j \in 1 .. k - 1 : a[j] = s[j]
    <3>1. \A j \in 1 .. k - 1 : s[j] \in S /\ j = 1 + j - 1
      BY <2>1, <2>6
    <3> QED BY <2>6, <3>1, SubSeqProperties
  <2>8. /\ b \in Seq(S) /\ Len(b) = Len(s) - k
        /\ \A j \in 1 .. Len(s) - k : b[j] = s[k + j]
    <3>1. \A j \in k + 1 .. Len(s) : s[j] \in S
      BY <2>1, <2>6
    <3>2. /\ b \in Seq(S)
          /\ Len(b) = IF k + 1 <= Len(s) THEN Len(s) - (k + 1) + 1 ELSE 0
          /\ \A j \in 1 .. Len(s) - (k + 1) + 1 : b[j] = s[(k + 1) + j - 1]
      BY <2>1, <2>6, <3>1, SubSeqProperties
    <3> HIDE DEF b
    <3>3. \A j \in 1 .. Len(s) - k : (k + 1) + j - 1 = k + j /\ j \in 1 .. Len(s) - (k + 1) + 1
      BY <2>1, <2>6
    <3>4. Len(b) = Len(s) - k
      <4>1. CASE k + 1 <= Len(s)
        <5>1. Len(b) = Len(s) - (k + 1) + 1
          BY <3>2, <4>1
        <5> QED BY <2>6, <5>1
      <4>2. CASE ~ (k + 1 <= Len(s))
        <5>1. Len(b) = 0
          BY <3>2, <4>2
        <5>2. k = Len(s)
          BY <2>6, <4>2
        <5> QED BY <2>6, <5>1, <5>2
      <4> QED BY <4>1, <4>2
    <3>5. ASSUME NEW j \in 1 .. Len(s) - k PROVE b[j] = s[k + j]
      <4>1. b[j] = s[(k + 1) + j - 1]
        BY <3>2, <3>3
      <4>2. (k + 1) + j - 1 = k + j
        BY <3>3
      <4> QED BY <4>1, <4>2
    <3> QED BY <3>2, <3>4, <3>5
  <2> HIDE DEF a, b
  <2>9. /\ t \in Seq(S) /\ Len(t) = Len(s) - 1
        /\ \A j \in 1 .. Len(s) - 1 : t[j] = IF j <= k - 1 THEN a[j] ELSE b[j - (k - 1)]
    <3>1. Len(a) + Len(b) = Len(s) - 1
      BY <2>1, <2>6, <2>7, <2>8
    <3>2. /\ t \in Seq(S) /\ Len(t) = Len(a) + Len(b)
          /\ \A j \in 1 .. Len(a) + Len(b) : t[j] = IF j <= Len(a) THEN a[j] ELSE b[j - Len(a)]
      BY <2>7, <2>8, ConcatProperties
    <3> QED BY <2>7, <3>1, <3>2
  <2>10. DOMAIN t = 1 .. Len(s) - 1
    BY <2>9, LenProperties
  <2> HIDE DEF t
  <2>11. \A j \in DOMAIN t : t[j] = s[IF j < k THEN j ELSE j + 1]
    <3> TAKE j \in DOMAIN t
    <3>1. j \in Nat /\ 1 <= j /\ j <= Len(s) - 1
      BY <2>1, <2>10
    <3>2. CASE j < k
      <4>1. j \in 1 .. k - 1 /\ j <= k - 1
        BY <2>6, <3>1, <3>2
      <4> QED BY <2>7, <2>9, <2>10, <3>2, <4>1
    <3>3. CASE ~ (j < k)
      <4>1. ~ (j <= k - 1) /\ j - (k - 1) \in 1 .. Len(s) - k /\ k + (j - (k - 1)) = j + 1
        BY <2>1, <2>6, <3>1, <3>3
      <4> QED BY <2>8, <2>9, <2>10, <3>3, <4>1
    <3> QED BY <3>2, <3>3
  <2>12. \A j \in DOMAIN t : LET i2 == IF j < k THEN j ELSE j + 1 IN i2 \in DOMAIN s /\ i2 # k
    BY <2>1, <2>6, <2>10
  <2>13. \A l \in DOMAIN s : l # k =>
           \E j \in DOMAIN t : l = IF j < k THEN j ELSE j + 1
    <3> TAKE l \in DOMAIN s
    <3> HAVE l # k
    <3>1. CASE l < k
      <4>1. l \in DOMAIN t
        BY <2>1, <2>6, <2>10, <3>1
      <4> QED BY <3>1, <4>1
    <3>2. CASE l > k
      <4>1. l - 1 \in DOMAIN t /\ ~ (l - 1 < k) /\ l = (l - 1) + 1
        BY <2>1, <2>6, <2>10, <3>2
      <4> QED BY <4>1
    <3> QED BY <2>1, <2>6, <3>1, <3>2
  <2>14. NoDuplicates(t)
    <3> SUFFICES ASSUME NEW j \in DOMAIN t, NEW l \in DOMAIN t, t[j] = t[l] PROVE j = l
      BY DEF NoDuplicates
    <3>1. (IF j < k THEN j ELSE j + 1) = (IF l < k THEN l ELSE l + 1)
      BY <2>11, <2>12 DEF NoDuplicates
    <3>2. j \in Nat /\ l \in Nat
      BY <2>1, <2>10
    <3> QED BY <2>6, <3>1, <3>2
  <2>15. \A y : Holds(t, y) <=> Holds(s, y) /\ y # x
    <3> TAKE y
    <3>1. ASSUME Holds(t, y) PROVE Holds(s, y) /\ y # x
      <4>1. PICK j \in DOMAIN t : t[j] = y
        BY <3>1 DEF Holds
      <4>2. PICK l \in DOMAIN s : l # k /\ s[l] = y
        BY <2>11, <2>12, <4>1
      <4> QED BY <2>4, <4>2 DEF Holds, NoDuplicates
    <3>2. ASSUME Holds(s, y), y # x PROVE Holds(t, y)
      <4>1. PICK l \in DOMAIN s : s[l] = y
        BY <3>2 DEF Holds
      <4>2. l # k
        BY <2>4, <3>2, <4>1
      <4>3. PICK j \in DOMAIN t : l = IF j < k THEN j ELSE j + 1
        BY <2>13, <4>2
      <4> QED BY <2>11, <4>1, <4>3 DEF Holds
    <3> QED BY <3>1, <3>2
  <2> QED BY <2>5, <2>9, <2>14, <2>15
<1> QED BY <1>1, <1>2

-----------------------------------------------------------------------------
(* The feed map.                                                            *)

MapOK(m) == AssetsListed(m) /\ MappedBothWays(m) /\ DecimalsBounded(m)

LEMMA ListedAssets ==
  ASSUME NEW m
  PROVE  AssetsListed(m) <=>
           /\ NoDuplicates(m.assets)
           /\ \A asset \in Assets : m.feed_of[asset] # NONE <=> Holds(m.assets, asset)
BY DEF AssetsListed, NoDuplicates, Holds

\* The recomputed maximum is 0 or the decimals of a listed and mapped asset's feed,
\* and bounds them all.
LEMMA RecomputedMaxBounds ==
  ASSUME NEW m \in FeedMap
  PROVE  LET D(i) == FeedDecimals(m, m.feed_of[m.assets[i]])
             mapped == {i \in DOMAIN m.assets : m.feed_of[m.assets[i]] # NONE}
         IN /\ RecomputedMax(m) \in Nat
            /\ \A i \in mapped : D(i) <= RecomputedMax(m)
            /\ RecomputedMax(m) = 0 \/ \E i \in mapped : D(i) = RecomputedMax(m)
<1> DEFINE D(i) == FeedDecimals(m, m.feed_of[m.assets[i]])
           mapped == {i \in DOMAIN m.assets : m.feed_of[m.assets[i]] # NONE}
           all == {0} \cup {D(i) : i \in mapped}
           I == {0} \cup mapped
           v == [i \in I |-> IF i = 0 THEN 0 ELSE D(i)]
<1>1. /\ m.assets \in Seq(Assets) /\ Len(m.assets) \in Nat
      /\ DOMAIN m.assets = 1 .. Len(m.assets)
      /\ m.feed_of \in [Assets -> SepFeeds \cup {NONE}]
      /\ m.decimals \in [SepFeeds -> Nat \cup {NONE}]
  <2>1. m.assets \in Seq(Assets)
    BY DEF FeedMap
  <2> QED BY <2>1, LenProperties DEF FeedMap
<1>2. \A i \in mapped : i \in 1 .. Len(m.assets) /\ D(i) \in Nat
  <2> TAKE i \in mapped
  <2>1. i \in 1 .. Len(m.assets) /\ m.assets[i] \in Assets
    BY <1>1, ElementOfSeq
  <2>2. m.feed_of[m.assets[i]] \in SepFeeds
    BY <1>1, <2>1
  <2>3. m.decimals[m.feed_of[m.assets[i]]] \in Nat \cup {NONE}
    BY <1>1, <2>2
  <2> QED BY <2>1, <2>3, DecimalsAssumption DEF FeedDecimals
<1> HIDE DEF D, mapped
<1>3. IsFiniteSet(I) /\ I # {}
  <2>1. IsFiniteSet(0 .. Len(m.assets))
    BY <1>1, FS_Interval
  <2>2. I \in SUBSET (0 .. Len(m.assets))
    BY <1>1, <1>2
  <2> QED BY <2>1, <2>2, FS_Subset
<1>4. v \in [I -> Nat]
  BY <1>2
<1>5. PICK d \in I : \A e \in I : v[e] <= v[d]
  <2> HIDE DEF I, v
  <2> QED BY <1>3, <1>4, GreatestValue
<1>6. v[0] = 0 /\ \A i \in mapped : v[i] = D(i)
  BY <1>2
<1>7. \A x \in all : \E i \in I : x = v[i]
  BY <1>6
<1>8. \A i \in I : v[i] \in all
  BY <1>6
<1>9. v[d] \in all /\ \A x \in all : x <= v[d]
  BY <1>5, <1>7, <1>8
<1>10. RecomputedMax(m) \in all /\ \A x \in all : x <= RecomputedMax(m)
  <2>1. RecomputedMax(m) = CHOOSE max \in all : \A x \in all : x <= max
    BY DEF RecomputedMax, D, mapped
  <2> HIDE DEF all, v
  <2> QED BY <1>9, <2>1
<1>11. \A i \in mapped : D(i) \in all
  OBVIOUS
<1> QED BY <1>2, <1>10, <1>11 DEF D, mapped

\* Decimals of a feed that has them stored are those stored.
LEMMA StoredDecimals ==
  ASSUME NEW m \in FeedMap, NEW f \in SepFeeds
  PROVE  /\ FeedDecimals(m, f) \in Nat
         /\ m.decimals[f] # NONE => FeedDecimals(m, f) = m.decimals[f]
BY DecimalsAssumption DEF FeedDecimals, FeedMap

\* insert keeps a sound map sound.
LEMMA InsertedOK ==
  ASSUME NEW m \in FeedMap, MapOK(m), NEW x \in FeedMapping, Addable(m, x)
  PROVE  Inserted(m, x) \in FeedMap /\ MapOK(Inserted(m, x))
<1> DEFINE n == Inserted(m, x)
           d == IF x.decimals = NONE THEN DECIMALS ELSE x.decimals
<1>1. /\ x.feed \in SepFeeds /\ x.asset \in Assets /\ d \in Nat
      /\ m.assets \in Seq(Assets) /\ m.max_decimals \in Nat
      /\ m.asset_of \in [SepFeeds -> Assets \cup {NONE}]
      /\ m.feed_of \in [Assets -> SepFeeds \cup {NONE}]
      /\ m.decimals \in [SepFeeds -> Nat \cup {NONE}]
      /\ NONE \notin SepFeeds /\ NONE \notin Assets /\ NONE \notin Nat
      /\ DECIMALS \in Nat
  BY DecimalsAssumption, NoneAssumption DEF FeedMapping, FeedMap
<1>2. /\ n.assets = Append(m.assets, x.asset)
      /\ n.asset_of = [m.asset_of EXCEPT ![x.feed] = x.asset]
      /\ n.feed_of = [m.feed_of EXCEPT ![x.asset] = x.feed]
      /\ n.decimals = [m.decimals EXCEPT ![x.feed] = d]
      /\ n.max_decimals = IF m.max_decimals < d THEN d ELSE m.max_decimals
  BY DEF Inserted, Greater
<1>3. n \in FeedMap
  <2>1. /\ n.assets \in Seq(Assets)
        /\ n.asset_of \in [SepFeeds -> Assets \cup {NONE}]
        /\ n.feed_of \in [Assets -> SepFeeds \cup {NONE}]
        /\ n.decimals \in [SepFeeds -> Nat \cup {NONE}]
        /\ n.max_decimals \in Nat
    BY <1>1, <1>2, AppendProperties
  <2>2. n = [assets |-> n.assets, asset_of |-> n.asset_of, feed_of |-> n.feed_of,
             decimals |-> n.decimals, max_decimals |-> n.max_decimals]
    BY DEF Inserted
  <2> HIDE DEF n
  <2> QED BY <2>1, <2>2 DEF FeedMap
<1>4. m.asset_of[x.feed] = NONE /\ m.feed_of[x.asset] = NONE
  BY DEF Addable
<1> HIDE DEF n, d
<1>5. AssetsListed(n)
  <2>1. /\ NoDuplicates(m.assets)
        /\ \A asset \in Assets : m.feed_of[asset] # NONE <=> Holds(m.assets, asset)
    BY ListedAssets DEF MapOK
  <2>2. ~ Holds(m.assets, x.asset)
    BY <1>1, <1>4, <2>1
  <2>3. /\ NoDuplicates(n.assets)
        /\ \A y : Holds(n.assets, y) <=> Holds(m.assets, y) \/ y = x.asset
    BY <1>1, <1>2, <2>1, <2>2, AppendHolds
  <2>4. \A asset \in Assets : n.feed_of[asset] # NONE <=> Holds(n.assets, asset)
    BY <1>1, <1>2, <2>1, <2>3
  <2> QED BY <2>3, <2>4, ListedAssets
<1>6. MappedBothWays(n)
  <2> SUFFICES ASSUME NEW f \in SepFeeds, NEW a \in Assets
               PROVE  n.asset_of[f] = a <=> n.feed_of[a] = f
    BY DEF MappedBothWays
  <2>1. m.asset_of[f] = a <=> m.feed_of[a] = f
    BY DEF MapOK, MappedBothWays
  <2>2. n.asset_of[f] = IF f = x.feed THEN x.asset ELSE m.asset_of[f]
    BY <1>1, <1>2
  <2>3. n.feed_of[a] = IF a = x.asset THEN x.feed ELSE m.feed_of[a]
    BY <1>1, <1>2
  <2> QED BY <1>1, <1>4, <2>1, <2>2, <2>3
<1>7. DecimalsBounded(n)
  <2>1. \A f \in SepFeeds : n.decimals[f] = IF f = x.feed THEN d ELSE m.decimals[f]
    BY <1>1, <1>2
  <2>2. \A f \in SepFeeds : n.asset_of[f] = IF f = x.feed THEN x.asset ELSE m.asset_of[f]
    BY <1>1, <1>2
  <2>3. m.max_decimals <= n.max_decimals /\ d <= n.max_decimals
        /\ n.max_decimals \in {m.max_decimals, d} /\ n.max_decimals \in Nat
    BY <1>1, <1>2
  <2>4. \A f \in SepFeeds : n.asset_of[f] # NONE <=> n.decimals[f] # NONE
    <3>1. \A f \in SepFeeds : m.asset_of[f] # NONE <=> m.decimals[f] # NONE
      BY DEF MapOK, DecimalsBounded
    <3>2. x.asset # NONE /\ d # NONE
      BY <1>1
    <3> QED BY <2>1, <2>2, <3>1, <3>2
  <2>5. \A f \in SepFeeds : n.decimals[f] # NONE => n.decimals[f] <= n.max_decimals
    <3> TAKE f \in SepFeeds
    <3> HAVE n.decimals[f] # NONE
    <3>1. CASE f = x.feed
      BY <2>1, <2>3, <3>1
    <3>2. CASE f # x.feed
      <4>1. n.decimals[f] = m.decimals[f] /\ m.decimals[f] <= m.max_decimals
        BY <2>1, <3>2 DEF MapOK, DecimalsBounded
      <4>2. m.decimals[f] \in Nat
        BY <1>1, <2>1, <3>2
      <4> QED BY <1>1, <2>3, <4>1, <4>2
    <3> QED BY <3>1, <3>2
  <2>6. ASSUME n.max_decimals > DECIMALS
        PROVE  \E f \in SepFeeds : n.decimals[f] = n.max_decimals
    <3>1. CASE n.max_decimals = d
      BY <1>1, <2>1, <3>1
    <3>2. CASE n.max_decimals # d
      <4>1. n.max_decimals = m.max_decimals
        BY <2>3, <3>2
      <4>2. PICK f \in SepFeeds : m.decimals[f] = m.max_decimals
        BY <2>6, <4>1 DEF MapOK, DecimalsBounded
      <4>3. m.decimals[f] # NONE
        BY <1>1, <4>2
      <4>4. f # x.feed
        BY <1>4, <4>3 DEF MapOK, DecimalsBounded
      <4> QED BY <2>1, <4>1, <4>2, <4>4
    <3> QED BY <3>1, <3>2
  <2> QED BY <2>4, <2>5, <2>6 DEF DecimalsBounded
<1> QED BY <1>3, <1>5, <1>6, <1>7 DEF MapOK, n

\* detach keeps a sound map sound, when the feed is mapped.
LEMMA DetachedOK ==
  ASSUME NEW m \in FeedMap, MapOK(m), NEW f \in SepFeeds, m.asset_of[f] # NONE
  PROVE  Detached(m, f) \in FeedMap /\ MapOK(Detached(m, f))
<1> DEFINE a == m.asset_of[f]
           r == Unmapped(m, f)
           n == Detached(m, f)
<1>1. /\ m.assets \in Seq(Assets) /\ m.max_decimals \in Nat
      /\ m.asset_of \in [SepFeeds -> Assets \cup {NONE}]
      /\ m.feed_of \in [Assets -> SepFeeds \cup {NONE}]
      /\ m.decimals \in [SepFeeds -> Nat \cup {NONE}]
      /\ NONE \notin SepFeeds /\ NONE \notin Assets /\ NONE \notin Nat
      /\ DECIMALS \in Nat
  BY DecimalsAssumption, NoneAssumption DEF FeedMap
<1>2. a \in Assets
  BY <1>1
<1>3. /\ r.assets = Without(m.assets, a)
      /\ r.asset_of = [m.asset_of EXCEPT ![f] = NONE]
      /\ r.feed_of = [m.feed_of EXCEPT ![a] = NONE]
      /\ r.decimals = [m.decimals EXCEPT ![f] = NONE]
      /\ r.max_decimals = m.max_decimals
  BY DEF Unmapped
<1>4. /\ NoDuplicates(m.assets)
      /\ \A asset \in Assets : m.feed_of[asset] # NONE <=> Holds(m.assets, asset)
  BY ListedAssets DEF MapOK
<1>5. /\ r.assets \in Seq(Assets) /\ NoDuplicates(r.assets)
      /\ \A y : Holds(r.assets, y) <=> Holds(m.assets, y) /\ y # a
  BY <1>1, <1>3, <1>4, WithoutHolds
<1>6. r \in FeedMap
  <2>1. /\ r.asset_of \in [SepFeeds -> Assets \cup {NONE}]
        /\ r.feed_of \in [Assets -> SepFeeds \cup {NONE}]
        /\ r.decimals \in [SepFeeds -> Nat \cup {NONE}]
        /\ r.max_decimals \in Nat
    BY <1>1, <1>3
  <2>2. r = [assets |-> r.assets, asset_of |-> r.asset_of, feed_of |-> r.feed_of,
             decimals |-> r.decimals, max_decimals |-> r.max_decimals]
    BY DEF Unmapped
  <2> HIDE DEF r
  <2> QED BY <1>5, <2>1, <2>2 DEF FeedMap
<1>7. RecomputedMax(r) \in Nat
  BY <1>6, RecomputedMaxBounds
<1>8. /\ n.assets = r.assets /\ n.asset_of = r.asset_of
      /\ n.feed_of = r.feed_of /\ n.decimals = r.decimals
      /\ n.max_decimals = IF FeedDecimals(m, f) = m.max_decimals
                          THEN RecomputedMax(r) ELSE m.max_decimals
      /\ n \in FeedMap
  <2>1. CASE FeedDecimals(m, f) = m.max_decimals
    <3>1. n = [r EXCEPT !.max_decimals = RecomputedMax(r)]
      BY <2>1 DEF Detached
    <3> HIDE DEF n, r
    <3> QED BY <1>6, <1>7, <2>1, <3>1 DEF FeedMap
  <2>2. CASE FeedDecimals(m, f) # m.max_decimals
    <3>1. n = r
      BY <2>2 DEF Detached
    <3> HIDE DEF n, r
    <3> QED BY <1>3, <1>6, <2>2, <3>1
  <2> QED BY <2>1, <2>2
<1>9. \A g \in SepFeeds : n.asset_of[g] = IF g = f THEN NONE ELSE m.asset_of[g]
  BY <1>1, <1>3, <1>8
<1>10. \A b \in Assets : n.feed_of[b] = IF b = a THEN NONE ELSE m.feed_of[b]
  BY <1>1, <1>2, <1>3, <1>8
<1>11. \A g \in SepFeeds : n.decimals[g] = IF g = f THEN NONE ELSE m.decimals[g]
  BY <1>1, <1>3, <1>8
<1>12. \A g \in SepFeeds, b \in Assets : m.asset_of[g] = b <=> m.feed_of[b] = g
  BY DEF MapOK, MappedBothWays
<1> HIDE DEF n, r, a
<1>13. m.asset_of[f] = a
  BY DEF a
<1>14. AssetsListed(n)
  <2>1. \A b \in Assets : n.feed_of[b] # NONE <=> Holds(n.assets, b)
    BY <1>4, <1>5, <1>8, <1>10
  <2> QED BY <1>5, <1>8, <2>1, ListedAssets
<1>15. MappedBothWays(n)
  <2> SUFFICES ASSUME NEW g \in SepFeeds, NEW b \in Assets
               PROVE  n.asset_of[g] = b <=> n.feed_of[b] = g
    BY DEF MappedBothWays
  <2> QED BY <1>1, <1>2, <1>9, <1>10, <1>12, <1>13
<1>16. DecimalsBounded(n)
  <2>1. \A g \in SepFeeds : m.asset_of[g] # NONE <=> m.decimals[g] # NONE
    BY DEF MapOK, DecimalsBounded
  <2>2. \A g \in SepFeeds : n.asset_of[g] # NONE <=> n.decimals[g] # NONE
    BY <1>9, <1>11, <2>1
  <2>3. \A g \in SepFeeds : m.decimals[g] # NONE => m.decimals[g] <= m.max_decimals
    BY DEF MapOK, DecimalsBounded
  <2>4. FeedDecimals(m, f) = m.decimals[f] /\ m.decimals[f] # NONE
    BY <2>1, StoredDecimals
  <2>5. CASE m.decimals[f] = m.max_decimals
    <3>1. n.max_decimals = RecomputedMax(r)
      BY <1>8, <2>4, <2>5
    <3>2. /\ \A i \in DOMAIN r.assets : r.feed_of[r.assets[i]] # NONE =>
               FeedDecimals(r, r.feed_of[r.assets[i]]) <= n.max_decimals
          /\ \/ n.max_decimals = 0
             \/ \E i \in DOMAIN r.assets : /\ r.feed_of[r.assets[i]] # NONE
                                           /\ FeedDecimals(r, r.feed_of[r.assets[i]]) = n.max_decimals
      BY <1>6, <3>1, RecomputedMaxBounds
    <3>3. ASSUME NEW g \in SepFeeds, n.decimals[g] # NONE
          PROVE  n.decimals[g] <= n.max_decimals
      <4>1. n.asset_of[g] # NONE /\ n.asset_of[g] \in Assets
        BY <1>1, <1>9, <2>2, <3>3
      <4>2. n.feed_of[n.asset_of[g]] = g
        BY <1>15, <4>1 DEF MappedBothWays
      <4>3. PICK i \in DOMAIN n.assets : n.assets[i] = n.asset_of[g]
        BY <1>1, <1>14, <4>1, <4>2 DEF AssetsListed
      <4>4. i \in DOMAIN r.assets /\ r.feed_of[r.assets[i]] = g
        BY <1>8, <4>2, <4>3
      <4>5. g # NONE
        BY <1>1
      <4>6. FeedDecimals(r, g) = n.decimals[g]
        BY <1>6, <1>8, <3>3, StoredDecimals
      <4> QED BY <3>2, <4>4, <4>5, <4>6
    <3>4. ASSUME n.max_decimals > DECIMALS
          PROVE  \E g \in SepFeeds : n.decimals[g] = n.max_decimals
      <4>1. n.max_decimals # 0
        BY <1>1, <3>4
      <4>2. PICK i \in DOMAIN r.assets :
              /\ r.feed_of[r.assets[i]] # NONE
              /\ FeedDecimals(r, r.feed_of[r.assets[i]]) = n.max_decimals
        BY <3>2, <4>1
      <4> DEFINE b == r.assets[i]
                 g == r.feed_of[b]
      <4>3. b \in Assets
        BY <1>5, LenProperties, ElementOfSeq
      <4>4. g \in SepFeeds
        BY <1>6, <4>2, <4>3 DEF FeedMap
      <4>5. n.asset_of[g] = b
        BY <1>8, <1>15, <4>3, <4>4 DEF MappedBothWays
      <4>6. n.decimals[g] # NONE
        BY <1>1, <2>2, <4>3, <4>4, <4>5
      <4>7. FeedDecimals(r, g) = n.decimals[g]
        BY <1>6, <1>8, <4>4, <4>6, StoredDecimals
      <4> QED BY <4>2, <4>4, <4>7
    <3> QED BY <2>2, <3>3, <3>4 DEF DecimalsBounded
  <2>6. CASE m.decimals[f] # m.max_decimals
    <3>1. n.max_decimals = m.max_decimals
      BY <1>8, <2>4, <2>6
    <3>2. \A g \in SepFeeds : n.decimals[g] # NONE => n.decimals[g] <= n.max_decimals
      BY <1>11, <2>3, <3>1
    <3>3. ASSUME n.max_decimals > DECIMALS
          PROVE  \E g \in SepFeeds : n.decimals[g] = n.max_decimals
      <4>1. PICK g \in SepFeeds : m.decimals[g] = m.max_decimals
        BY <3>1, <3>3 DEF MapOK, DecimalsBounded
      <4>2. g # f
        BY <2>6, <4>1
      <4> QED BY <1>11, <3>1, <4>1, <4>2
    <3> QED BY <2>2, <3>2, <3>3 DEF DecimalsBounded
  <2> QED BY <2>5, <2>6
<1> QED BY <1>8, <1>14, <1>15, <1>16 DEF MapOK, n

-----------------------------------------------------------------------------
(* The history.                                                             *)

InOrder(h) ==
  \A i, j \in DOMAIN h : i < j =>
    /\ h[i].package_timestamp < h[j].package_timestamp
    /\ h[i].write_timestamp < h[j].write_timestamp

\* A push of later data ends an ordered history, and drops the oldest beyond the limit.
LEMMA PushedInOrder ==
  ASSUME NEW h \in Seq(PriceData), NEW d \in PriceData,
         InOrder(h), Len(h) <= HISTORY_LIMIT,
         h # << >> => /\ h[Len(h)].package_timestamp < d.package_timestamp
                      /\ h[Len(h)].write_timestamp < d.write_timestamp
  PROVE  LET p == Pushed(h, d) IN
           /\ p \in Seq(PriceData) /\ InOrder(p)
           /\ Len(p) <= HISTORY_LIMIT /\ p # << >> /\ p[Len(p)] = d
<1> DEFINE n == Len(h) + 1
           t == Append(h, d)
           m == IF n > HISTORY_LIMIT THEN n - HISTORY_LIMIT + 1 ELSE 1
           p == SubSeq(t, m, n)
<1>1. Len(h) \in Nat /\ HISTORY_LIMIT \in Nat /\ HISTORY_LIMIT >= 1 /\ DOMAIN h = 1 .. Len(h)
  BY OracleAssumption, LenProperties
<1>2. /\ t \in Seq(PriceData) /\ Len(t) = n /\ t[n] = d
      /\ \A i \in 1 .. Len(h) : t[i] = h[i]
  BY AppendProperties
<1>3. n \in Nat /\ m \in Nat /\ 1 <= m /\ m <= n /\ n - m + 1 <= HISTORY_LIMIT
  <2>1. CASE n > HISTORY_LIMIT
    BY <1>1, <2>1
  <2>2. CASE ~ (n > HISTORY_LIMIT)
    BY <1>1, <2>2
  <2> QED BY <2>1, <2>2
<1> HIDE DEF t, m, n
<1>4. \A i \in 1 .. n : t[i] \in PriceData
  BY <1>2, ElementOfSeq
<1>5. /\ p \in Seq(PriceData) /\ Len(p) = n - m + 1
      /\ \A i \in 1 .. n - m + 1 : p[i] = t[m + i - 1]
  <2>1. \A i \in m .. n : t[i] \in PriceData
    BY <1>3, <1>4
  <2> QED BY <1>3, <2>1, SubSeqProperties
<1> HIDE DEF p
<1>6. DOMAIN p = 1 .. n - m + 1
  BY <1>5, LenProperties
<1>7. Len(p) <= HISTORY_LIMIT /\ p # << >>
  BY <1>3, <1>5, EmptySeq
<1>8. p[Len(p)] = d
  <2>1. n - m + 1 \in 1 .. n - m + 1 /\ m + (n - m + 1) - 1 = n
    BY <1>3
  <2> QED BY <1>2, <1>5, <2>1
<1>9. \A x, y \in PriceData :
        /\ x.package_timestamp \in Nat /\ x.write_timestamp \in Nat
        /\ y.package_timestamp \in Nat /\ y.write_timestamp \in Nat
  BY DEF PriceData
<1>10. ASSUME NEW i \in 1 .. n, NEW j \in 1 .. n, i < j
       PROVE  /\ t[i].package_timestamp < t[j].package_timestamp
              /\ t[i].write_timestamp < t[j].write_timestamp
  <2>1. i \in 1 .. Len(h) /\ t[i] = h[i] /\ h # << >> /\ i <= Len(h)
    <3>1. i \in 1 .. Len(h)
      BY <1>1, <1>10 DEF n
    <3> QED BY <1>1, <1>2, <3>1, EmptySeq
  <2>2. CASE j = n
    <3>1. Len(h) \in 1 .. Len(h) /\ h[Len(h)] \in PriceData /\ h[i] \in PriceData
      BY <1>1, <2>1, ElementOfSeq
    <3>2. CASE i = Len(h)
      BY <1>2, <2>1, <2>2, <3>2
    <3>3. CASE i < Len(h)
      <4>1. /\ h[i].package_timestamp < h[Len(h)].package_timestamp
            /\ h[i].write_timestamp < h[Len(h)].write_timestamp
        BY <1>1, <2>1, <3>1, <3>3 DEF InOrder
      <4> QED BY <1>2, <1>9, <2>1, <2>2, <3>1, <4>1
    <3>4. i = Len(h) \/ i < Len(h)
      <4>1. i \in 1 .. Len(h) /\ Len(h) \in Nat
        BY <1>1, <2>1
      <4> QED BY <4>1
    <3> QED BY <3>2, <3>3, <3>4
  <2>3. CASE j # n
    <3>1. j \in 1 .. Len(h) /\ t[j] = h[j]
      BY <1>1, <1>2, <1>10, <2>3 DEF n
    <3> QED BY <1>1, <1>10, <2>1, <3>1 DEF InOrder
  <2> QED BY <2>2, <2>3
<1>11. InOrder(p)
  <2> SUFFICES ASSUME NEW i \in DOMAIN p, NEW j \in DOMAIN p, i < j
               PROVE  /\ p[i].package_timestamp < p[j].package_timestamp
                      /\ p[i].write_timestamp < p[j].write_timestamp
    BY DEF InOrder
  <2>1. /\ m + i - 1 \in 1 .. n /\ m + j - 1 \in 1 .. n /\ m + i - 1 < m + j - 1
    BY <1>3, <1>6
  <2>2. p[i] = t[m + i - 1] /\ p[j] = t[m + j - 1]
    BY <1>5, <1>6
  <2> QED BY <1>10, <2>1, <2>2
<1>12. Pushed(h, d) = p
  BY DEF Pushed, p, t, m, n
<1> QED BY <1>5, <1>7, <1>8, <1>11, <1>12

-----------------------------------------------------------------------------
(* The invariant and the steps.                                             *)

\* Inductive: types, a sound registry, and ordered histories that end with latest.
Inv == TypeOK /\ FeedMapOK /\ HistoryInOrder

\* What a payload holds for a feed, once its write is stamped.
LEMMA PayloadData ==
  ASSUME NEW payload \in ProcessedPayloads, NEW feed \in DOMAIN payload.values, clock \in Nat
  PROVE  /\ feed \in Feeds /\ payload.timestamp \in Times
         /\ payload.values[feed] \in Quote[feed][payload.timestamp]
         /\ [price |-> payload.values[feed], package_timestamp |-> payload.timestamp,
             write_timestamp |-> Now] \in PriceData
<1> DEFINE V == UNION {Quote[f][t] : f \in Feeds, t \in Times}
           F == UNION {[feeds -> V] : feeds \in SUBSET Feeds}
<1>1. /\ payload.timestamp \in Times /\ payload.values \in F
      /\ payload.values[feed] \in Quote[feed][payload.timestamp]
  BY DEF ProcessedPayloads
<1>2. payload.timestamp \in Times /\ payload.timestamp \in Nat
  <2>1. payload.timestamp \in Times
    BY <1>1
  <2> QED BY <2>1, OracleAssumption
<1>3. feed \in Feeds
  <2> HIDE DEF V
  <2>1. \A g \in F : \E feeds \in SUBSET Feeds : g \in [feeds -> V]
    OBVIOUS
  <2>2. payload.values \in F
    BY <1>1
  <2> HIDE DEF F
  <2>3. PICK feeds \in SUBSET Feeds : payload.values \in [feeds -> V]
    BY <2>1, <2>2
  <2> QED BY <2>3
<1>4. payload.values[feed] \in Quote[feed][payload.timestamp] /\ payload.values[feed] \in Nat
  <2>1. payload.values[feed] \in Quote[feed][payload.timestamp]
    BY <1>1
  <2>2. Quote[feed][payload.timestamp] \in SUBSET Nat
    BY <1>2, <1>3, OracleAssumption
  <2> QED BY <2>1, <2>2
<1>5. Now \in Nat
  BY OracleAssumption DEF Now
<1> QED BY <1>2, <1>3, <1>4, <1>5 DEF PriceData

\* The entries of a feed that a write updates.
LEMMA UpdatedFeed ==
  ASSUME Inv, NEW payload \in ProcessedPayloads, NEW trusted \in BOOLEAN,
         WritePrices(payload, trusted), NEW feed \in Updated(payload, trusted)
  PROVE  LET d == [price |-> payload.values[feed],
                   package_timestamp |-> payload.timestamp, write_timestamp |-> Now]
         IN /\ feed \in Feeds /\ d \in PriceData
            /\ latest'[feed] = d /\ history'[feed] = Pushed(history[feed], d)
            /\ latest[feed] # NoPrice =>
                 /\ latest[feed].package_timestamp < d.package_timestamp
                 /\ latest[feed].write_timestamp < d.write_timestamp
<1> DEFINE d == [price |-> payload.values[feed],
                 package_timestamp |-> payload.timestamp, write_timestamp |-> Now]
<1>1. feed \in DOMAIN payload.values /\ Verified(feed, payload.timestamp, trusted)
  BY DEF Updated
<1>2. clock \in Nat /\ latest \in [Feeds -> PriceData \cup {NoPrice}]
  BY DEF Inv, TypeOK
<1>3. feed \in Feeds /\ d \in PriceData
  BY <1>1, <1>2, PayloadData
<1>4. latest'[feed] = d /\ history'[feed] = Pushed(history[feed], d)
  BY <1>3 DEF WritePrices
<1>5. ASSUME latest[feed] # NoPrice
      PROVE  /\ latest[feed].package_timestamp < payload.timestamp
             /\ latest[feed].write_timestamp < Now
  <2>1. latest[feed] \in PriceData
    BY <1>2, <1>3, <1>5
  <2>2. latest[feed].write_timestamp \in Nat /\ Now \in Nat
    BY <1>2, <2>1, OracleAssumption DEF PriceData, Now
  <2>3. /\ latest[feed].package_timestamp < payload.timestamp
        /\ latest[feed].write_timestamp
             + (IF trusted THEN 0 ELSE min_interval_between_updates_ms) < Now
    BY <1>1, <1>5 DEF Verified
  <2>4. latest[feed].write_timestamp < Now
    <3> DEFINE interval == IF trusted THEN 0 ELSE min_interval_between_updates_ms
    <3>1. interval \in Nat
      BY OracleAssumption
    <3>2. latest[feed].write_timestamp + interval < Now
      BY <2>3
    <3> HIDE DEF interval
    <3> QED BY <2>2, <3>1, <3>2
  <2> QED BY <2>3, <2>4
<1> QED BY <1>3, <1>4, <1>5

LEMMA WritePricesInv ==
  ASSUME Inv, NEW payload \in ProcessedPayloads, NEW trusted \in BOOLEAN,
         WritePrices(payload, trusted)
  PROVE  Inv'
<1> DEFINE updated == Updated(payload, trusted)
           Ordered(h, last) == /\ Len(h) <= HISTORY_LIMIT
                               /\ h # << >> => last = h[Len(h)]
                               /\ InOrder(h)
<1>1. /\ latest \in [Feeds -> PriceData \cup {NoPrice}]
      /\ history \in [Feeds -> Seq(PriceData)]
  BY DEF Inv, TypeOK
<1>2. \A feed \in Feeds : Ordered(history[feed], latest[feed])
  BY DEF Inv, HistoryInOrder, InOrder
<1>3. \A feed \in Feeds \ updated :
        latest'[feed] = latest[feed] /\ history'[feed] = history[feed]
  BY DEF WritePrices
<1>4. ASSUME NEW feed \in updated
      PROVE  /\ latest'[feed] \in PriceData /\ history'[feed] \in Seq(PriceData)
             /\ Ordered(history'[feed], latest'[feed])
  <2> DEFINE d == [price |-> payload.values[feed],
                   package_timestamp |-> payload.timestamp, write_timestamp |-> Now]
             h == history[feed]
  <2>1. /\ feed \in Feeds /\ d \in PriceData
        /\ latest'[feed] = d /\ history'[feed] = Pushed(h, d)
        /\ latest[feed] # NoPrice =>
             /\ latest[feed].package_timestamp < d.package_timestamp
             /\ latest[feed].write_timestamp < d.write_timestamp
    BY UpdatedFeed
  <2> HIDE DEF d
  <2>2. h \in Seq(PriceData) /\ Ordered(h, latest[feed])
    BY <1>1, <1>2, <2>1
  <2>3. h # << >> => /\ h[Len(h)].package_timestamp < d.package_timestamp
                     /\ h[Len(h)].write_timestamp < d.write_timestamp
    <3> HAVE h # << >>
    <3>1. Len(h) \in 1 .. Len(h)
      BY <2>2, EmptySeq, LenProperties
    <3>2. h[Len(h)] \in PriceData
      BY <2>2, <3>1, ElementOfSeq
    <3>3. latest[feed] = h[Len(h)] /\ latest[feed] # NoPrice
      BY <2>2, <3>2, OracleAssumption
    <3> QED BY <2>1, <3>3
  <2> HIDE DEF h
  <2>4. LET p == Pushed(h, d) IN
          /\ p \in Seq(PriceData) /\ InOrder(p)
          /\ Len(p) <= HISTORY_LIMIT /\ p # << >> /\ p[Len(p)] = d
    BY <2>1, <2>2, <2>3, PushedInOrder
  <2> QED BY <2>1, <2>4
<1>5. TypeOK'
  <2>1. \A feed \in Feeds :
          latest'[feed] \in PriceData \cup {NoPrice} /\ history'[feed] \in Seq(PriceData)
    BY <1>1, <1>3, <1>4
  <2>2. latest' = [feed \in Feeds |-> latest'[feed]] /\ history' = [feed \in Feeds |-> history'[feed]]
    BY DEF WritePrices
  <2>3. latest' \in [Feeds -> PriceData \cup {NoPrice}] /\ history' \in [Feeds -> Seq(PriceData)]
    BY <2>1, <2>2
  <2> QED BY <2>3 DEF TypeOK, Inv, WritePrices
<1>6. FeedMapOK'
  BY DEF Inv, FeedMapOK, WritePrices
<1>7. HistoryInOrder'
  <2>1. \A feed \in Feeds : Ordered(history'[feed], latest'[feed])
    BY <1>2, <1>3, <1>4
  <2> QED BY <2>1 DEF HistoryInOrder, InOrder
<1> QED BY <1>5, <1>6, <1>7 DEF Inv

LEMMA InitInv == Init => Inv
<1> SUFFICES ASSUME Init PROVE Inv
  OBVIOUS
<1>1. TypeOK
  <2>1. latest \in [Feeds -> PriceData \cup {NoPrice}]
    <3> DEFINE Values == UNION {Quote[feed][u] : feed \in Feeds, u \in Times}
               Early == {[price |-> v, package_timestamp |-> t, write_timestamp |-> s * MS_IN_SEC] :
                           v \in Values, t \in Times, s \in 0 .. 1}
    <3>1. Values \in SUBSET Nat
      BY OracleAssumption
    <3>2. \A s \in 0 .. 1 : s * MS_IN_SEC \in Nat
      BY OracleAssumption
    <3>3. \A x \in Early : x \in PriceData
      <4> TAKE x \in Early
      <4>1. PICK v \in Values, t \in Times, s \in 0 .. 1 :
              x = [price |-> v, package_timestamp |-> t, write_timestamp |-> s * MS_IN_SEC]
        OBVIOUS
      <4>2. v \in Nat /\ t \in Nat /\ s * MS_IN_SEC \in Nat
        BY <3>1, <3>2, OracleAssumption
      <4> HIDE DEF Values, Early
      <4> QED BY <4>1, <4>2 DEF PriceData
    <3>4. latest \in [Feeds -> {NoPrice} \cup Early]
      BY DEF Init
    <3> HIDE DEF Early
    <3> QED BY <3>3, <3>4
  <2>2. history \in [Feeds -> Seq(PriceData)]
    BY DEF Init
  <2>3. map \in FeedMap
    BY DecimalsAssumption DEF Init, EmptyMap, FeedMap
  <2>4. clock \in Nat
    BY DEF Init
  <2> QED BY <2>1, <2>2, <2>3, <2>4 DEF TypeOK
<1>2. FeedMapOK
  <2>1. map = EmptyMap
    BY DEF Init
  <2>2. AssetsListed(map)
    BY <2>1 DEF EmptyMap, AssetsListed
  <2>3. MappedBothWays(map)
    BY <2>1, NoneAssumption DEF EmptyMap, MappedBothWays
  <2>4. DecimalsBounded(map)
    BY <2>1, DecimalsAssumption DEF EmptyMap, DecimalsBounded
  <2> QED BY <2>2, <2>3, <2>4 DEF FeedMapOK
<1>3. HistoryInOrder
  BY OracleAssumption DEF Init, HistoryInOrder
<1> QED BY <1>1, <1>2, <1>3 DEF Inv

LEMMA StepInv == Inv /\ [Next]_vars => Inv'
<1> SUFFICES ASSUME Inv, [Next]_vars PROVE Inv'
  OBVIOUS
<1> DEFINE Rest == /\ UNCHANGED <<latest, history, clock>>
                   /\ map' \in FeedMap /\ MapOK(map')
<1>1. map \in FeedMap /\ MapOK(map)
  BY DEF Inv, TypeOK, FeedMapOK, MapOK
<1>2. Rest => Inv'
  BY DEF Inv, TypeOK, FeedMapOK, MapOK, HistoryInOrder
<1>3. ASSUME NEW payload \in ProcessedPayloads, NEW trusted \in BOOLEAN,
             WritePrices(payload, trusted)
      PROVE  Inv'
  BY <1>3, WritePricesInv
<1>4. ASSUME NEW mapping \in FeedMapping, AddFeed(mapping) PROVE Inv'
  BY <1>1, <1>2, <1>4, InsertedOK DEF AddFeed
<1>5. ASSUME NEW feed \in SepFeeds, RemoveFeed(feed) PROVE Inv'
  BY <1>1, <1>2, <1>5, DetachedOK DEF RemoveFeed
<1>6. ASSUME NEW mapping \in FeedMapping, UpdateFeed(mapping) PROVE Inv'
  <2> DEFINE m == Detached(map, mapping.feed)
  <2>1. mapping.feed \in SepFeeds /\ map.asset_of[mapping.feed] # NONE
    BY <1>6 DEF UpdateFeed, FeedMapping
  <2>2. m \in FeedMap /\ MapOK(m)
    BY <1>1, <2>1, DetachedOK
  <2>3. Addable(m, mapping) /\ map' = Inserted(m, mapping) /\ UNCHANGED <<latest, history, clock>>
    BY <1>6 DEF UpdateFeed
  <2> HIDE DEF m
  <2>4. Inserted(m, mapping) \in FeedMap /\ MapOK(Inserted(m, mapping))
    BY <2>2, <2>3, InsertedOK
  <2> QED BY <1>2, <2>3, <2>4
<1>7. CASE Tick
  BY <1>7 DEF Tick, Inv, TypeOK, FeedMapOK, HistoryInOrder
<1>8. CASE UNCHANGED vars
  BY <1>8 DEF vars, Inv, TypeOK, FeedMapOK, HistoryInOrder
<1> QED BY <1>3, <1>4, <1>5, <1>6, <1>7, <1>8 DEF Next

LEMMA Invariance == Spec => []Inv
  BY InitInv, StepInv, PTL DEF Spec

\* The storage of both contracts keeps its types: in particular the recomputed
\* maximum is a number again, whatever is left in the registry.
THEOREM TypeCorrect == Spec => []TypeOK
<1>1. Inv => TypeOK
  BY DEF Inv
<1> QED BY <1>1, Invariance, PTL

\* The five entries of the registry stay in step under every sequence of additions,
\* removals and updates, and max_decimals bounds the decimals of every feed.
THEOREM FeedMapSound == Spec => []FeedMapOK
<1>1. Inv => FeedMapOK
  BY DEF Inv
<1> QED BY <1>1, Invariance, PTL

\* Every history is ordered, bounded, and ends with the feed's latest price.
THEOREM HistoriesOrdered == Spec => []HistoryInOrder
<1>1. Inv => HistoryInOrder
  BY DEF Inv
<1> QED BY <1>1, Invariance, PTL

-----------------------------------------------------------------------------
(* What readers see.                                                        *)

\* The last position of a sequence stays the last one of the subsequence it is in.
LEMMA KeepLast ==
  ASSUME NEW S, NEW s \in Seq(S), NEW K \in SUBSET DOMAIN s, Len(s) \in K
  PROVE  /\ Keep(s, K) \in Seq(S) /\ Keep(s, K) # << >>
         /\ Keep(s, K)[Len(Keep(s, K))] = s[Len(s)]
<1> DEFINE k == Keep(s, K)
           n == Len(s)
<1>1. n \in Nat /\ DOMAIN s = 1 .. n /\ K \in SUBSET (1 .. n)
  BY LenProperties
<1>2. Cardinality(K) \in Nat /\ Rank(K, n) \in 1 .. Cardinality(K)
  BY <1>1, RankProperties
<1>3. \A i \in K : i <= n
  BY <1>1
<1>4. Rank(K, n) = Cardinality(K)
  <2>1. {j \in K : j <= n} = K
    BY <1>3
  <2> QED BY <2>1 DEF Rank
<1>5. k \in Seq(S) /\ Rank(K, n) \in DOMAIN k /\ k[Rank(K, n)] = s[n]
  BY KeepProperties
<1>6. DOMAIN k = 1 .. Cardinality(K)
  BY DEF Keep
<1>7. Len(k) = Cardinality(K)
  <2> HIDE DEF k
  <2> QED BY <1>2, <1>5, <1>6, LenProperties
<1>8. k # << >>
  BY <1>5
<1> QED BY <1>4, <1>5, <1>7, <1>8

\* The records of a history that are asked for end with its last entry.
LEMMA HistoryTail ==
  ASSUME NEW feed \in Feeds, NEW records \in 1 .. HISTORY_LIMIT,
         history[feed] \in Seq(PriceData), history[feed] # << >>
  PROVE  LET all == HistoryOf(feed, records) IN
           /\ all \in Seq(PriceData) /\ Len(all) \in DOMAIN all
           /\ all[Len(all)] = history[feed][Len(history[feed])]
<1> DEFINE h == history[feed]
           n == Len(h)
           all == HistoryOf(feed, records)
<1>1. n \in Nat /\ n >= 1 /\ records \in Nat /\ records >= 1
  <2>1. records \in Nat /\ records >= 1
    BY OracleAssumption
  <2>2. n \in Nat /\ n # 0
    BY EmptySeq, LenProperties
  <2> HIDE DEF n
  <2> QED BY <2>1, <2>2
<1>2. CASE n > records
  <2>1. all = SubSeq(h, n - records + 1, n)
    BY <1>2 DEF HistoryOf
  <2>2. \A i \in n - records + 1 .. n : h[i] \in PriceData
    <3>1. \A i \in 1 .. n : h[i] \in PriceData
      BY LenProperties, ElementOfSeq
    <3> HIDE DEF n, h
    <3> QED BY <1>1, <1>2, <3>1
  <2>3. n - records + 1 \in Int /\ n - records + 1 <= n
    <3> HIDE DEF n
    <3> QED BY <1>1, <1>2
  <2>4. /\ all \in Seq(PriceData)
        /\ Len(all) = n - (n - records + 1) + 1
        /\ \A i \in 1 .. n - (n - records + 1) + 1 : all[i] = h[(n - records + 1) + i - 1]
    <3> HIDE DEF all, h, n
    <3> QED BY <1>1, <2>1, <2>2, <2>3, SubSeqProperties
  <2>5. n - (n - records + 1) + 1 = records /\ (n - records + 1) + records - 1 = n
    <3> HIDE DEF n
    <3> QED BY <1>1
  <2> HIDE DEF all, h, n
  <2>6. Len(all) = records /\ records \in 1 .. records
    BY <1>1, <2>4, <2>5
  <2>7. all[records] = h[n]
    BY <2>4, <2>5, <2>6
  <2>8. DOMAIN all = 1 .. Len(all)
    BY <2>4, LenProperties
  <2> QED BY <2>4, <2>6, <2>7, <2>8 DEF all, h, n
<1>3. CASE ~ (n > records)
  <2>1. all = h
    BY <1>3 DEF HistoryOf
  <2>2. n \in DOMAIN h
    <3>1. DOMAIN h = 1 .. n
      BY LenProperties
    <3> HIDE DEF n
    <3> QED BY <1>1, <3>1
  <2> QED BY <2>1, <2>2
<1> QED BY <1>2, <1>3

LEMMA Agreement ==
  ASSUME Inv, NEW asset \in Assets, NEW records \in 1 .. HISTORY_LIMIT,
         LastPrice(asset) # << >>, history[map.feed_of[asset]] # << >>
  PROVE  LET last == LastPrice(asset)
             recent == Prices(asset, records)
             h == history[map.feed_of[asset]]
         IN /\ recent # << >> /\ recent[Len(recent)] = last[1]
            /\ \/ PriceAt(asset, last[1].timestamp) = last
               \/ \E i \in 1 .. Len(h) - 1 :
                    h[i].package_timestamp \div MS_IN_SEC = last[1].timestamp
<1> DEFINE feed == map.feed_of[asset]
           h == history[feed]
           n == Len(h)
           last == LastPrice(asset)
           all == HistoryOf(feed, records)
           K == {i \in DOMAIN all : Convertible(feed, all[i])}
           kept == Keep(all, K)
           second == last[1].timestamp
           found == {i \in DOMAIN h : h[i].package_timestamp \div MS_IN_SEC = second}
<1>1. /\ feed \in Feeds /\ Convertible(feed, latest[feed])
      /\ last = <<Converted(feed, latest[feed])>>
  BY DEF LastPrice
<1>2. h \in Seq(PriceData) /\ latest[feed] = h[n]
  BY <1>1 DEF Inv, TypeOK, HistoryInOrder
<1>3. n \in Nat /\ n >= 1 /\ DOMAIN h = 1 .. n
  <2>1. n \in Nat /\ n # 0 /\ DOMAIN h = 1 .. n
    BY <1>2, EmptySeq, LenProperties
  <2> HIDE DEF n, h
  <2> QED BY <2>1
<1>4. last[1] = Converted(feed, latest[feed])
  BY <1>1
<1>5. /\ all \in Seq(PriceData) /\ Len(all) \in DOMAIN all /\ all[Len(all)] = latest[feed]
  BY <1>1, <1>2, HistoryTail
<1>6. kept \in Seq(PriceData) /\ kept # << >> /\ kept[Len(kept)] = latest[feed]
  <2>1. K \in SUBSET DOMAIN all /\ Len(all) \in K
    BY <1>1, <1>5
  <2> HIDE DEF all, K, kept
  <2> QED BY <1>5, <2>1, KeepLast DEF kept
<1>7. Prices(asset, records) = [i \in DOMAIN kept |-> Converted(feed, kept[i])]
  BY <1>1 DEF Prices
<1>8. /\ Prices(asset, records) # << >>
      /\ Prices(asset, records)[Len(Prices(asset, records))] = last[1]
  <2> DEFINE r == [i \in DOMAIN kept |-> Converted(feed, kept[i])]
  <2>1. DOMAIN kept = 1 .. Len(kept) /\ Len(kept) \in Nat /\ Len(kept) # 0
    BY <1>6, EmptySeq, LenProperties
  <2>2. Len(kept) \in DOMAIN kept
    <3> HIDE DEF kept
    <3> QED BY <2>1
  <2>3. r[Len(kept)] = last[1]
    BY <1>4, <1>6, <2>2
  <2>4. DOMAIN r = 1 .. Len(kept)
    BY <2>1
  <2> HIDE DEF kept, r
  <2>5. Len(r) = Len(kept)
    BY <2>1, <2>4
  <2>6. r # << >>
    BY <2>1, <2>4
  <2> QED BY <1>7, <2>3, <2>5, <2>6 DEF r
<1>9. second = h[n].package_timestamp \div MS_IN_SEC
  BY <1>2, <1>4 DEF Converted
<1>10. n \in found
  BY <1>3, <1>9
<1>11. PICK m \in found : \A j \in found : m <= j
  <2>1. found \in SUBSET (1 .. n) /\ found # {}
    BY <1>3, <1>10
  <2> HIDE DEF found
  <2> QED BY <1>3, <2>1, LeastPosition
<1> DEFINE first == CHOOSE i \in found : \A j \in found : i <= j
<1>12. first \in found /\ \A j \in found : first <= j
  BY <1>11
<1>13. first \in 1 .. n
  BY <1>3, <1>12
<1>14. CASE first = n
  <2>1. h[first] = latest[feed]
    BY <1>2, <1>14
  <2>2. PriceAt(asset, second) = <<Converted(feed, h[first])>>
    <3>1. found # {} /\ Convertible(feed, h[first])
      BY <1>1, <1>10, <2>1
    <3> QED BY <1>1, <3>1 DEF PriceAt
  <2>3. PriceAt(asset, last[1].timestamp) = last
    BY <1>1, <2>1, <2>2
  <2> QED BY <1>8, <2>3
<1>15. CASE first # n
  <2>1. first \in 1 .. n - 1
    <3> HIDE DEF first, n
    <3> QED BY <1>3, <1>13, <1>15
  <2>2. h[first].package_timestamp \div MS_IN_SEC = last[1].timestamp
    BY <1>12
  <2> QED BY <1>8, <2>1, <2>2
<1> QED BY <1>14, <1>15

\* lastprice, prices and price of an asset agree wherever two of them answer: the
\* storage keys that they read never contradict each other.
THEOREM ReadersAgreed == Spec => []ReadersAgree
<1>1. Inv => ReadersAgree
  BY Agreement DEF ReadersAgree
<1> QED BY <1>1, Invariance, PTL

-----------------------------------------------------------------------------
(* Refinement.                                                              *)

\* A price in the terms of PriceFeeds.
Renamed(data) ==
  [value |-> data.price, timestamp |-> data.package_timestamp,
   write_timestamp |-> data.write_timestamp]

LEMMA RenamedIsPrice == \A data \in PriceData : Renamed(data) # NoPrice
BY OracleAssumption DEF Renamed, PriceData, PublishedData

LEMMA RenamedPrices ==
  /\ DOMAIN PublishedPrices = Feeds
  /\ \A feed \in Feeds : PublishedPrices[feed] =
       IF latest[feed] = NoPrice THEN NoPrice ELSE Renamed(latest[feed])
BY DEF PublishedPrices, Renamed

LEMMA RefinesInit == Init => PF!Init
<1> SUFFICES ASSUME Init PROVE PF!Init
  OBVIOUS
<1>1. TypeOK
  BY InitInv DEF Inv
<1>2. Now \in Nat
  BY <1>1, OracleAssumption DEF TypeOK, Now
<1>3. ASSUME NEW feed \in Feeds, PublishedPrices[feed] # NoPrice
      PROVE  /\ PF!Honest(feed, PublishedPrices[feed])
             /\ PublishedPrices[feed].write_timestamp <= Now
  <2>1. latest[feed] # NoPrice /\ PublishedPrices[feed] = Renamed(latest[feed])
    BY <1>3, RenamedPrices
  <2>2. /\ latest[feed] \in PriceData
        /\ latest[feed].price \in Quote[feed][latest[feed].package_timestamp]
    BY <1>1, <2>1 DEF Init, TypeOK
  <2>3. latest[feed].price \in Nat /\ latest[feed].write_timestamp \in Nat
    BY <2>2 DEF PriceData
  <2>4. PF!Honest(feed, PublishedPrices[feed])
    BY <2>1, <2>2, <2>3 DEF PF!Honest, Renamed
  <2>5. latest[feed].write_timestamp <= Now
    <3> DEFINE Values == UNION {Quote[f][u] : f \in Feeds, u \in Times}
               Early == {[price |-> v, package_timestamp |-> t, write_timestamp |-> s * MS_IN_SEC] :
                           v \in Values, t \in Times, s \in 0 .. 1}
    <3>1. latest[feed] \in {NoPrice} \cup Early
      BY DEF Init
    <3> HIDE DEF Values
    <3>2. PICK s \in 0 .. 1 : latest[feed].write_timestamp = s * MS_IN_SEC
      BY <2>1, <3>1
    <3>3. clock = 1
      BY DEF Init
    <3>4. Now = MS_IN_SEC
      BY <3>3, OracleAssumption DEF Now
    <3> QED BY <3>2, <3>4, OracleAssumption
  <2> QED BY <2>1, <2>4, <2>5 DEF Renamed
<1> QED BY <1>2, <1>3, RenamedPrices DEF PF!Init

LEMMA RefinesStep ==
  Inv /\ Inv' /\ [Next]_vars => [PF!Next]_<<PublishedPrices, Now, Feeds>>
<1> SUFFICES ASSUME Inv, Inv', [Next]_vars PROVE [PF!Next]_<<PublishedPrices, Now, Feeds>>
  OBVIOUS
<1> DEFINE Same == UNCHANGED <<latest, clock>>
<1>1. Same => UNCHANGED <<PublishedPrices, Now, Feeds>>
  BY DEF PublishedPrices, Now
<1>2. ASSUME NEW payload \in ProcessedPayloads, NEW trusted \in BOOLEAN,
             WritePrices(payload, trusted)
      PROVE  PF!Next
  <2>1. UNCHANGED Now
    BY <1>2 DEF WritePrices, Now
  <2>2. ASSUME NEW feed \in Feeds
        PROVE  \/ PublishedPrices'[feed] = PublishedPrices[feed]
               \/ PF!Published(feed, PublishedPrices'[feed])
    <3>1. PublishedPrices'[feed] =
            IF latest'[feed] = NoPrice THEN NoPrice ELSE Renamed(latest'[feed])
      BY DEF PublishedPrices, Renamed
    <3>2. CASE feed \notin Updated(payload, trusted)
      <4>1. latest'[feed] = latest[feed]
        BY <1>2, <3>2 DEF WritePrices
      <4> QED BY <3>1, <4>1, RenamedPrices
    <3>3. CASE feed \in Updated(payload, trusted)
      <4> DEFINE d == [price |-> payload.values[feed],
                       package_timestamp |-> payload.timestamp, write_timestamp |-> Now]
      <4>1. /\ d \in PriceData /\ latest'[feed] = d
            /\ latest[feed] # NoPrice =>
                 /\ latest[feed].package_timestamp < d.package_timestamp
                 /\ latest[feed].write_timestamp < d.write_timestamp
        BY <1>2, <3>3, UpdatedFeed
      <4>2. payload.values[feed] \in Quote[feed][payload.timestamp]
        BY <3>3, PayloadData DEF Updated, Inv, TypeOK
      <4>3. d.price \in Nat
        BY <4>1 DEF PriceData
      <4>4. PublishedPrices'[feed] = Renamed(d) /\ Renamed(d) # NoPrice
        BY <3>1, <4>1, RenamedIsPrice, OracleAssumption
      <4>5. PF!Honest(feed, Renamed(d))
        BY <4>2, <4>3 DEF PF!Honest, Renamed
      <4>6. PF!Later(PublishedPrices[feed], Renamed(d))
        <5>1. CASE latest[feed] = NoPrice
          BY <5>1, RenamedPrices DEF PF!Later
        <5>2. CASE latest[feed] # NoPrice
          BY <4>1, <5>2, RenamedPrices DEF PF!Later, Renamed
        <5> QED BY <5>1, <5>2
      <4>7. Renamed(d).write_timestamp = Now
        BY DEF Renamed
      <4> QED BY <4>4, <4>5, <4>6, <4>7 DEF PF!Published
    <3> QED BY <3>2, <3>3
  <2> QED BY <2>1, <2>2 DEF PF!Next, PF!Kept
<1>3. ASSUME NEW mapping \in FeedMapping, AddFeed(mapping) PROVE Same
  BY <1>3 DEF AddFeed
<1>4. ASSUME NEW feed \in SepFeeds, RemoveFeed(feed) PROVE Same
  BY <1>4 DEF RemoveFeed
<1>5. ASSUME NEW mapping \in FeedMapping, UpdateFeed(mapping) PROVE Same
  BY <1>5 DEF UpdateFeed
<1>6. CASE Tick
  <2>1. clock \in Nat /\ clock' = clock + 1 /\ UNCHANGED latest
    BY <1>6 DEF Tick, Inv, TypeOK
  <2>2. Now' > Now
    <3>1. Now = clock * MS_IN_SEC /\ Now' = (clock + 1) * MS_IN_SEC
      BY <2>1 DEF Now
    <3>2. (clock + 1) * MS_IN_SEC = clock * MS_IN_SEC + MS_IN_SEC
      BY <2>1, OracleAssumption
    <3>3. clock * MS_IN_SEC \in Nat /\ MS_IN_SEC \in Nat /\ MS_IN_SEC > 0
      BY <2>1, OracleAssumption
    <3> QED BY <3>1, <3>2, <3>3
  <2>3. UNCHANGED PublishedPrices
    BY <2>1 DEF PublishedPrices
  <2> QED BY <2>2, <2>3 DEF PF!Next
<1>7. CASE UNCHANGED vars
  BY <1>1, <1>7 DEF vars
<1> QED BY <1>1, <1>2, <1>3, <1>4, <1>5, <1>6, <1>7 DEF Next

\* The adapter implements PriceFeeds, from whatever prices its predecessor left: they
\* are only ever replaced by later and honest ones, stamped with the ledger's time.
THEOREM PriceFeedsImplemented == Spec => ImplementsPriceFeeds
  BY RefinesInit, RefinesStep, Invariance, PTL
     DEF Spec, PF!Spec, ImplementsPriceFeeds
=============================================================================
