------------------------ MODULE SuiPriceAdapterProofs ------------------------
(***************************************************************************)
(* Theorems about SuiPriceAdapter, for any signers, configurations and      *)
(* payloads within its assumptions.                                        *)
(***************************************************************************)
EXTENDS SuiPriceAdapter, FiniteLemmas

-----------------------------------------------------------------------------
(* What an accepted payload holds.                                          *)

\* The points of a feed with a faulty signer.
FaultyPoints(payload, feed) ==
  {d \in PointsOf(payload, Relevant(payload, feed), feed) : payload[d[1]].signer \in Faulty}

\* What the typing of payloads says of one point.
LEMMA PayloadPoint ==
  ASSUME NEW payload \in Payloads, NEW i \in DOMAIN payload,
         NEW j \in DOMAIN payload[i].points
  PROVE  /\ payload[i].timestamp \in Times /\ payload[i].timestamp \in Nat
         /\ payload[i].points[j].feed \in Feeds
         /\ payload[i].points[j].value \in Nat
         /\ i \in Nat /\ DOMAIN payload = 1 .. Len(payload) /\ Len(payload) \in Nat
<1>1. payload \in Seq(Package)
  BY PayloadAssumption
<1>2. payload[i] \in Package
  BY <1>1
<1>3. payload[i].points \in Seq(Point(Feeds, Nat)) /\ payload[i].timestamp \in Times
  BY <1>2 DEF Package
<1>4. payload[i].points[j] \in Point(Feeds, Nat)
  BY <1>3
<1>5. payload[i].points[j].feed \in Feeds /\ payload[i].points[j].value \in Nat
  BY <1>4 DEF Point
<1>6. i \in Nat /\ DOMAIN payload = 1 .. Len(payload) /\ Len(payload) \in Nat
  BY <1>1
<1>7. payload[i].timestamp \in Nat
  BY <1>3, DomainAssumption
<1> QED BY <1>3, <1>5, <1>6, <1>7

\* An accepted payload has, for its feed, finitely many points, one for each
\* relevant package, and fewer than half of them are of faulty signers.
LEMMA FaultyMinority ==
  ASSUME NEW payload \in Payloads, NEW feed \in Feeds, NEW c \in Configs, NEW now \in Nat,
         PayloadSound(payload, feed, c, now)
  PROVE  LET D == PointsOf(payload, Relevant(payload, feed), feed) IN
           /\ IsFiniteSet(D)
           /\ 2 * Cardinality(FaultyPoints(payload, feed)) < Cardinality(D)
<1> DEFINE R == Relevant(payload, feed)
           D == PointsOf(payload, R, feed)
           B == FaultyPoints(payload, feed)
           F == Faulty \cap c.signers
<1>1. payload \in Seq(Package) /\ R \in SUBSET DOMAIN payload
  BY PayloadAssumption DEF Relevant, WithoutZeros, WithFeed
<1>2. IsFiniteSet(R)
  <2>1. IsFiniteSet(DOMAIN payload)
    BY <1>1, FS_Interval
  <2> QED BY <1>1, <2>1, FS_Subset
<1>3. \A i \in R : \E j \in DOMAIN payload[i].points : payload[i].points[j].feed = feed
  BY DEF Relevant, WithoutZeros, WithFeed
<1>4. \A i \in R : \A j, k \in DOMAIN payload[i].points :
        payload[i].points[j].feed = payload[i].points[k].feed => j = k
  BY DEF PayloadSound, FeedsDistinct, Relevant, WithoutZeros
<1>5. /\ \A i \in R : payload[i].signer \in c.signers
      /\ \A i, j \in R : payload[i].signer = payload[j].signer => i = j
      /\ Cardinality(R) >= c.signer_count_threshold
  BY DEF PayloadSound, SignersSound
<1>6. \A d \in D : /\ d[1] \in R /\ d[2] \in DOMAIN payload[d[1]].points
                   /\ d = <<d[1], d[2]>>
                   /\ payload[d[1]].points[d[2]].feed = feed
  BY DEF PointsOf
<1>7. \A i \in R : \E d \in D : d[1] = i
  <2> TAKE i \in R
  <2>1. PICK j \in DOMAIN payload[i].points : payload[i].points[j].feed = feed
    BY <1>3
  <2>2. <<i, j>> \in {<<i, k>> : k \in {l \in DOMAIN payload[i].points :
                                       payload[i].points[l].feed = feed}}
    BY <2>1
  <2>3. <<i, j>> \in D
    BY <2>2 DEF PointsOf
  <2> QED BY <2>3
<1>8. \A d, e \in D : d[1] = e[1] => d = e
  <2> TAKE d, e \in D
  <2> HAVE d[1] = e[1]
  <2>1. d[2] = e[2]
    BY <1>4, <1>6
  <2> QED BY <1>6, <2>1
<1>9. IsFiniteSet(D) /\ Cardinality(D) = Cardinality(R)
  <2> DEFINE f == [d \in D |-> d[1]]
  <2>1. f \in Bijection(D, R)
    <3>1. f \in [D -> R]
      BY <1>6
    <3>2. \A d, e \in D : f[d] = f[e] => d = e
      BY <1>8
    <3>3. \A i \in R : \E d \in D : f[d] = i
      BY <1>7
    <3> HIDE DEF D, R, f
    <3> QED BY <3>1, <3>2, <3>3, Fun_IsBij
  <2> HIDE DEF D, R, f
  <2>2. ExistsBijection(R, D)
    BY <2>1, Fun_ExistsBijSymmetric DEF ExistsBijection
  <2> QED BY <1>2, <2>2, FS_Bijection
<1>10. /\ IsFiniteSet(F) /\ Cardinality(F) \in Nat
       /\ 2 * Cardinality(F) < c.signer_count_threshold
       /\ c.signer_count_threshold \in Nat
  <2>1. c.signers \in SUBSET Signers /\ c.signer_count_threshold \in Nat
    BY ConfigAssumption DEF ConfigType
  <2>2. F \in SUBSET Signers
    BY <2>1
  <2>3. IsFiniteSet(F)
    BY <2>2, DomainAssumption, FS_Subset
  <2> QED BY <2>1, <2>3, FaultAssumption, FS_CardinalityType
<1>11. Cardinality(B) <= Cardinality(F)
  <2> DEFINE g == [d \in B |-> payload[d[1]].signer]
  <2>1. B \in SUBSET D /\ \A d \in B : payload[d[1]].signer \in Faulty
    BY DEF FaultyPoints
  <2>2. g \in [B -> F]
    BY <1>5, <1>6, <2>1
  <2>3. \A d, e \in B : g[d] = g[e] => d = e
    <3> TAKE d, e \in B
    <3> HAVE g[d] = g[e]
    <3>1. d \in D /\ e \in D /\ payload[d[1]].signer = payload[e[1]].signer
      BY <2>1
    <3>2. d[1] = e[1]
      BY <1>5, <1>6, <3>1
    <3> QED BY <1>8, <3>1, <3>2
  <2> HIDE DEF B, F, g
  <2>4. g \in Injection(B, F)
    BY <2>2, <2>3, Fun_IsInj
  <2> QED BY <1>10, <2>4, FS_Injection
<1>12. Cardinality(B) \in Nat /\ Cardinality(R) \in Nat
  <2>1. B \in SUBSET D
    BY DEF FaultyPoints
  <2>2. IsFiniteSet(B)
    BY <1>9, <2>1, FS_Subset
  <2> QED BY <1>2, <2>2, FS_CardinalityType
<1>13. 2 * Cardinality(B) < Cardinality(D)
  <2> HIDE DEF B, F, D, R
  <2> QED BY <1>5, <1>9, <1>10, <1>11, <1>12
<1> QED BY <1>9, <1>13

\* A point that counts, of a signer that is not faulty, holds a value that honest
\* signers signed for the feed and the payload's timestamp.
LEMMA HonestPoint ==
  ASSUME NEW payload \in Payloads, NEW feed \in Feeds, NEW c \in Configs, NEW now \in Nat,
         PayloadSound(payload, feed, c, now),
         NEW d \in PointsOf(payload, Relevant(payload, feed), feed),
         payload[d[1]].signer \notin Faulty
  PROVE  LET t == PayloadTimestamp(payload, feed)
             x == payload[d[1]].points[d[2]].value % U256
         IN t \in Times /\ x \in Quote[feed][t] /\ x \in Nat
<1> DEFINE R == Relevant(payload, feed)
           i == d[1]
           j == d[2]
           t == PayloadTimestamp(payload, feed)
           value == payload[i].points[j].value
<1>1. i \in R /\ j \in DOMAIN payload[i].points /\ payload[i].points[j].feed = feed
  BY DEF PointsOf
<1>2. R \in SUBSET DOMAIN payload
  BY DEF Relevant, WithoutZeros, WithFeed
<1>3. /\ payload[i].timestamp \in Times /\ value \in Nat
      /\ DOMAIN payload = 1 .. Len(payload) /\ Len(payload) \in Nat
  BY <1>1, <1>2, PayloadPoint
<1>4. t = payload[i].timestamp
  <2>1. \E k \in R : \A l \in R : k <= l
    BY <1>1, <1>2, <1>3, LeastPosition
  <2>2. \A k \in R : payload[k].timestamp = payload[i].timestamp
    BY <1>1 DEF PayloadSound, TimestampsAgree
  <2> QED BY <2>1, <2>2 DEF PayloadTimestamp, Timestamp
<1>5. value # 0
  BY <1>1 DEF Relevant, WithoutZeros
<1>6. value \in Quote[feed][t]
  BY <1>1, <1>2, <1>4, <1>5, PayloadAssumption
<1>7. Quote[feed][t] \in SUBSET (1 .. U256 - 1)
  BY <1>3, <1>4, DomainAssumption
<1>8. value % U256 = value
  <2>1. value \in 1 .. U256 - 1 /\ U256 \in Nat
    BY <1>6, <1>7, WidthAssumption
  <2> HIDE DEF value
  <2> QED BY <2>1
<1> QED BY <1>3, <1>4, <1>6, <1>8

\* The value taken out of an accepted payload has honest values on both sides.
LEMMA PayloadHonest ==
  ASSUME NEW payload \in Payloads, NEW feed \in Feeds, NEW c \in Configs, NEW now \in Nat,
         PayloadSound(payload, feed, c, now)
  PROVE  LET t == PayloadTimestamp(payload, feed)
             x == PayloadValue(payload, feed)
         IN /\ x \in Nat /\ t \in Nat /\ t > 0
            /\ \E lo, hi \in Quote[feed][t] : lo <= x /\ x <= hi
<1> DEFINE D == PointsOf(payload, Relevant(payload, feed), feed)
           v == NumbersOf(payload, D)
           B == FaultyPoints(payload, feed)
           t == PayloadTimestamp(payload, feed)
<1>1. IsFiniteSet(D) /\ 2 * Cardinality(B) < Cardinality(D)
  BY FaultyMinority
<1>2. B \in SUBSET D
  BY DEF FaultyPoints
<1>3. v \in [D -> Nat]
  <2>1. \A d \in D : payload[d[1]].points[d[2]].value \in Nat
    <3> TAKE d \in D
    <3>1. /\ d[1] \in DOMAIN payload /\ d[2] \in DOMAIN payload[d[1]].points
      BY DEF PointsOf, Relevant, WithoutZeros, WithFeed
    <3> QED BY <3>1, PayloadPoint
  <2>2. \A d \in D : payload[d[1]].points[d[2]].value % U256 \in Nat
    BY <2>1, WidthAssumption
  <2> QED BY <2>2 DEF NumbersOf
<1>4. /\ Median(D, v) \in Nat
      /\ \E g, h \in D \ B : v[g] <= Median(D, v) /\ Median(D, v) <= v[h]
  <2> HIDE DEF D, v, B
  <2> QED BY <1>1, <1>2, <1>3, MedianHonest
<1>5. PayloadValue(payload, feed) = Median(D, v)
  BY DEF PayloadValue
<1>6. \A d \in D \ B : t \in Times /\ v[d] \in Quote[feed][t]
  <2> TAKE d \in D \ B
  <2>1. payload[d[1]].signer \notin Faulty
    BY DEF FaultyPoints
  <2>2. v[d] = payload[d[1]].points[d[2]].value % U256
    BY DEF NumbersOf
  <2> QED BY <2>1, <2>2, HonestPoint
<1>7. \E lo, hi \in Quote[feed][t] : lo <= Median(D, v) /\ Median(D, v) <= hi
  <2> HIDE DEF D, v, B, t
  <2> QED BY <1>4, <1>6
<1>8. t \in Nat /\ t > 0
  <2>1. t \in Times /\ Quote[feed][t] # {}
    BY <1>4, <1>6, <1>7
  <2> QED BY <2>1, DomainAssumption
<1> QED BY <1>4, <1>5, <1>7, <1>8

-----------------------------------------------------------------------------
(* The invariant and the steps.                                             *)

\* Inductive: types, and prices that are honest and not too far ahead of the clock.
Inv == TypeOK /\ HonestPrices /\ NeverLockedOut

\* What WritePrice puts into the entry of its feed, when it changes it.
LEMMA WrittenPrice ==
  ASSUME TypeOK, NEW feed \in Feeds, NEW payload \in Payloads, NEW sender \in Senders,
         WritePrice(feed, payload, sender), prices'[feed] # prices[feed]
  PROVE  LET t == PayloadTimestamp(payload, feed)
             x == PayloadValue(payload, feed)
         IN /\ prices'[feed] = [value |-> x, timestamp |-> t, write_timestamp |-> clock]
            /\ x \in Nat /\ t \in Nat
            /\ \E lo, hi \in Quote[feed][t] : lo <= x /\ x <= hi
            /\ prices[feed] # NoPrice => prices[feed].timestamp < t
            /\ t <= clock + config.max_timestamp_ahead_ms
<1> DEFINE t == PayloadTimestamp(payload, feed)
           x == PayloadValue(payload, feed)
<1>1. config \in Configs /\ clock \in Nat
  BY DEF TypeOK
<1>2. x \in Nat /\ t \in Nat /\ t > 0 /\ \E lo, hi \in Quote[feed][t] : lo <= x /\ x <= hi
  BY <1>1, PayloadHonest DEF WritePrice
<1>3. prices'[feed] = Overwritten(feed, x, t)
  BY DEF WritePrice, TypeOK
<1>6. t <= clock + config.max_timestamp_ahead_ms
  BY DEF WritePrice, PayloadSound, TimestampSound, PayloadTimestamp
<1> SUFFICES /\ prices'[feed] = [value |-> x, timestamp |-> t, write_timestamp |-> clock]
             /\ prices[feed] # NoPrice => prices[feed].timestamp < t
  BY <1>2, <1>6
<1> HIDE DEF t, x
<1>4. CASE prices[feed] = NoPrice
  BY <1>2, <1>3, <1>4 DEF Overwritten, DefaultPriceData
<1>5. CASE prices[feed] # NoPrice
  <2>1. prices[feed] \in PriceData
    BY <1>5 DEF TypeOK
  <2>2. prices[feed].timestamp \in Nat
    BY <2>1 DEF PriceData
  <2>3. ~(t <= prices[feed].timestamp)
    BY <1>3, <1>5 DEF Overwritten
  <2> QED BY <1>2, <1>3, <1>5, <2>2, <2>3 DEF Overwritten
<1> QED BY <1>4, <1>5

LEMMA InitInv == Init => Inv
<1> SUFFICES ASSUME Init PROVE Inv
  OBVIOUS
<1>1. /\ version \in {1, VERSION} /\ clock = 0 /\ config \in Configs
      /\ prices = [feed \in Feeds |-> NoPrice] \/ prices \in Tables
  BY DEF Init
<1>2. CASE prices = [feed \in Feeds |-> NoPrice]
  BY <1>1, <1>2 DEF TypeOK, HonestPrices, NeverLockedOut, Inv
<1>3. CASE prices \in Tables
  <2>1. TypeOK
    BY <1>1, <1>3, TableAssumption DEF TypeOK
  <2>2. HonestPrices
    BY <1>3, TableAssumption DEF HonestPrices
  <2>3. NeverLockedOut
    <3> SUFFICES ASSUME NEW feed \in Feeds, prices[feed] # NoPrice
                 PROVE  \E c \in Configs : prices[feed].timestamp <= clock + c.max_timestamp_ahead_ms
      BY DEF NeverLockedOut
    <3>1. PICK c \in Configs : prices[feed].timestamp <= c.max_timestamp_ahead_ms
      BY <1>3, TableAssumption
    <3>2. c.max_timestamp_ahead_ms \in Nat
      BY ConfigAssumption DEF ConfigType
    <3> QED BY <1>1, <3>1, <3>2
  <2> QED BY <2>1, <2>2, <2>3 DEF Inv
<1> QED BY <1>1, <1>2, <1>3

LEMMA StepInv == Inv /\ [Next]_vars => Inv'
<1> SUFFICES ASSUME TypeOK, HonestPrices, NeverLockedOut, [Next]_vars PROVE Inv'
  BY DEF Inv
<1>1. ASSUME NEW feed \in Feeds, NEW payload \in Payloads, NEW sender \in Senders,
             WritePrice(feed, payload, sender)
      PROVE  Inv'
  <2>1. \A other \in Feeds \ {feed} : prices'[other] = prices[other]
    BY <1>1 DEF WritePrice, TypeOK
  <2>2. DOMAIN prices' = Feeds /\ prices' = [f \in Feeds |-> prices'[f]]
    BY <1>1 DEF WritePrice, TypeOK
  <2>3. prices'[feed] # prices[feed] => prices'[feed] \in PriceData
    <3> HAVE prices'[feed] # prices[feed]
    <3> DEFINE t == PayloadTimestamp(payload, feed)
               x == PayloadValue(payload, feed)
    <3>1. clock \in Nat
      BY DEF TypeOK
    <3>2. /\ prices'[feed] = [value |-> x, timestamp |-> t, write_timestamp |-> clock]
          /\ x \in Nat /\ t \in Nat
      BY <1>1, WrittenPrice
    <3> HIDE DEF t, x
    <3> QED BY <3>1, <3>2 DEF PriceData
  <2>4. \A f \in Feeds : prices'[f] \in PriceData \cup {NoPrice}
    BY <2>1, <2>3 DEF TypeOK
  <2>5. prices' \in [Feeds -> PriceData \cup {NoPrice}]
    BY <2>2, <2>4
  <2>6. TypeOK'
    BY <1>1, <2>5 DEF TypeOK, WritePrice
  <2>7. prices'[feed] # prices[feed] =>
          \E lo, hi \in Quote[feed][prices'[feed].timestamp] :
            lo <= prices'[feed].value /\ prices'[feed].value <= hi
    <3> HAVE prices'[feed] # prices[feed]
    <3> DEFINE t == PayloadTimestamp(payload, feed)
               x == PayloadValue(payload, feed)
    <3>1. /\ prices'[feed] = [value |-> x, timestamp |-> t, write_timestamp |-> clock]
          /\ \E lo, hi \in Quote[feed][t] : lo <= x /\ x <= hi
      BY <1>1, WrittenPrice
    <3> HIDE DEF t, x
    <3> QED BY <3>1
  <2>8. HonestPrices'
    BY <2>1, <2>7 DEF HonestPrices
  <2>9. \A f \in Feeds : prices'[f] # NoPrice =>
          \E c \in Configs : prices'[f].timestamp <= clock + c.max_timestamp_ahead_ms
    <3>1. prices'[feed] # prices[feed] =>
            prices'[feed].timestamp <= clock + config.max_timestamp_ahead_ms
      <4> HAVE prices'[feed] # prices[feed]
      <4> DEFINE t == PayloadTimestamp(payload, feed)
                 x == PayloadValue(payload, feed)
      <4>1. /\ prices'[feed] = [value |-> x, timestamp |-> t, write_timestamp |-> clock]
            /\ t <= clock + config.max_timestamp_ahead_ms
        BY <1>1, WrittenPrice
      <4> HIDE DEF t, x
      <4> QED BY <4>1
    <3>2. config \in Configs
      BY DEF TypeOK
    <3> QED BY <2>1, <3>1, <3>2 DEF NeverLockedOut
  <2>10. NeverLockedOut'
    BY <1>1, <2>9 DEF NeverLockedOut, WritePrice
  <2> QED BY <2>6, <2>8, <2>10 DEF Inv
<1>2. ASSUME NEW new \in Configs, UpdateConfig(new) PROVE Inv'
  BY <1>2 DEF UpdateConfig, TypeOK, HonestPrices, NeverLockedOut, Inv
<1>3. CASE MigrateToVersion2
  BY <1>3 DEF MigrateToVersion2, TypeOK, HonestPrices, NeverLockedOut, Inv
<1>4. CASE Tick
  <2>1. TypeOK' /\ HonestPrices'
    BY <1>4 DEF Tick, TypeOK, HonestPrices
  <2>2. ASSUME NEW f \in Feeds, prices[f] # NoPrice
        PROVE  \E c \in Configs : prices[f].timestamp <= clock + 1 + c.max_timestamp_ahead_ms
    <3>1. PICK c \in Configs : prices[f].timestamp <= clock + c.max_timestamp_ahead_ms
      BY <2>2 DEF NeverLockedOut
    <3>2. /\ prices[f].timestamp \in Nat /\ clock \in Nat
          /\ c.max_timestamp_ahead_ms \in Nat
      BY <2>2, ConfigAssumption DEF TypeOK, PriceData, ConfigType
    <3> QED BY <3>1, <3>2
  <2>3. NeverLockedOut'
    BY <1>4, <2>2 DEF Tick, NeverLockedOut
  <2> QED BY <2>1, <2>3 DEF Inv
<1>5. CASE UNCHANGED vars
  BY <1>5 DEF vars, TypeOK, HonestPrices, NeverLockedOut, Inv
<1> QED BY <1>1, <1>2, <1>3, <1>4, <1>5 DEF Next

LEMMA Invariance == Spec => []Inv
  BY InitInv, StepInv, PTL DEF Spec

\* The table, the configuration, the version and the clock keep their types: in
\* particular update_config, which replaces every field, never leaves Configs.
THEOREM TypeCorrect == Spec => []TypeOK
<1>1. Inv => TypeOK
  BY DEF Inv
<1> QED BY <1>1, Invariance, PTL

\* The value of every entry lies between values that honest signers signed for its
\* feed and timestamp, whatever payloads updaters submit.
THEOREM PricesHonest == Spec => []HonestPrices
<1>1. Inv => HonestPrices
  BY DEF Inv
<1> QED BY <1>1, Invariance, PTL

\* The timestamp of an entry is never further ahead of the clock than some
\* configuration allows: verify_timestamp bounds it at the write, and time goes on.
THEOREM NotLockedOut == Spec => []NeverLockedOut
<1>1. Inv => NeverLockedOut
  BY DEF Inv
<1> QED BY <1>1, Invariance, PTL

\* The packages that count for a feed, in the terms of FreshQuorum.
LEMMA RelevantPackages ==
  ASSUME NEW payload, NEW feed
  PROVE  Relevant(payload, feed) =
           {i \in DOMAIN payload :
              /\ \E j \in DOMAIN payload[i].points : payload[i].points[j].feed = feed
              /\ \A j \in DOMAIN payload[i].points : payload[i].points[j].value # 0}
  BY DEF Relevant, WithoutZeros, WithFeed

LEMMA QuorumSound ==
  ASSUME TypeOK, NEW payload \in Payloads, NEW feed \in Feeds, FreshQuorum(payload, feed),
         clock + config.max_timestamp_delay_ms <= U64,
         clock + config.max_timestamp_ahead_ms <= U64
  PROVE  PayloadSound(payload, feed, config, clock)
<1> DEFINE R == Relevant(payload, feed)
<1>1. /\ clock \in Nat /\ config.signers \in SUBSET Signers
      /\ config.signer_count_threshold \in Nat
      /\ config.max_timestamp_delay_ms \in Nat /\ config.max_timestamp_ahead_ms \in Nat
      /\ 2 * Cardinality(Faulty \cap config.signers) < config.signer_count_threshold
  BY ConfigAssumption, FaultAssumption DEF TypeOK, ConfigType
<1>2. R \in SUBSET DOMAIN payload /\ Cardinality(R) >= config.signer_count_threshold
  BY RelevantPackages DEF FreshQuorum
<1>3. R # {}
  <2>1. IsFiniteSet(Faulty \cap config.signers)
    BY <1>1, DomainAssumption, FS_Subset
  <2>2. Cardinality(Faulty \cap config.signers) \in Nat
    BY <2>1, FS_CardinalityType
  <2>3. config.signer_count_threshold > 0
    BY <1>1, <2>2
  <2>4. Cardinality({}) = 0
    BY FS_EmptySet
  <2> HIDE DEF R
  <2> QED BY <1>1, <1>2, <2>3, <2>4
<1>4. /\ \A i \in DOMAIN payload : payload[i].timestamp = clock
      /\ \A i \in DOMAIN payload : payload[i].signer \in config.signers
      /\ \A i, j \in DOMAIN payload : payload[i].signer = payload[j].signer => i = j
      /\ \A i \in DOMAIN payload : \A j, k \in DOMAIN payload[i].points :
           payload[i].points[j].feed = payload[i].points[k].feed => j = k
  BY DEF FreshQuorum
<1>5. FeedsDistinct(payload, WithFeed(payload, feed))
  BY <1>4 DEF FeedsDistinct, WithFeed
<1>6. TimestampsAgree(payload, R)
  BY <1>2, <1>3, <1>4 DEF TimestampsAgree
<1>7. TimestampSound(Timestamp(payload, R), config, clock)
  <2>1. DOMAIN payload = 1 .. Len(payload) /\ Len(payload) \in Nat
    BY PayloadAssumption
  <2>2. \E k \in R : \A l \in R : k <= l
    BY <1>2, <1>3, <2>1, LeastPosition
  <2> HIDE DEF R
  <2>3. Timestamp(payload, R) = clock
    BY <1>2, <1>4, <2>2 DEF Timestamp
  <2> QED BY <1>1, <2>3 DEF TimestampSound
<1>8. SignersSound(payload, R, config)
  BY <1>2, <1>4 DEF SignersSound
<1> QED BY <1>5, <1>6, <1>7, <1>8 DEF PayloadSound

\* A payload with a quorum of honest signers for the current time is accepted in
\* every reachable state, whatever zeros and other feeds its packages hold.
THEOREM FreshQuorumsAccepted == Spec => []FreshQuorumAccepted
<1>1. TypeOK => FreshQuorumAccepted
  BY QuorumSound DEF FreshQuorumAccepted
<1> QED BY <1>1, TypeCorrect, PTL

-----------------------------------------------------------------------------
(* Refinement.                                                              *)

LEMMA RefinesInit == Init => PF!Init
<1> SUFFICES ASSUME Init PROVE PF!Init
  OBVIOUS
<1>1. TypeOK /\ HonestPrices /\ clock = 0
  BY InitInv DEF Inv, Init
<1>2. \A feed \in Feeds : prices[feed] # NoPrice => prices[feed].write_timestamp = 0
  BY TableAssumption DEF Init
<1> QED BY <1>1, <1>2 DEF TypeOK, HonestPrices, PF!Init, PF!Honest

LEMMA RefinesStep == TypeOK /\ [Next]_vars => [PF!Next]_<<prices, clock, Feeds>>
<1> SUFFICES ASSUME TypeOK, [Next]_vars PROVE [PF!Next]_<<prices, clock, Feeds>>
  OBVIOUS
<1>1. ASSUME NEW feed \in Feeds, NEW payload \in Payloads, NEW sender \in Senders,
             WritePrice(feed, payload, sender)
      PROVE  PF!Next
  <2>1. \A other \in Feeds \ {feed} : prices'[other] = prices[other]
    BY <1>1 DEF WritePrice, TypeOK
  <2>2. ASSUME prices'[feed] # prices[feed] PROVE PF!Published(feed, prices'[feed])
    <3> DEFINE t == PayloadTimestamp(payload, feed)
               x == PayloadValue(payload, feed)
    <3>1. /\ prices'[feed] = [value |-> x, timestamp |-> t, write_timestamp |-> clock]
          /\ x \in Nat /\ t \in Nat
          /\ \E lo, hi \in Quote[feed][t] : lo <= x /\ x <= hi
          /\ prices[feed] # NoPrice => prices[feed].timestamp < t
      BY <1>1, <2>2, WrittenPrice
    <3>2. clock \in Nat
      BY DEF TypeOK
    <3> HIDE DEF t, x
    <3>3. prices'[feed] # NoPrice
      BY <3>1, <3>2, DomainAssumption DEF PriceData
    <3>4. PF!Honest(feed, prices'[feed])
      BY <3>1 DEF PF!Honest
    <3>5. PF!Later(prices[feed], prices'[feed])
      <4>1. CASE prices[feed] = NoPrice
        BY <4>1 DEF PF!Later
      <4>2. CASE prices[feed] # NoPrice
        <5>1. prices[feed].write_timestamp \in Nat
          BY <4>2 DEF TypeOK, PriceData
        <5>2. prices[feed].write_timestamp + Interval(sender) <= clock
          BY <1>1, <4>2 DEF WritePrice, UpdateTimeSound
        <5>3. config.min_interval_between_updates_ms \in Nat
          BY ConfigAssumption DEF TypeOK, ConfigType
        <5>4. prices[feed].write_timestamp < clock
          BY <3>2, <5>1, <5>2, <5>3 DEF Interval
        <5> QED BY <3>1, <4>2, <5>4 DEF PF!Later
      <4> QED BY <4>1, <4>2
    <3> QED BY <3>1, <3>3, <3>4, <3>5 DEF PF!Published
  <2>3. \A f \in Feeds : prices'[f] = prices[f] \/ PF!Published(f, prices'[f])
    BY <2>1, <2>2
  <2>4. UNCHANGED clock
    BY <1>1 DEF WritePrice
  <2> QED BY <2>3, <2>4 DEF PF!Next, PF!Kept
<1>2. ASSUME NEW new \in Configs, UpdateConfig(new) PROVE UNCHANGED <<prices, clock>>
  BY <1>2 DEF UpdateConfig
<1>3. CASE MigrateToVersion2
  BY <1>3 DEF MigrateToVersion2
<1>4. CASE Tick
  BY <1>4 DEF Tick, TypeOK, PF!Next
<1>5. CASE UNCHANGED vars
  BY <1>5 DEF vars
<1> QED BY <1>1, <1>2, <1>3, <1>4, <1>5 DEF Next

\* The contract implements PriceFeeds: prices are only ever replaced by later and
\* honest ones, stamped with the time of their write.
THEOREM PriceFeedsImplemented == Spec => ImplementsPriceFeeds
  BY RefinesInit, RefinesStep, TypeCorrect, PTL
     DEF Spec, PF!Spec, ImplementsPriceFeeds
=============================================================================
