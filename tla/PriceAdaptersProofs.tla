------------------------- MODULE PriceAdaptersProofs -------------------------
(***************************************************************************)
(* Theorems about PriceAdapters, for any feeds, signers, payloads, windows  *)
(* and limits within its assumptions, on every chain.                      *)
(***************************************************************************)
EXTENDS PriceAdapters, FiniteLemmas

-----------------------------------------------------------------------------
(* Payloads.                                                                *)

\* What the typing of payloads and the honesty of signers say of one point.
LEMMA PayloadPoint ==
  ASSUME NEW payload \in Payloads, NEW i \in DOMAIN payload,
         NEW j \in DOMAIN payload[i].points
  PROVE  /\ payload[i].timestamp \in Times /\ payload[i].timestamp \in Nat
         /\ payload[i].points[j].feed \in Feeds
         /\ payload[i].points[j].value \in Nat
         /\ DOMAIN payload = 1 .. Len(payload) /\ Len(payload) \in Nat
         /\ DOMAIN payload[i].points = 1 .. Len(payload[i].points)
         /\ Len(payload[i].points) \in Nat
         /\ payload[i].signer \notin Faulty =>
              payload[i].points[j].value
                \in Quote[payload[i].points[j].feed][payload[i].timestamp]
<1>1. payload \in Seq(Package)
  BY ChainAssumption
<1>2. payload[i] \in Package
  BY <1>1
<1>3. payload[i].points \in Seq(Point(Feeds, Nat)) /\ payload[i].timestamp \in Times
  BY <1>2 DEF Package
<1>4. payload[i].points[j] \in Point(Feeds, Nat)
  BY <1>3
<1>5. payload[i].points[j].feed \in Feeds /\ payload[i].points[j].value \in Nat
  BY <1>4 DEF Point
<1>6. payload[i].timestamp \in Nat
  BY <1>3, ChainAssumption
<1>7. payload[i].signer \notin Faulty =>
        payload[i].points[j].value
          \in Quote[payload[i].points[j].feed][payload[i].timestamp]
  BY ChainAssumption
<1>8. /\ DOMAIN payload = 1 .. Len(payload) /\ Len(payload) \in Nat
      /\ DOMAIN payload[i].points = 1 .. Len(payload[i].points)
      /\ Len(payload[i].points) \in Nat
  BY <1>1, <1>3
<1> QED BY <1>3, <1>5, <1>6, <1>7, <1>8

LEMMA PackageTime ==
  ASSUME NEW payload \in Payloads, NEW i \in DOMAIN payload
  PROVE  payload[i].timestamp \in Times /\ payload[i].timestamp \in Nat
<1>1. payload \in Seq(Package) /\ Times \subseteq Nat
  BY ChainAssumption
<1>2. payload[i] \in Package
  BY <1>1
<1> QED BY <1>1, <1>2 DEF Package

\* The points of a feed, as pairs of positions.
LEMMA PointsOfFeed ==
  ASSUME NEW payload, NEW I, NEW feed, NEW d
  PROVE  d \in PointsOf(payload, I, feed) <=>
           \E i \in I : \E j \in DOMAIN payload[i].points :
             d = <<i, j>> /\ payload[i].points[j].feed = feed
  BY DEF PointsOf

\* What honest signers signed is a positive number.
LEMMA QuotedPositive ==
  ASSUME NEW feed \in Feeds, NEW t \in Times, NEW x \in Quote[feed][t]
  PROVE  x \in Nat /\ x > 0 /\ t \in Nat
<1>1. Quote[feed][t] \in SUBSET (1 .. U256 - 1) /\ t \in Nat
  BY ChainAssumption
<1>2. x \in 1 .. U256 - 1 /\ U256 \in Nat
  BY <1>1, WidthAssumption
<1> QED BY <1>1, <1>2

\* The configured signers are finitely many, and fewer than half of a threshold of
\* them are faulty.
LEMMA ConfigFacts ==
  /\ config.signer_count_threshold \in Nat \ {0}
  /\ config.max_timestamp_delay_ms \in Nat /\ config.max_timestamp_ahead_ms \in Nat
  /\ config.min_interval_between_updates_ms \in Nat
  /\ IsFiniteSet(config.signers) /\ IsFiniteSet(Faulty \cap config.signers)
  /\ Cardinality(Faulty \cap config.signers) \in Nat
  /\ 2 * Cardinality(Faulty \cap config.signers) < config.signer_count_threshold
<1>1. /\ config \in Config /\ IsFiniteSet(Signers)
      /\ 2 * Cardinality(Faulty \cap config.signers) < config.signer_count_threshold
  BY ChainAssumption
<1>2. /\ config.signers \in SUBSET Signers /\ config.signer_count_threshold \in Nat \ {0}
      /\ config.max_timestamp_delay_ms \in Nat /\ config.max_timestamp_ahead_ms \in Nat
      /\ config.min_interval_between_updates_ms \in Nat
  BY <1>1 DEF Config
<1>3. IsFiniteSet(config.signers) /\ IsFiniteSet(Faulty \cap config.signers)
  BY <1>1, <1>2, FS_Subset
<1> QED BY <1>1, <1>2, <1>3, FS_CardinalityType

\* The median of values of a threshold of distinct configured signers lies between
\* values of honest ones.
LEMMA FamilyHonest ==
  ASSUME NEW D, NEW v \in [D -> Nat], NEW signer \in [D -> config.signers],
         \A d, e \in D : signer[d] = signer[e] => d = e,
         Cardinality(D) >= config.signer_count_threshold,
         NEW Q, \A d \in D : signer[d] \notin Faulty => v[d] \in Q
  PROVE  /\ Median(D, v) \in Nat
         /\ \E lo, hi \in Q : lo <= Median(D, v) /\ Median(D, v) <= hi
<1> DEFINE B == {d \in D : signer[d] \in Faulty}
           F == Faulty \cap config.signers
<1>1. IsFiniteSet(D)
  <2>1. signer \in Injection(D, config.signers)
    BY Fun_IsInj
  <2> QED BY <2>1, ConfigFacts, FS_Injection
<1>2. Cardinality(B) <= Cardinality(F)
  <2> DEFINE g == [d \in B |-> signer[d]]
  <2>1. g \in [B -> F] /\ \A d, e \in B : g[d] = g[e] => d = e
    OBVIOUS
  <2>2. IsFiniteSet(F)
    BY ConfigFacts
  <2> HIDE DEF B, F, g
  <2>3. g \in Injection(B, F)
    BY <2>1, Fun_IsInj
  <2> QED BY <2>2, <2>3, FS_Injection
<1>3. B \in SUBSET D
  OBVIOUS
<1>4. 2 * Cardinality(B) < Cardinality(D)
  <2>1. Cardinality(B) \in Nat /\ Cardinality(D) \in Nat
    BY <1>1, <1>3, FS_Subset, FS_CardinalityType
  <2>2. /\ Cardinality(F) \in Nat /\ config.signer_count_threshold \in Nat
        /\ 2 * Cardinality(F) < config.signer_count_threshold
    BY ConfigFacts
  <2> HIDE DEF B, F
  <2> QED BY <1>2, <2>1, <2>2
<1>5. /\ Median(D, v) \in Nat
      /\ \E g, h \in D \ B : v[g] <= Median(D, v) /\ Median(D, v) <= v[h]
  <2> HIDE DEF B
  <2> QED BY <1>1, <1>3, <1>4, MedianHonest
<1>6. \A d \in D \ B : v[d] \in Q
  OBVIOUS
<1> QED BY <1>5, <1>6

\* The points of a feed in some packages are finitely many, and where each package has
\* one, no fewer than the packages.
LEMMA PointsFinite ==
  ASSUME NEW payload \in Payloads, NEW feed, NEW R \in SUBSET WithFeed(payload, feed)
  PROVE  /\ IsFiniteSet(R) /\ IsFiniteSet(PointsOf(payload, R, feed))
         /\ Cardinality(R) <= Cardinality(PointsOf(payload, R, feed))
<1> DEFINE D == PointsOf(payload, R, feed)
           J(i) == {k \in DOMAIN payload[i].points : payload[i].points[k].feed = feed}
           At(i) == {<<i, j>> : j \in J(i)}
<1>1. payload \in Seq(Package) /\ DOMAIN payload = 1 .. Len(payload) /\ Len(payload) \in Nat
  BY ChainAssumption
<1>2. R \in SUBSET DOMAIN payload
  BY DEF WithFeed
<1>3. IsFiniteSet(R)
  <2>1. IsFiniteSet(1 .. Len(payload))
    BY <1>1, FS_Interval
  <2> QED BY <1>1, <1>2, <2>1, FS_Subset
<1>4. ASSUME NEW i \in R PROVE IsFiniteSet(At(i)) /\ J(i) # {}
  <2>1. PICK k \in DOMAIN payload[i].points : payload[i].points[k].feed = feed
    BY DEF WithFeed
  <2>2. DOMAIN payload[i].points = 1 .. Len(payload[i].points) /\ Len(payload[i].points) \in Nat
    BY <1>2, <2>1, PayloadPoint
  <2>3. IsFiniteSet(1 .. Len(payload[i].points))
    BY <2>2, FS_Interval
  <2>4. J(i) \in SUBSET (1 .. Len(payload[i].points))
    BY <2>2
  <2>5. IsFiniteSet(J(i))
    <3> HIDE DEF J
    <3> QED BY <2>3, <2>4, FS_Subset
  <2> DEFINE h == [j \in J(i) |-> <<i, j>>]
  <2>6. h \in Surjection(J(i), At(i))
    <3>1. h \in [J(i) -> At(i)] /\ \A d \in At(i) : \E j \in J(i) : h[j] = d
      OBVIOUS
    <3> HIDE DEF h, At, J
    <3> QED BY <3>1, Fun_IsSurj
  <2>7. IsFiniteSet(At(i))
    <3> HIDE DEF h, At, J
    <3> QED BY <2>5, <2>6, FS_Surjection
  <2> QED BY <2>1, <2>7
<1>5. IsFiniteSet(D)
  <2> DEFINE S == {At(i) : i \in R}
             g == [i \in R |-> At(i)]
  <2>1. D = UNION S
    BY DEF PointsOf
  <2>2. g \in Surjection(R, S)
    <3> HIDE DEF At
    <3>1. g \in [R -> S] /\ \A T \in S : \E i \in R : g[i] = T
      OBVIOUS
    <3> HIDE DEF g, S
    <3> QED BY <3>1, Fun_IsSurj
  <2>3. IsFiniteSet(S)
    <3> HIDE DEF g, S
    <3> QED BY <1>3, <2>2, FS_Surjection
  <2>4. \A T \in S : IsFiniteSet(T)
    <3> HIDE DEF At
    <3> QED BY <1>4
  <2> HIDE DEF D, S
  <2> QED BY <2>1, <2>3, <2>4, FS_UNION
<1>6. Cardinality(R) <= Cardinality(D)
  <2> DEFINE g == [i \in R |-> CHOOSE d \in D : d[1] = i]
  <2>1. \A i \in R : \E d \in D : d[1] = i
    <3> TAKE i \in R
    <3>1. PICK j \in J(i) : TRUE
      BY <1>4
    <3>2. <<i, j>> \in D
      BY <3>1, PointsOfFeed
    <3> QED BY <3>2
  <2>2. \A i \in R : g[i] \in D /\ g[i][1] = i
    BY <2>1
  <2> HIDE DEF D
  <2>3. g \in [R -> D] /\ \A i, j \in R : g[i] = g[j] => i = j
    BY <2>2
  <2> HIDE DEF g
  <2>4. g \in Injection(R, D)
    BY <2>3, Fun_IsInj
  <2> QED BY <1>5, <2>4, FS_Injection
<1> QED BY <1>3, <1>5, <1>6

\* Aptos: packages that are verified for a feed give a value, and one between honest ones
\* of their time if no faulty signer repeats the feed.
LEMMA AptosHonest ==
  ASSUME NEW payload \in Payloads, NEW feed \in Feeds,
         DataPackagesVerified(payload, WithFeed(payload, feed))
  PROVE  LET t == Timestamp(payload, WithFeed(payload, feed))
             x == AptosValue(payload, feed)
         IN /\ t \in Times /\ x \in Nat
            /\ RepeatedIn(payload, feed)
               \/ \E lo, hi \in Quote[feed][t] : lo <= x /\ x <= hi
<1> DEFINE R == WithFeed(payload, feed)
           D == PointsOf(payload, R, feed)
           t == Timestamp(payload, R)
           v == [d \in D |-> payload[d[1]].points[d[2]].value]
           B == {d \in D : payload[d[1]].signer \in Faulty}
           F == Faulty \cap config.signers
<1>1. /\ R \in SUBSET DOMAIN payload
      /\ \A i \in R : \E j \in DOMAIN payload[i].points : payload[i].points[j].feed = feed
  BY DEF WithFeed
<1>2. /\ R # {} /\ \A i, j \in R : payload[i].timestamp = payload[j].timestamp
      /\ \A i \in R : payload[i].signer \in config.signers
      /\ \A i, j \in R : payload[i].signer = payload[j].signer => i = j
      /\ Cardinality(R) >= config.signer_count_threshold
  BY DEF DataPackagesVerified, TimestampsAgree, SignersSound
<1>3. IsFiniteSet(R) /\ IsFiniteSet(D) /\ Cardinality(R) <= Cardinality(D)
  BY PointsFinite
<1>4. \A d \in D : /\ d[1] \in R /\ d[2] \in DOMAIN payload[d[1]].points
                   /\ d = <<d[1], d[2]>>
                   /\ payload[d[1]].points[d[2]].feed = feed
  BY PointsOfFeed
<1>5. t \in Times /\ \A i \in R : payload[i].timestamp = t
  <2>1. DOMAIN payload = 1 .. Len(payload) /\ Len(payload) \in Nat
    BY ChainAssumption
  <2>2. PICK k \in R : \A l \in R : k <= l
    BY <1>1, <1>2, <2>1, LeastPosition
  <2>3. \A i \in R : payload[i].timestamp = t
    BY <1>2, <2>2 DEF Timestamp
  <2>4. payload[k].timestamp \in Times
    BY <1>1, <2>2, PayloadPoint
  <2> QED BY <2>2, <2>3, <2>4
<1>6. \A d \in D : /\ v[d] \in Nat
                   /\ payload[d[1]].signer \notin Faulty => v[d] \in Quote[feed][t]
  BY <1>1, <1>4, <1>5, PayloadPoint
<1>7. v \in [D -> Nat] /\ B \in SUBSET D /\ {} \in SUBSET D
  BY <1>6
<1>8. /\ Cardinality(D) \in Nat /\ Cardinality(R) \in Nat /\ Cardinality(B) \in Nat
      /\ Cardinality(D) >= config.signer_count_threshold
  <2>1. Cardinality(D) \in Nat /\ Cardinality(R) \in Nat
    BY <1>3, FS_CardinalityType
  <2>2. Cardinality(B) \in Nat
    BY <1>3, <1>7, FS_Subset, FS_CardinalityType
  <2> HIDE DEF D, R, B
  <2> QED BY <1>2, <1>3, <2>1, <2>2, ConfigFacts
<1>9. AptosValue(payload, feed) = Median(D, v)
  BY DEF AptosValue
<1>10. Median(D, v) \in Nat
  <2> HIDE DEF D, v
  <2>1. 2 * Cardinality({}) < Cardinality(D)
    BY <1>8, ConfigFacts, FS_EmptySet
  <2> QED BY <1>3, <1>7, <2>1, MedianHonest
<1>11. ASSUME ~RepeatedIn(payload, feed)
       PROVE  \E lo, hi \in Quote[feed][t] : lo <= Median(D, v) /\ Median(D, v) <= hi
  <2> DEFINE g == [d \in B |-> payload[d[1]].signer]
  <2>1. g \in [B -> F]
    BY <1>2, <1>4
  <2>2. \A d, e \in B : g[d] = g[e] => d = e
    <3> TAKE d, e \in B
    <3> HAVE g[d] = g[e]
    <3>1. d[1] = e[1]
      BY <1>2, <1>4
    <3>2. d[2] = e[2]
      BY <1>1, <1>4, <1>11, <3>1 DEF RepeatedIn
    <3> QED BY <1>4, <3>1, <3>2
  <2>3. Cardinality(B) <= Cardinality(F)
    <3> HIDE DEF B, F, g
    <3>1. g \in Injection(B, F)
      BY <2>1, <2>2, Fun_IsInj
    <3>2. IsFiniteSet(F)
      BY ConfigFacts DEF F
    <3> QED BY <3>1, <3>2, FS_Injection
  <2>4. 2 * Cardinality(B) < Cardinality(D)
    <3>1. /\ Cardinality(F) \in Nat /\ config.signer_count_threshold \in Nat
          /\ 2 * Cardinality(F) < config.signer_count_threshold
      BY ConfigFacts
    <3> HIDE DEF B, F, D
    <3> QED BY <1>8, <2>3, <3>1
  <2>5. \E d, e \in D \ B : v[d] <= Median(D, v) /\ Median(D, v) <= v[e]
    <3> HIDE DEF B, D, v
    <3> QED BY <1>3, <1>7, <2>4, MedianHonest
  <2>6. \A d \in D \ B : v[d] \in Quote[feed][t]
    BY <1>6
  <2> HIDE DEF B, D, v, t
  <2> QED BY <2>5, <2>6
<1> QED BY <1>5, <1>9, <1>10, <1>11

\* The greatest of finitely many positions.
LEMMA GreatestPosition ==
  ASSUME NEW n \in Nat, NEW K \in SUBSET (1 .. n), K # {}
  PROVE  \E i \in K : \A j \in K : j <= i
<1>1. IsFiniteSet(K)
  <2>1. IsFiniteSet(1 .. n)
    BY FS_Interval
  <2> QED BY <2>1, FS_Subset
<1> DEFINE v == [i \in K |-> i]
<1>2. v \in [K -> Nat]
  OBVIOUS
<1>3. \E i \in K : \A j \in K : v[j] <= v[i]
  <2> HIDE DEF v
  <2> QED BY <1>1, <1>2, GreatestValue
<1> QED BY <1>3

\* A slot that is not empty has a last position.
LEMMA LastInSlot ==
  ASSUME NEW payload \in Payloads, NEW feed, NEW signer, Slot(payload, feed, signer) # {}
  PROVE  LastPosition(Slot(payload, feed, signer)) \in Slot(payload, feed, signer)
<1> DEFINE D == Slot(payload, feed, signer)
           Last(d) == \A e \in D : e[1] < d[1] \/ (e[1] = d[1] /\ e[2] <= d[2])
           I == {d[1] : d \in D}
<1>1. \A d \in D : /\ d[1] \in DOMAIN payload /\ d[2] \in DOMAIN payload[d[1]].points
                   /\ d = <<d[1], d[2]>>
  BY PointsOfFeed DEF Slot
<1>2. DOMAIN payload = 1 .. Len(payload) /\ Len(payload) \in Nat
  BY ChainAssumption
<1>3. PICK m \in I : \A i \in I : i <= m
  <2>1. I \in SUBSET (1 .. Len(payload)) /\ I # {}
    BY <1>1, <1>2
  <2> HIDE DEF I
  <2> QED BY <1>2, <2>1, GreatestPosition
<1> DEFINE J == {d[2] : d \in {e \in D : e[1] = m}}
<1>4. PICK n \in J : \A j \in J : j <= n
  <2>1. m \in DOMAIN payload /\ J # {} /\ J \in SUBSET DOMAIN payload[m].points
    BY <1>1, <1>3
  <2>2. /\ DOMAIN payload[m].points = 1 .. Len(payload[m].points)
        /\ Len(payload[m].points) \in Nat
    BY <2>1, PayloadPoint
  <2> HIDE DEF J
  <2> QED BY <2>1, <2>2, GreatestPosition
<1>5. PICK d \in D : d[1] = m /\ d[2] = n
  BY <1>4
<1>6. Last(d)
  <2> SUFFICES ASSUME NEW e \in D PROVE e[1] < d[1] \/ (e[1] = d[1] /\ e[2] <= d[2])
    OBVIOUS
  <2>1. e[1] \in Nat /\ d[1] \in Nat /\ e[1] <= d[1]
    BY <1>1, <1>2, <1>3, <1>5
  <2>2. e[1] = d[1] => e[2] <= d[2]
    BY <1>4, <1>5
  <2> QED BY <2>1, <2>2
<1>7. LastPosition(D) = CHOOSE x \in D : Last(x)
  BY DEF LastPosition
<1> HIDE DEF Last
<1>8. (CHOOSE x \in D : Last(x)) \in D
  BY <1>6
<1> QED BY <1>7, <1>8

\* Starknet and TON: the median of a full row lies between values that honest signers
\* signed no earlier than the oldest package of a configured signer with the feed.
LEMMA RowHonest ==
  ASSUME NEW payload \in Payloads, NEW feed \in Feeds, NEW since \in Nat,
         Cardinality(DOMAIN Row(payload, feed)) >= config.signer_count_threshold,
         \A d \in PointsOf(payload, DOMAIN payload, feed) :
           payload[d[1]].signer \in config.signers => payload[d[1]].timestamp >= since
  PROVE  LET x == Median(DOMAIN Row(payload, feed), Row(payload, feed)) IN
           /\ x \in Nat /\ x > 0
           /\ Rounds!HonestSince(feed, x, since)
<1> DEFINE D == DOMAIN Row(payload, feed)
           v == Row(payload, feed)
           Q == UNION {Quote[feed][t] : t \in {time \in Times : time >= since}}
           signer == [s \in D |-> s]
<1>1. /\ D = {s \in config.signers : Slot(payload, feed, s) # {}}
      /\ \A s \in D : LET d == LastPosition(Slot(payload, feed, s)) IN
           v[s] = payload[d[1]].points[d[2]].value
  BY DEF Row
<1>2. ASSUME NEW s \in D
      PROVE  v[s] \in Nat /\ (s \notin Faulty => v[s] \in Q)
  <2> DEFINE d == LastPosition(Slot(payload, feed, s))
  <2>1. d \in Slot(payload, feed, s) /\ s \in config.signers
    BY <1>1, LastInSlot
  <2>2. d \in PointsOf(payload, DOMAIN payload, feed) /\ payload[d[1]].signer = s
    BY <2>1 DEF Slot
  <2> HIDE DEF d
  <2>3. /\ d[1] \in DOMAIN payload /\ d[2] \in DOMAIN payload[d[1]].points
        /\ payload[d[1]].points[d[2]].feed = feed
    BY <2>2, PointsOfFeed
  <2>4. v[s] = payload[d[1]].points[d[2]].value
    BY <1>1 DEF d
  <2>5. payload[d[1]].timestamp \in Times /\ payload[d[1]].timestamp >= since
    BY <2>1, <2>2, <2>3, PayloadPoint
  <2>6. v[s] \in Nat /\ (s \notin Faulty => v[s] \in Quote[feed][payload[d[1]].timestamp])
    BY <2>2, <2>3, <2>4, PayloadPoint
  <2> QED BY <2>5, <2>6
<1>3. v \in [D -> Nat]
  <2>1. v = [s \in D |-> v[s]]
    BY DEF Row
  <2> HIDE DEF v, D, Q
  <2> QED BY <1>2, <2>1
<1>4. signer \in [D -> config.signers] /\ \A s, u \in D : signer[s] = signer[u] => s = u
  BY <1>1
<1>5. \A s \in D : signer[s] \notin Faulty => v[s] \in Q
  BY <1>2
<1> DEFINE x == Median(D, v)
<1>6. x \in Nat /\ \E lo, hi \in Q : lo <= x /\ x <= hi
  <2>1. Cardinality(D) >= config.signer_count_threshold
    OBVIOUS
  <2> HIDE DEF D, v, Q, signer
  <2> QED BY <1>3, <1>4, <1>5, <2>1, FamilyHonest
<1> HIDE DEF x
<1>7. PICK lo \in Q, hi \in Q : lo <= x /\ x <= hi
  BY <1>6
<1>8. PICK t \in {time \in Times : time >= since} : lo \in Quote[feed][t]
  OBVIOUS
<1>9. PICK u \in {time \in Times : time >= since} : hi \in Quote[feed][u]
  OBVIOUS
<1>10. x > 0
  <2>1. lo \in Nat /\ lo > 0
    BY <1>8, QuotedPositive
  <2> QED BY <1>6, <1>7, <2>1
<1>11. Rounds!HonestSince(feed, x, since)
  BY <1>7, <1>8, <1>9 DEF Rounds!HonestSince
<1> QED BY <1>6, <1>10, <1>11 DEF x

\* Canton: a feed that is agreed on in a timely payload has a value between honest
\* ones of the payload's time.
LEMMA CantonHonest ==
  ASSUME NEW payload \in Payloads, NEW feed \in Feeds, NEW now, CantonTimely(payload, now),
         FeedAgreed(payload, feed)
  PROVE  LET t == payload[1].timestamp
             x == CantonValue(payload, feed)
         IN /\ t \in Times /\ t \in Nat /\ x \in Nat
            /\ \E lo, hi \in Quote[feed][t] : lo <= x /\ x <= hi
<1> DEFINE D == CountedPoints(payload, feed)
           S == {PointSigner(payload, d) : d \in D}
           v == [s \in S |-> PointValue(payload, CHOOSE d \in D : PointSigner(payload, d) = s)]
           t == payload[1].timestamp
           signer == [s \in S |-> s]
<1>1. \A i \in DOMAIN payload : payload[i].timestamp = t
  <2>1. DOMAIN payload # {} /\ DOMAIN payload = 1 .. Len(payload)
    BY ChainAssumption DEF CantonTimely, TimestampsAgree
  <2>2. 1 \in DOMAIN payload
    BY <2>1
  <2> QED BY <2>2 DEF CantonTimely, TimestampsAgree
<1>2. ASSUME NEW s \in S
      PROVE  /\ s \in config.signers /\ v[s] \in Nat /\ t \in Times /\ t \in Nat
             /\ s \notin Faulty => v[s] \in Quote[feed][t]
  <2>1. PICK d \in D : PointSigner(payload, d) = s /\ v[s] = PointValue(payload, d)
    <3>1. \E d \in D : PointSigner(payload, d) = s
      OBVIOUS
    <3> HIDE DEF D
    <3>2. LET e == CHOOSE d \in D : PointSigner(payload, d) = s IN
            e \in D /\ PointSigner(payload, e) = s
      BY <3>1
    <3> QED BY <3>2
  <2>2. /\ d[1] \in DOMAIN payload /\ d[2] \in DOMAIN payload[d[1]].points
        /\ payload[d[1]].points[d[2]].feed = feed
        /\ payload[d[1]].signer = s /\ s \in config.signers
        /\ v[s] = payload[d[1]].points[d[2]].value
    <3>1. /\ d \in PointsOf(payload, DOMAIN payload, feed)
          /\ payload[d[1]].signer \in config.signers
      BY DEF CountedPoints, NonzeroPoints, PointSigner
    <3> HIDE DEF D, v, S
    <3>2. /\ d[1] \in DOMAIN payload /\ d[2] \in DOMAIN payload[d[1]].points
          /\ payload[d[1]].points[d[2]].feed = feed
      BY <3>1, PointsOfFeed
    <3> QED BY <2>1, <3>1, <3>2 DEF PointSigner, PointValue
  <2> HIDE DEF v, S, D
  <2> QED BY <1>1, <2>2, PayloadPoint
<1>3. Cardinality(S) >= config.signer_count_threshold
  BY DEF FeedAgreed
<1>4. /\ v \in [S -> Nat] /\ signer \in [S -> config.signers]
      /\ \A s, u \in S : signer[s] = signer[u] => s = u
      /\ \A s \in S : signer[s] \notin Faulty => v[s] \in Quote[feed][t]
  <2>1. v = [s \in S |-> v[s]]
    OBVIOUS
  <2> HIDE DEF v, S
  <2> QED BY <1>2, <2>1
<1>5. /\ Median(S, v) \in Nat
      /\ \E lo, hi \in Quote[feed][t] : lo <= Median(S, v) /\ Median(S, v) <= hi
  <2> HIDE DEF v, S, signer, t
  <2> QED BY <1>3, <1>4, FamilyHonest
<1>6. t \in Times /\ t \in Nat
  <2>1. S # {}
    <3> HIDE DEF S
    <3> QED BY <1>3, ConfigFacts, FS_EmptySet
  <2> HIDE DEF S, v
  <2> QED BY <1>2, <2>1
<1>7. CantonValue(payload, feed) = Median(S, v)
  BY DEF CantonValue
<1> QED BY <1>5, <1>6, <1>7

-----------------------------------------------------------------------------
(* The adapters that keep every feed on its own.                            *)

PricesOK ==
  /\ prices \in [Feeds -> PriceData \cup {NoPrice}]
  /\ repeated \in SUBSET Feeds

LEMMA ClockFacts ==
  ASSUME clock \in Nat
  PROVE  Now \in Nat /\ WriteClock \in Nat
  BY ChainAssumption DEF Now, WriteClock

\* The feeds that a transaction writes are published in the sense of PriceFeeds when
\* their prices are later than those they replace, and honest but for the repeated ones.
LEMMA WrittenFeeds ==
  ASSUME clock \in Nat, PricesOK,
         NEW fs \in SUBSET Feeds, NEW vs, NEW ts \in Times, NEW now, now = WriteClock,
         FeedsWritten(fs, vs, ts, now), repeated' \in SUBSET Feeds,
         \A feed \in Feeds \ fs : feed \in repeated => feed \in repeated',
         \A feed \in fs :
           /\ vs[feed] \in Nat
           /\ \/ feed \in repeated'
              \/ \E lo, hi \in Quote[feed][ts] : lo <= vs[feed] /\ vs[feed] <= hi
           /\ prices[feed] # NoPrice =>
                prices[feed].timestamp < ts /\ prices[feed].write_timestamp < now
  PROVE  /\ PricesOK'
         /\ \A feed \in Feeds : PF!Kept(feed) \/ PF!Published(feed, prices'[feed])
<1> DEFINE data(feed) == [value |-> vs[feed], timestamp |-> ts, write_timestamp |-> now]
<1>1. ts \in Nat /\ now \in Nat
  BY ChainAssumption, ClockFacts
<1>2. \A feed \in fs : data(feed) \in PriceData
  BY <1>1 DEF PriceData
<1>3. /\ DOMAIN prices' = Feeds
      /\ prices' = [feed \in Feeds |-> IF feed \in fs THEN data(feed) ELSE prices[feed]]
  BY DEF FeedsWritten
<1>4. PricesOK'
  BY <1>2, <1>3 DEF PricesOK
<1>5. ASSUME NEW feed \in fs PROVE PF!Published(feed, data(feed))
  <2>1. data(feed) # NoPrice
    BY <1>2, FeedAssumption
  <2>2. feed \in (Feeds \ repeated)' => PF!Honest(feed, data(feed))
    BY DEF PF!Honest
  <2>3. PF!Later(prices[feed], data(feed))
    BY DEF PF!Later
  <2> QED BY <2>1, <2>2, <2>3 DEF PF!Published
<1>6. \A feed \in Feeds : IF feed \in fs THEN prices'[feed] = data(feed)
                          ELSE prices'[feed] = prices[feed]
  BY <1>3
<1>7. ASSUME NEW feed \in Feeds \ fs PROVE PF!Kept(feed)
  BY <1>6 DEF PF!Kept
<1> HIDE DEF data
<1> QED BY <1>4, <1>5, <1>6, <1>7

\* The results of the library hold what honest signers signed.
LEMMA ProcessedHonest ==
  ASSUME NEW fs \in SUBSET Feeds, NEW p \in Processed(fs), NEW feed \in fs
  PROVE  /\ p.timestamp \in Times /\ p.values[feed] \in Nat
         /\ \E lo, hi \in Quote[feed][p.timestamp] :
              lo <= p.values[feed] /\ p.values[feed] <= hi
<1>1. p.timestamp \in Times /\ p.values[feed] \in Quote[feed][p.timestamp]
  BY DEF Processed, Timely
<1>2. p.values[feed] \in Nat
  BY <1>1, QuotedPositive
<1> QED BY <1>1, <1>2

\* A sound update is later than what it replaces.
LEMMA SoundUpdate ==
  ASSUME NEW write_timestamp \in Nat, NEW package_timestamp \in Nat, NEW now \in Nat,
         NEW ts \in Nat, NEW trusted,
         UpdateSound(write_timestamp, package_timestamp, now, ts, trusted)
  PROVE  package_timestamp < ts /\ write_timestamp < now
<1>1. config.min_interval_between_updates_ms \in Nat
  BY ConfigFacts
<1>2. (IF trusted THEN 0 ELSE config.min_interval_between_updates_ms) \in Nat
  BY <1>1
<1> DEFINE interval == IF trusted THEN 0 ELSE config.min_interval_between_updates_ms
<1>3. package_timestamp < ts /\ write_timestamp + interval < now
  BY DEF UpdateSound
<1> HIDE DEF interval
<1>4. interval \in Nat
  BY <1>2 DEF interval
<1> QED BY <1>3, <1>4

\* Whichever of the four chains, and whichever feeds are written together.
LEMMA FeedsPublished ==
  ASSUME clock \in Nat, PricesOK, FeedAdapterNext
  PROVE  /\ PricesOK'
         /\ \A feed \in Feeds : PF!Kept(feed) \/ PF!Published(feed, prices'[feed])
<1>1. PICK fs \in (SUBSET Feeds) \ {{}}, trusted \in BOOLEAN :
        \/ chain = "radix" /\ RadixWritePrices(fs, trusted)
        \/ chain = "solana" /\ \E feed \in fs : fs = {feed} /\ SolanaWritePrice(feed, trusted)
        \/ chain = "stylus" /\ StylusWritePrices(fs, trusted)
        \/ chain = "aptos" /\ \E payload \in Payloads : AptosWritePrices(fs, payload, trusted)
  BY DEF FeedAdapterNext
<1>2. Now \in Nat /\ WriteClock \in Nat /\ Times \subseteq Nat
  BY ClockFacts, ChainAssumption
<1>3. \A feed \in Feeds : prices[feed] # NoPrice =>
        /\ prices[feed].timestamp \in Nat /\ prices[feed].write_timestamp \in Nat
        /\ PackageTimestamp(feed) = prices[feed].timestamp
  BY DEF PricesOK, PriceData, PackageTimestamp
<1>4. CASE chain = "radix" /\ RadixWritePrices(fs, trusted)
  <2>1. PICK p \in Processed(fs) :
          /\ \A feed \in fs : prices[feed] # NoPrice =>
               UpdateSound(prices[feed].write_timestamp, prices[feed].timestamp,
                           Now, p.timestamp, trusted)
          /\ FeedsWritten(fs, p.values, p.timestamp, Now) /\ repeated' = repeated
    BY <1>4 DEF RadixWritePrices
  <2>2. Now = WriteClock
    BY <1>4 DEF WriteClock
  <2>3. p.timestamp \in Times
    BY <1>1, ProcessedHonest
  <2>4. \A feed \in fs : prices[feed] # NoPrice =>
          prices[feed].timestamp < p.timestamp /\ prices[feed].write_timestamp < Now
    <3> TAKE feed \in fs
    <3> HAVE prices[feed] # NoPrice
    <3>1. /\ prices[feed].timestamp \in Nat /\ prices[feed].write_timestamp \in Nat
          /\ PackageTimestamp(feed) = prices[feed].timestamp /\ p.timestamp \in Nat
      BY <1>2, <1>3, <2>3
    <3>2. UpdateSound(prices[feed].write_timestamp, prices[feed].timestamp, Now, p.timestamp, trusted)
      BY <2>1, <3>1
    <3> QED BY <1>2, <3>1, <3>2, SoundUpdate
  <2>5. \A feed \in fs :
          /\ p.values[feed] \in Nat
          /\ \E lo, hi \in Quote[feed][p.timestamp] : lo <= p.values[feed] /\ p.values[feed] <= hi
    BY <1>1, ProcessedHonest
  <2>6. repeated' \in SUBSET Feeds /\ \A feed \in Feeds : feed \in repeated => feed \in repeated'
    BY <2>1 DEF PricesOK
  <2> QED BY <1>1, <2>1, <2>2, <2>3, <2>4, <2>5, <2>6, WrittenFeeds
<1>5. CASE chain = "solana" /\ \E feed \in fs : fs = {feed} /\ SolanaWritePrice(feed, trusted)
  <2>1. PICK feed \in fs : fs = {feed} /\ SolanaWritePrice(feed, trusted)
    BY <1>5
  <2>2. PICK p \in Processed({feed}) :
          /\ prices[feed] # NoPrice =>
               UpdateSound(prices[feed].write_timestamp, PackageTimestamp(feed),
                           Now, p.timestamp, trusted)
          /\ FeedsWritten({feed}, p.values, p.timestamp, Now) /\ repeated' = repeated
    BY <2>1 DEF SolanaWritePrice
  <2>3. Now = WriteClock
    BY <1>5 DEF WriteClock
  <2>4. p.timestamp \in Times
    BY <2>1, <2>2, ProcessedHonest
  <2>5. prices[feed] # NoPrice =>
          prices[feed].timestamp < p.timestamp /\ prices[feed].write_timestamp < Now
    <3> HAVE prices[feed] # NoPrice
    <3>1. /\ prices[feed].timestamp \in Nat /\ prices[feed].write_timestamp \in Nat
          /\ PackageTimestamp(feed) = prices[feed].timestamp /\ p.timestamp \in Nat
      BY <1>2, <1>3, <2>4
    <3>2. UpdateSound(prices[feed].write_timestamp, prices[feed].timestamp, Now, p.timestamp, trusted)
      BY <2>2, <3>1
    <3> QED BY <1>2, <3>1, <3>2, SoundUpdate
  <2>6. {feed} \in SUBSET Feeds /\ \A f \in {feed} : f = feed
    OBVIOUS
  <2>7. \A f \in {feed} :
          /\ p.values[f] \in Nat
          /\ \E lo, hi \in Quote[f][p.timestamp] : lo <= p.values[f] /\ p.values[f] <= hi
          /\ prices[f] # NoPrice =>
               prices[f].timestamp < p.timestamp /\ prices[f].write_timestamp < Now
    BY <2>2, <2>5, <2>6, ProcessedHonest
  <2>8. repeated' \in SUBSET Feeds /\ \A f \in Feeds : f \in repeated => f \in repeated'
    BY <2>2 DEF PricesOK
  <2> QED BY <2>2, <2>3, <2>4, <2>6, <2>7, <2>8, WrittenFeeds
<1>6. CASE chain = "stylus" /\ StylusWritePrices(fs, trusted)
  <2>1. PICK p \in Processed(fs) :
          /\ \A feed \in fs : prices[feed] # NoPrice =>
               UpdateSound(prices[feed].write_timestamp, PackageTimestamp(feed),
                           clock, p.timestamp, trusted)
          /\ FeedsWritten(fs, p.values, p.timestamp, clock) /\ repeated' = repeated
    BY <1>6 DEF StylusWritePrices, StylusUpdateSound
  <2>2. clock = WriteClock
    BY <1>6 DEF WriteClock
  <2>3. p.timestamp \in Times
    BY <1>1, ProcessedHonest
  <2>4. \A feed \in fs : prices[feed] # NoPrice =>
          prices[feed].timestamp < p.timestamp /\ prices[feed].write_timestamp < clock
    <3> TAKE feed \in fs
    <3> HAVE prices[feed] # NoPrice
    <3>1. /\ prices[feed].timestamp \in Nat /\ prices[feed].write_timestamp \in Nat
          /\ PackageTimestamp(feed) = prices[feed].timestamp /\ p.timestamp \in Nat
      BY <1>2, <1>3, <2>3
    <3>2. UpdateSound(prices[feed].write_timestamp, prices[feed].timestamp, clock, p.timestamp, trusted)
      BY <2>1, <3>1
    <3> QED BY <1>2, <3>1, <3>2, SoundUpdate
  <2>5. \A feed \in fs :
          /\ p.values[feed] \in Nat
          /\ \E lo, hi \in Quote[feed][p.timestamp] : lo <= p.values[feed] /\ p.values[feed] <= hi
    BY <1>1, ProcessedHonest
  <2>6. repeated' \in SUBSET Feeds /\ \A feed \in Feeds : feed \in repeated => feed \in repeated'
    BY <2>1 DEF PricesOK
  <2> QED BY <1>1, <2>1, <2>2, <2>3, <2>4, <2>5, <2>6, WrittenFeeds
<1>7. CASE chain = "aptos" /\ \E payload \in Payloads : AptosWritePrices(fs, payload, trusted)
  <2>1. PICK payload \in Payloads : AptosWritePrices(fs, payload, trusted)
    BY <1>7
  <2> DEFINE vs == [feed \in fs |-> AptosValue(payload, feed)]
             ts == Timestamp(payload, WithFeed(payload, CHOOSE feed \in fs : TRUE))
  <2>2. /\ AptosPayloadSound(payload, fs) /\ FeedsWritten(fs, vs, ts, Now)
        /\ \A feed \in fs : AptosUpdateTime(feed, trusted) /\ ts > PackageTimestamp(feed)
        /\ repeated' = (repeated \ fs) \cup {feed \in fs : RepeatedIn(payload, feed)}
    BY <2>1 DEF AptosWritePrices
  <2>3. (CHOOSE feed \in fs : TRUE) \in fs
    OBVIOUS
  <2>4. \A feed \in fs : ts = Timestamp(payload, WithFeed(payload, feed))
    BY <2>2, <2>3 DEF AptosPayloadSound
  <2>5. \A feed \in fs : /\ ts \in Times /\ vs[feed] \in Nat
                         /\ \/ RepeatedIn(payload, feed)
                            \/ \E lo, hi \in Quote[feed][ts] : lo <= vs[feed] /\ vs[feed] <= hi
    <3> TAKE feed \in fs
    <3>1. DataPackagesVerified(payload, WithFeed(payload, feed)) /\ feed \in Feeds
      BY <2>2 DEF AptosPayloadSound
    <3>2. vs[feed] = AptosValue(payload, feed)
      OBVIOUS
    <3> HIDE DEF ts, vs
    <3> QED BY <2>4, <3>1, <3>2, AptosHonest
  <2> HIDE DEF ts, vs
  <2>6. ts \in Times
    BY <2>3, <2>5
  <2>7. \A feed \in fs : prices[feed] # NoPrice =>
          prices[feed].timestamp < ts /\ prices[feed].write_timestamp < Now
    <3> TAKE feed \in fs
    <3> HAVE prices[feed] # NoPrice
    <3>1. ts > PackageTimestamp(feed) /\ AptosUpdateTime(feed, trusted)
      BY <2>2
    <3>2. /\ prices[feed].timestamp \in Nat /\ prices[feed].write_timestamp \in Nat
          /\ PackageTimestamp(feed) = prices[feed].timestamp /\ ts \in Nat
      BY <1>2, <1>3, <2>6
    <3>3. config.min_interval_between_updates_ms \in Nat
      BY ConfigFacts
    <3>4. prices[feed].write_timestamp < Now
      <4>1. CASE trusted
        BY <3>1, <4>1 DEF AptosUpdateTime
      <4>2. CASE ~trusted
        BY <1>2, <3>1, <3>2, <3>3, <4>2 DEF AptosUpdateTime
      <4> QED BY <4>1, <4>2
    <3> QED BY <3>1, <3>2, <3>4
  <2>8. Now = WriteClock
    BY <1>7 DEF WriteClock
  <2>9. /\ repeated' \in SUBSET Feeds
        /\ \A feed \in Feeds \ fs : feed \in repeated => feed \in repeated'
        /\ \A feed \in fs : RepeatedIn(payload, feed) => feed \in repeated'
    BY <1>1, <2>2 DEF PricesOK
  <2> QED BY <1>1, <2>2, <2>5, <2>6, <2>7, <2>8, <2>9, WrittenFeeds
<1> QED BY <1>1, <1>4, <1>5, <1>6, <1>7

-----------------------------------------------------------------------------
(* The adapters that keep one round of prices.                              *)

RoundsOK ==
  /\ values \in [Feeds -> Nat] /\ feed_ids = {feed \in Feeds : values[feed] # NO_VALUE}
  /\ timestamp \in Nat /\ round_number \in Nat /\ last_update \in Nat \cup {NEVER}

\* The time of a round as its readers see it.
RoundTime(t) == IF chain = "starknet" THEN t * MS_IN_SEC ELSE t

\* What the feeds of the round hold is what honest signers signed since its time.
RoundHonest ==
  \A feed \in feed_ids : Rounds!HonestSince(feed, values[feed], RoundTime(timestamp))

\* The values vs of the feeds fs take the place of the round, as a whole.
Replaced(fs, vs, ts) ==
  /\ values' = [feed \in Feeds |-> IF feed \in fs THEN vs[feed] ELSE NO_VALUE]
  /\ feed_ids' = fs
  /\ timestamp' = ts

\* Clearing the feeds of the last round only clears all, since no other has a value.
LEMMA RoundReplaced ==
  ASSUME RoundsOK, NEW fs \in SUBSET Feeds, NEW vs, NEW ts, RoundWritten(fs, vs, ts)
  PROVE  Replaced(fs, vs, ts)
<1>1. \A feed \in Feeds : (IF feed \in feed_ids THEN NO_VALUE ELSE values[feed]) = NO_VALUE
  BY DEF RoundsOK
<1>2. [feed \in Feeds |-> IF feed \in fs THEN vs[feed]
                          ELSE IF feed \in feed_ids THEN NO_VALUE ELSE values[feed]]
      = [feed \in Feeds |-> IF feed \in fs THEN vs[feed] ELSE NO_VALUE]
  BY <1>1
<1> QED BY <1>2 DEF RoundWritten, Replaced

LEMMA Scaled ==
  ASSUME NEW x \in Nat, NEW y \in Nat, NEW m \in Nat \ {0}
  PROVE  /\ x * m \in Nat /\ (x < y => x * m < y * m)
         /\ x \div m \in Nat /\ (x \div m) * m \in Nat /\ (x \div m) * m <= x
<1>1. x * m \in Nat /\ (x < y => x * m < y * m)
  OBVIOUS
<1>2. x \div m \in Nat /\ (x \div m) * m \in Nat /\ (x \div m) * m <= x
  OBVIOUS
<1> QED BY <1>1, <1>2

\* A later round of positive and honest values keeps the types and implements a step
\* of PriceRounds.
LEMMA LaterRound ==
  ASSUME RoundsOK, chain' = chain, NEW fs \in SUBSET Feeds, NEW vs, NEW ts \in Nat,
         Replaced(fs, vs, ts), ts > timestamp,
         \A feed \in fs : /\ vs[feed] \in Nat /\ vs[feed] > 0
                          /\ Rounds!HonestSince(feed, vs[feed], RoundTime(ts))
  PROVE  /\ values' \in [Feeds -> Nat]
         /\ feed_ids' = {feed \in Feeds : values'[feed] # NO_VALUE}
         /\ timestamp' \in Nat /\ timestamp' > timestamp
         /\ RoundHonest' /\ Rounds!Next
<1>1. /\ values' = [feed \in Feeds |-> IF feed \in fs THEN vs[feed] ELSE NO_VALUE]
      /\ feed_ids' = fs /\ timestamp' = ts /\ timestamp \in Nat
  BY DEF Replaced, RoundsOK
<1>2. /\ \A feed \in fs : values'[feed] = vs[feed] /\ values'[feed] # NO_VALUE
      /\ \A feed \in Feeds \ fs : values'[feed] = NO_VALUE
  BY <1>1 DEF NO_VALUE
<1>3. values' \in [Feeds -> Nat]
  BY <1>1 DEF NO_VALUE
<1>4. feed_ids' = {feed \in Feeds : values'[feed] # NO_VALUE}
  BY <1>1, <1>2
<1>5. RoundTime(ts) > RoundTime(timestamp)
  BY <1>1, ChainAssumption, Scaled DEF RoundTime
<1>6. Round'.timestamp = RoundTime(ts) /\ Round.timestamp = RoundTime(timestamp)
  BY <1>1 DEF Round, RoundTime
<1>7. /\ DOMAIN Round'.values = fs
      /\ \A feed \in fs : Round'.values[feed] = vs[feed]
  <2>1. Round'.values = [feed \in {f \in Feeds : values'[f] # NO_VALUE} |-> values'[feed]]
    BY DEF Round
  <2>2. Round'.values = [feed \in fs |-> values'[feed]]
    BY <1>1, <1>4, <2>1
  <2> QED BY <1>2, <2>2
<1>8. Rounds!Next
  BY <1>5, <1>6, <1>7 DEF Rounds!Next
<1>9. RoundHonest'
  BY <1>1, <1>2 DEF RoundHonest, RoundTime
<1> QED BY <1>1, <1>3, <1>4, <1>8, <1>9

\* A value that honest signers signed at a time is honest since any earlier time.
LEMMA SignedSince ==
  ASSUME NEW feed \in Feeds, NEW t \in Times, NEW x \in Quote[feed][t], NEW since, t >= since
  PROVE  x \in Nat /\ x > 0 /\ Rounds!HonestSince(feed, x, since)
<1>1. x \in Nat /\ x > 0
  BY QuotedPositive
<1>2. t \in {time \in Times : time >= since} /\ x <= x
  BY <1>1
<1> QED BY <1>1, <1>2 DEF Rounds!HonestSince

\* The library's result with the smallest timestamp of the packages.
LEMMA ProcessedSince ==
  ASSUME NEW fs \in SUBSET Feeds, NEW p \in ProcessedMin(fs)
  PROVE  /\ p.timestamp \in Nat
         /\ \A feed \in fs : /\ p.values[feed] \in Nat /\ p.values[feed] > 0
                             /\ Rounds!HonestSince(feed, p.values[feed], p.timestamp)
<1>1. /\ p.timestamp \in Times /\ p.timestamp \in Nat
      /\ \A feed \in fs : \E t \in Times :
           t >= p.timestamp /\ p.values[feed] \in Quote[feed][t]
  <2>1. /\ p.timestamp \in Timely
        /\ \A feed \in fs : \E t \in Timely :
             t >= p.timestamp /\ p.values[feed] \in Quote[feed][t]
    BY DEF ProcessedMin
  <2>2. Timely \subseteq Times /\ Times \subseteq Nat
    BY ChainAssumption DEF Timely
  <2> QED BY <2>1, <2>2
<1> QED BY <1>1, SignedSince

\* A row that is full is of a payload with packages of the feed.
LEMMA FullRow ==
  ASSUME NEW payload \in Payloads, NEW feed \in Feeds,
         Cardinality(DOMAIN Row(payload, feed)) >= config.signer_count_threshold
  PROVE  \E d \in PointsOf(payload, DOMAIN payload, feed) :
           payload[d[1]].signer \in config.signers
<1> DEFINE D == DOMAIN Row(payload, feed)
<1>1. D # {}
  <2> HIDE DEF D
  <2>1. Cardinality(D) >= config.signer_count_threshold
    BY DEF D
  <2> QED BY <2>1, ConfigFacts, FS_EmptySet
<1>2. PICK s \in config.signers : Slot(payload, feed, s) # {}
  BY <1>1 DEF Row
<1> QED BY <1>2 DEF Slot

\* The least of the timestamps of some packages.
LEMMA LeastTimestamp ==
  ASSUME NEW payload \in Payloads, NEW I \in SUBSET DOMAIN payload, I # {}
  PROVE  LET least == Least({payload[i].timestamp : i \in I}) IN
           /\ least \in Nat
           /\ \A i \in I : payload[i].timestamp >= least
<1> DEFINE T == {payload[i].timestamp : i \in I}
<1>1. \A i \in DOMAIN payload : payload[i].timestamp \in Nat
  BY PackageTime
<1>2. T \in SUBSET Nat /\ T # {}
  BY <1>1
<1>3. /\ Least(T) \in T
      /\ \A t \in T : Least(T) <= t
  <2> HIDE DEF T
  <2>1. \E x \in T : \A y \in T : x <= y
    BY <1>2, LeastNatural
  <2> QED BY <2>1 DEF Least
<1>4. \A i \in I : payload[i].timestamp \in T
  OBVIOUS
<1> HIDE DEF T
<1>5. \A i \in I : payload[i].timestamp >= Least(T)
  BY <1>2, <1>3, <1>4
<1> QED BY <1>2, <1>3, <1>5 DEF T

LEMMA StarknetHonest ==
  ASSUME NEW payload \in Payloads, NEW fs \in SUBSET Feeds, payload # << >>,
         StarknetPayloadSound(payload, fs)
  PROVE  LET seconds == StarknetTimestamp(payload) \div MS_IN_SEC IN
           /\ seconds \in Nat
           /\ \A feed \in fs : LET x == StarknetValue(payload, feed) IN
                x \in Nat /\ x > 0 /\ Rounds!HonestSince(feed, x, seconds * MS_IN_SEC)
<1> DEFINE t == StarknetTimestamp(payload)
           since == (t \div MS_IN_SEC) * MS_IN_SEC
<1>1. \A feed \in fs : Cardinality(DOMAIN Row(payload, feed)) >= config.signer_count_threshold
  BY DEF StarknetPayloadSound
<1>2. t \in Nat /\ \A i \in DOMAIN payload : payload[i].timestamp >= t
  <2>1. payload \in Seq(Package)
    BY ChainAssumption
  <2>2. DOMAIN payload # {}
    <3>1. Len(payload) \in Nat \ {0}
      BY <2>1, EmptySeq
    <3>2. DOMAIN payload = 1 .. Len(payload)
      BY <2>1, LenProperties
    <3>3. 1 \in 1 .. Len(payload)
      BY <3>1
    <3> QED BY <3>2, <3>3
  <2> QED BY <2>2, LeastTimestamp DEF StarknetTimestamp
<1> HIDE DEF t
<1>3. t \div MS_IN_SEC \in Nat /\ since \in Nat /\ since <= t
  BY <1>2, ChainAssumption, Scaled
<1>4. \A i \in DOMAIN payload : payload[i].timestamp >= since
  <2> TAKE i \in DOMAIN payload
  <2>1. payload[i].timestamp \in Nat
    BY PackageTime
  <2> HIDE DEF since
  <2> QED BY <1>2, <1>3, <2>1
<1>5. ASSUME NEW feed \in fs
      PROVE  LET x == StarknetValue(payload, feed) IN
               x \in Nat /\ x > 0 /\ Rounds!HonestSince(feed, x, since)
  <2>1. \A d \in PointsOf(payload, DOMAIN payload, feed) : payload[d[1]].timestamp >= since
    BY <1>4, PointsOfFeed
  <2> HIDE DEF since
  <2> QED BY <1>1, <1>3, <2>1, RowHonest DEF StarknetValue
<1> QED BY <1>3, <1>5 DEF t

LEMMA TonHonest ==
  ASSUME NEW payload \in TonPayloads, NEW fs \in SUBSET Feeds, fs # {},
         TonPayloadSound(payload, fs)
  PROVE  LET t == TonTimestamp(payload, fs) IN
           /\ t \in Nat
           /\ \A feed \in fs : LET x == TonValue(payload, feed) IN
                x \in Nat /\ x > 0 /\ Rounds!HonestSince(feed, x, t)
<1> DEFINE t == TonTimestamp(payload, fs)
           I == TonPlaced(payload, fs)
<1>1. payload \in Payloads /\ \A i \in DOMAIN payload : Len(payload[i].points) = 1
  BY DEF TonPayloads
<1>2. \A feed \in fs : Cardinality(DOMAIN Row(payload, feed)) >= config.signer_count_threshold
  BY DEF TonPayloadSound
<1>3. ASSUME NEW feed \in fs, NEW d \in PointsOf(payload, DOMAIN payload, feed),
             payload[d[1]].signer \in config.signers
      PROVE  d[1] \in I
  <2>1. /\ d[1] \in DOMAIN payload /\ d[2] \in DOMAIN payload[d[1]].points
        /\ payload[d[1]].points[d[2]].feed = feed
    BY PointsOfFeed
  <2>2. DOMAIN payload[d[1]].points = 1 .. Len(payload[d[1]].points)
    BY <1>1, <2>1, PayloadPoint
  <2>3. d[2] = 1
    BY <1>1, <2>1, <2>2
  <2> QED BY <1>3, <2>1, <2>3 DEF TonPlaced
<1>4. I # {} /\ I \in SUBSET DOMAIN payload
  <2>1. PICK feed \in fs : TRUE
    OBVIOUS
  <2>2. PICK d \in PointsOf(payload, DOMAIN payload, feed) : payload[d[1]].signer \in config.signers
    BY <1>1, <1>2, FullRow
  <2> QED BY <1>3, <2>2 DEF TonPlaced
<1>5. t \in Nat /\ \A i \in I : payload[i].timestamp >= t
  BY <1>1, <1>4, LeastTimestamp DEF TonTimestamp
<1> HIDE DEF t, I
<1>6. ASSUME NEW feed \in fs
      PROVE  LET x == TonValue(payload, feed) IN
               x \in Nat /\ x > 0 /\ Rounds!HonestSince(feed, x, t)
  BY <1>1, <1>2, <1>3, <1>5, RowHonest DEF TonValue
<1> QED BY <1>5, <1>6 DEF t

\* The writes of all the adapters that keep rounds.
RoundWrite(fs) ==
  \/ chain = "casper" /\ CasperWritePrices(fs)
  \/ chain = "fuel" /\ FuelWritePrices(fs)
  \/ chain = "fuel_prices" /\ FuelPricesWritePrices(fs)
  \/ chain = "starknet" /\ \E payload \in Payloads : StarknetWritePrices(fs, payload)
  \/ chain = "starknet" /\ \E t \in Times : StarknetWritePriceValues(fs, t)
  \/ chain = "ton" /\ \E payload \in TonPayloads : TonWritePrices(fs, payload)

\* Whatever is written on whichever chain is a later and honest round.
LEMMA RoundWrites ==
  ASSUME RoundsOK, clock \in Nat, chain' = chain, NEW fs \in SUBSET Feeds, chain = "ton" => fs # {},
         RoundWrite(fs)
  PROVE  /\ RoundsOK' /\ RoundHonest' /\ Rounds!Next
         /\ timestamp' > timestamp /\ UNCHANGED tonVars
<1> DEFINE Later(vs, ts) ==
      /\ ts \in Nat /\ ts > timestamp /\ Replaced(fs, vs, ts)
      /\ \A feed \in fs : /\ vs[feed] \in Nat /\ vs[feed] > 0
                          /\ Rounds!HonestSince(feed, vs[feed], RoundTime(ts))
    Counted == round_number' \in Nat /\ last_update' \in Nat \cup {NEVER}
<1>1. ASSUME NEW vs, NEW ts, Later(vs, ts), Counted, UNCHANGED tonVars
      PROVE  /\ RoundsOK' /\ RoundHonest' /\ Rounds!Next
             /\ timestamp' > timestamp /\ UNCHANGED tonVars
  <2>1. /\ values' \in [Feeds -> Nat]
        /\ feed_ids' = {feed \in Feeds : values'[feed] # NO_VALUE}
        /\ timestamp' \in Nat /\ timestamp' > timestamp
        /\ RoundHonest' /\ Rounds!Next
    BY <1>1, LaterRound
  <2> QED BY <1>1, <2>1 DEF RoundsOK
<1>2. round_number \in Nat /\ last_update \in Nat \cup {NEVER} /\ timestamp \in Nat
  BY DEF RoundsOK
<1>3. ASSUME NEW p \in ProcessedMin(fs), p.timestamp > timestamp, chain # "starknet",
             RoundWritten(fs, p.values, p.timestamp)
      PROVE  Later(p.values, p.timestamp)
  <2>1. RoundTime(p.timestamp) = p.timestamp
    BY <1>3 DEF RoundTime
  <2> QED BY <1>3, <2>1, ProcessedSince, RoundReplaced
<1>4. CASE chain = "casper" /\ CasperWritePrices(fs)
  <2>1. PICK p \in ProcessedMin(fs) :
          /\ p.timestamp > timestamp /\ RoundWritten(fs, p.values, p.timestamp)
          /\ UNCHANGED <<last_update, round_number, tonVars>>
    BY <1>4 DEF CasperWritePrices
  <2>2. Later(p.values, p.timestamp)
    BY <1>3, <1>4, <2>1
  <2> HIDE DEF Later
  <2> QED BY <1>1, <1>2, <2>1, <2>2
<1>5. CASE chain = "fuel" /\ FuelWritePrices(fs)
  <2>1. PICK p \in ProcessedMin(fs) :
          p.timestamp > timestamp /\ RoundWritten(fs, p.values, p.timestamp)
    BY <1>5 DEF FuelWritePrices
  <2>2. last_update' = clock /\ UNCHANGED <<round_number, tonVars>>
    BY <1>5 DEF FuelWritePrices
  <2>3. Later(p.values, p.timestamp)
    BY <1>3, <1>5, <2>1
  <2> HIDE DEF Later
  <2> QED BY <1>1, <1>2, <2>2, <2>3
<1>6. CASE chain = "fuel_prices" /\ FuelPricesWritePrices(fs)
  <2>1. PICK p \in ProcessedMin(fs) :
          p.timestamp > timestamp /\ RoundWritten(fs, p.values, p.timestamp)
    BY <1>6 DEF FuelPricesWritePrices
  <2>2. UNCHANGED <<last_update, round_number, tonVars>>
    BY <1>6 DEF FuelPricesWritePrices
  <2>3. Later(p.values, p.timestamp)
    BY <1>3, <1>6, <2>1
  <2> HIDE DEF Later
  <2> QED BY <1>1, <1>2, <2>2, <2>3
<1>7. ASSUME NEW vs, NEW ts \in Nat, chain = "starknet", StarknetRoundWritten(fs, vs, ts),
             \A feed \in fs : /\ vs[feed] \in Nat /\ vs[feed] > 0
                              /\ Rounds!HonestSince(feed, vs[feed], ts * MS_IN_SEC)
      PROVE  /\ RoundsOK' /\ RoundHonest' /\ Rounds!Next
             /\ timestamp' > timestamp /\ UNCHANGED tonVars
  <2>1. /\ ts > timestamp /\ RoundWritten(fs, vs, ts)
        /\ round_number' = round_number + 1 /\ UNCHANGED <<last_update, tonVars>>
    BY <1>7 DEF StarknetRoundWritten
  <2>2. RoundTime(ts) = ts * MS_IN_SEC
    BY <1>7 DEF RoundTime
  <2>3. Later(vs, ts)
    BY <1>7, <2>1, <2>2, RoundReplaced
  <2> HIDE DEF Later
  <2> QED BY <1>1, <1>2, <2>1, <2>3
<1>8. CASE chain = "starknet" /\ \E payload \in Payloads : StarknetWritePrices(fs, payload)
  <2>1. PICK payload \in Payloads : StarknetWritePrices(fs, payload)
    BY <1>8
  <2> DEFINE vs == [feed \in fs |-> StarknetValue(payload, feed)]
             ts == StarknetTimestamp(payload) \div MS_IN_SEC
  <2>2. /\ StarknetPayloadSound(payload, fs) /\ StarknetRoundWritten(fs, vs, ts)
        /\ payload # << >>
    BY <2>1 DEF StarknetWritePrices
  <2>3. /\ ts \in Nat
        /\ \A feed \in fs : /\ vs[feed] \in Nat /\ vs[feed] > 0
                            /\ Rounds!HonestSince(feed, vs[feed], ts * MS_IN_SEC)
    BY <2>2, StarknetHonest
  <2> HIDE DEF vs, ts
  <2> QED BY <1>7, <1>8, <2>2, <2>3
<1>9. CASE chain = "starknet" /\ \E t \in Times : StarknetWritePriceValues(fs, t)
  <2>1. PICK t \in Times : StarknetWritePriceValues(fs, t)
    BY <1>9
  <2>2. PICK vs \in [fs -> UNION {Quote[feed][t] : feed \in fs}] :
          /\ \A feed \in fs : vs[feed] \in Quote[feed][t]
          /\ StarknetRoundWritten(fs, vs, t \div MS_IN_SEC)
    BY <2>1 DEF StarknetWritePriceValues
  <2> DEFINE ts == t \div MS_IN_SEC
  <2>3. ts \in Nat /\ ts * MS_IN_SEC <= t
    BY ChainAssumption, Scaled
  <2> HIDE DEF ts
  <2>4. \A feed \in fs : /\ vs[feed] \in Nat /\ vs[feed] > 0
                         /\ Rounds!HonestSince(feed, vs[feed], ts * MS_IN_SEC)
    <3>1. t >= ts * MS_IN_SEC
      BY <2>3
    <3> QED BY <2>2, <3>1, SignedSince
  <2>5. StarknetRoundWritten(fs, vs, ts)
    BY <2>2 DEF ts
  <2> QED BY <1>7, <1>9, <2>3, <2>4, <2>5
<1>10. CASE chain = "ton" /\ \E payload \in TonPayloads : TonWritePrices(fs, payload)
  <2>1. PICK payload \in TonPayloads : TonWritePrices(fs, payload)
    BY <1>10
  <2> DEFINE vs == [feed \in fs |-> TonValue(payload, feed)]
             ts == TonTimestamp(payload, fs)
  <2>2. /\ TonPayloadSound(payload, fs) /\ ts > timestamp
        /\ UNCHANGED <<last_update, round_number, tonVars>>
    BY <2>1 DEF TonWritePrices
  <2>3. Replaced(fs, vs, ts)
    <3>1. values' = [feed \in Feeds |-> IF feed \in fs THEN vs[feed] ELSE NO_VALUE]
      BY <2>1 DEF TonWritePrices
    <3> QED BY <2>1, <3>1 DEF TonWritePrices, Replaced
  <2>4. /\ ts \in Nat /\ RoundTime(ts) = ts
        /\ \A feed \in fs : /\ vs[feed] \in Nat /\ vs[feed] > 0
                            /\ Rounds!HonestSince(feed, vs[feed], ts)
    BY <1>10, <2>2, TonHonest DEF RoundTime
  <2> HIDE DEF vs, ts
  <2>5. Later(vs, ts)
    BY <2>2, <2>3, <2>4
  <2> HIDE DEF Later
  <2> QED BY <1>1, <1>2, <2>2, <2>5
<1> QED BY <1>4, <1>5, <1>6, <1>8, <1>9, <1>10 DEF RoundWrite

-----------------------------------------------------------------------------
(* The price feeds on TON, which the rounds reach by messages.              *)

FeedPrice == [price : Nat, timestamp : Nat]

TonOK ==
  /\ feeds \in [Feeds -> FeedPrice]
  /\ requests \in [Feeds -> 0 .. MaxMessages]
  /\ answers \in [Feeds -> Seq(FeedPrice)]

\* The price y is of a later round than x, or it is x.
NotLater(x, y) == x.timestamp < y.timestamp \/ x = y

\* What the manager has of a feed.
Current(feed) == [price |-> values[feed], timestamp |-> timestamp]

\* A feed's price, the answers on their way to it in their order, and the manager's
\* price are of later and later rounds, and honest signers signed what is on its way.
MessagesInOrder ==
  chain = "ton" => \A feed \in Feeds :
    LET a == answers[feed] IN
      /\ NotLater(feeds[feed], Current(feed))
      /\ \A i \in DOMAIN a :
           /\ NotLater(feeds[feed], a[i]) /\ NotLater(a[i], Current(feed))
           /\ Rounds!HonestSince(feed, a[i].price, a[i].timestamp)
      /\ \A i, j \in DOMAIN a : i < j => NotLater(a[i], a[j])

\* Each feed keeps its price, or takes a later one that is honest.
FeedsLater ==
  \A feed \in Feeds :
    \/ feeds'[feed] = feeds[feed]
    \/ /\ feeds'[feed].timestamp > feeds[feed].timestamp
       /\ Rounds!HonestSince(feed, feeds'[feed].price, feeds'[feed].timestamp)

\* A round of the manager does not touch the messages.
LEMMA MessagesAfterRound ==
  ASSUME RoundsOK, TonOK, MessagesInOrder, RoundsOK', chain' = chain,
         UNCHANGED tonVars, timestamp' > timestamp
  PROVE  TonOK' /\ MessagesInOrder' /\ FeedsLater
<1>1. TonOK'
  BY DEF TonOK, tonVars
<1>2. FeedsLater
  BY DEF FeedsLater, tonVars
<1>3. /\ timestamp \in Nat /\ timestamp' \in Nat
      /\ feeds' = feeds /\ answers' = answers
  BY DEF RoundsOK, tonVars
<1>4. ASSUME NEW feed \in Feeds, NEW x \in FeedPrice, NotLater(x, Current(feed))
      PROVE  NotLater(x, Current(feed)')
  <2>1. x.timestamp \in Nat /\ x.timestamp <= timestamp
    BY <1>3, <1>4 DEF NotLater, Current, FeedPrice
  <2>2. x.timestamp < timestamp' /\ Current(feed)'.timestamp = timestamp'
    BY <1>3, <2>1 DEF Current
  <2> QED BY <2>2 DEF NotLater
<1>5. MessagesInOrder'
  <2> SUFFICES ASSUME chain = "ton", NEW feed \in Feeds
               PROVE  LET a == answers[feed] IN
                        /\ NotLater(feeds[feed], Current(feed)')
                        /\ \A i \in DOMAIN a :
                             /\ NotLater(feeds[feed], a[i]) /\ NotLater(a[i], Current(feed)')
                             /\ Rounds!HonestSince(feed, a[i].price, a[i].timestamp)
                        /\ \A i, j \in DOMAIN a : i < j => NotLater(a[i], a[j])
    BY <1>3 DEF MessagesInOrder, NotLater
  <2>1. feeds[feed] \in FeedPrice /\ \A i \in DOMAIN answers[feed] : answers[feed][i] \in FeedPrice
    BY DEF TonOK
  <2> QED BY <1>4, <2>1 DEF MessagesInOrder
<1> QED BY <1>1, <1>2, <1>5

\* The messages of one feed.
FeedInOrder(feed, price, a, current) ==
  /\ NotLater(price, current)
  /\ \A i \in DOMAIN a :
       /\ NotLater(price, a[i]) /\ NotLater(a[i], current)
       /\ Rounds!HonestSince(feed, a[i].price, a[i].timestamp)
  /\ \A i, j \in DOMAIN a : i < j => NotLater(a[i], a[j])

LEMMA InOrderOfFeeds ==
  MessagesInOrder <=>
    (chain = "ton" =>
       \A feed \in Feeds : FeedInOrder(feed, feeds[feed], answers[feed], Current(feed)))
  BY DEF MessagesInOrder, FeedInOrder

\* The manager's price goes on the way behind the others.
LEMMA AnswerInOrder ==
  ASSUME NEW feed, NEW price, NEW a \in Seq(FeedPrice), NEW current \in FeedPrice,
         FeedInOrder(feed, price, a, current),
         Rounds!HonestSince(feed, current.price, current.timestamp)
  PROVE  /\ Append(a, current) \in Seq(FeedPrice)
         /\ FeedInOrder(feed, price, Append(a, current), current)
<1> DEFINE b == Append(a, current)
<1>1. /\ b \in Seq(FeedPrice) /\ DOMAIN b = 1 .. Len(a) + 1 /\ DOMAIN a = 1 .. Len(a)
      /\ Len(a) \in Nat
      /\ \A i \in 1 .. Len(a) : b[i] = a[i]
      /\ b[Len(a) + 1] = current
  OBVIOUS
<1>2. NotLater(current, current)
  BY DEF NotLater
<1> HIDE DEF b
<1>3. \A i \in DOMAIN b : (i \in DOMAIN a /\ b[i] = a[i]) \/ (i = Len(a) + 1 /\ b[i] = current)
  BY <1>1
<1>4. \A i \in DOMAIN b :
        /\ NotLater(price, b[i]) /\ NotLater(b[i], current)
        /\ Rounds!HonestSince(feed, b[i].price, b[i].timestamp)
  BY <1>2, <1>3 DEF FeedInOrder
<1>5. ASSUME NEW i \in DOMAIN b, NEW j \in DOMAIN b, i < j PROVE NotLater(b[i], b[j])
  <2>1. i \in DOMAIN a /\ b[i] = a[i]
    BY <1>1, <1>5
  <2>2. CASE j \in DOMAIN a /\ b[j] = a[j]
    BY <1>5, <2>1, <2>2 DEF FeedInOrder
  <2>3. CASE b[j] = current
    BY <2>1, <2>3 DEF FeedInOrder
  <2> QED BY <1>3, <2>2, <2>3
<1>6. FeedInOrder(feed, price, b, current)
  BY <1>4, <1>5 DEF FeedInOrder
<1> QED BY <1>1, <1>6 DEF b

\* The first answer becomes the feed's price.
LEMMA FetchedInOrder ==
  ASSUME NEW feed, NEW price \in FeedPrice, NEW a \in Seq(FeedPrice), a # << >>,
         NEW current, FeedInOrder(feed, price, a, current)
  PROVE  /\ Head(a) \in FeedPrice /\ Tail(a) \in Seq(FeedPrice)
         /\ FeedInOrder(feed, Head(a), Tail(a), current)
         /\ NotLater(price, Head(a))
         /\ Rounds!HonestSince(feed, Head(a).price, Head(a).timestamp)
<1> DEFINE b == Tail(a)
<1>1. /\ Len(a) \in Nat /\ Len(a) >= 1 /\ DOMAIN a = 1 .. Len(a)
      /\ Head(a) = a[1] /\ b \in Seq(FeedPrice)
      /\ DOMAIN b = 1 .. Len(a) - 1
      /\ \A i \in 1 .. Len(a) - 1 : b[i] = a[i + 1]
  OBVIOUS
<1>2. Head(a) \in FeedPrice
  OBVIOUS
<1> HIDE DEF b
<1>3. 1 \in DOMAIN a /\ \A i \in DOMAIN b : i + 1 \in DOMAIN a /\ b[i] = a[i + 1] /\ 1 < i + 1
  BY <1>1
<1>4. \A i, j \in DOMAIN b : i < j => i + 1 < j + 1
  BY <1>1
<1>5. FeedInOrder(feed, a[1], b, current)
  BY <1>3, <1>4 DEF FeedInOrder
<1>6. /\ NotLater(price, a[1])
      /\ Rounds!HonestSince(feed, a[1].price, a[1].timestamp)
  BY <1>3 DEF FeedInOrder
<1> QED BY <1>1, <1>2, <1>5, <1>6 DEF b

\* A request, an answer or a fetch of one feed leaves everything in order.
LEMMA MessagesStep ==
  ASSUME RoundsOK, RoundHonest, TonOK, MessagesInOrder, chain = "ton", chain' = chain,
         NEW feed \in PriceFeedContracts,
         TonForward(feed) \/ TonAnswer(feed) \/ TonFetched(feed)
  PROVE  /\ UNCHANGED roundVars
         /\ TonOK' /\ MessagesInOrder' /\ FeedsLater
<1>1. /\ feed \in Feeds /\ MaxMessages \in Nat
      /\ PriceFeedContracts \subseteq Feeds
  BY RoundAssumption
<1>2. /\ feeds \in [Feeds -> FeedPrice] /\ requests \in [Feeds -> 0 .. MaxMessages]
      /\ answers \in [Feeds -> Seq(FeedPrice)]
  BY DEF TonOK
<1>3. \A f \in Feeds : FeedInOrder(f, feeds[f], answers[f], Current(f))
  BY InOrderOfFeeds
<1>4. UNCHANGED roundVars
  BY DEF TonForward, TonAnswer, TonFetched
<1>5. \A f \in Feeds : Current(f)' = Current(f) /\ Current(f) \in FeedPrice
  BY <1>4 DEF roundVars, Current, FeedPrice, RoundsOK
<1>6. ASSUME \A f \in Feeds : FeedInOrder(f, feeds'[f], answers'[f], Current(f))
      PROVE  MessagesInOrder'
  <2>1. \A f \in Feeds : FeedInOrder(f, feeds'[f], answers'[f], Current(f)')
    BY <1>5, <1>6
  <2>2. (\A f \in Feeds : FeedInOrder(f, feeds[f], answers[f], Current(f)))'
    BY <2>1 DEF FeedInOrder, NotLater
  <2> QED BY <2>2, InOrderOfFeeds DEF MessagesInOrder, FeedInOrder
<1>7. CASE TonForward(feed)
  <2>1. /\ requests[feed] + Len(answers[feed]) < MaxMessages
        /\ requests' = [requests EXCEPT ![feed] = @ + 1]
        /\ feeds' = feeds /\ answers' = answers
    BY <1>7 DEF TonForward
  <2>2. Len(answers[feed]) \in Nat /\ requests[feed] \in 0 .. MaxMessages
    BY <1>1, <1>2
  <2>3. requests[feed] + 1 \in 0 .. MaxMessages
    BY <1>1, <2>1, <2>2
  <2>4. requests' \in [Feeds -> 0 .. MaxMessages]
    BY <1>2, <2>1, <2>3
  <2> QED BY <1>2, <1>3, <1>4, <1>6, <2>1, <2>4 DEF TonOK, FeedsLater
<1>8. CASE TonAnswer(feed)
  <2> DEFINE a == IF feed \in feed_ids THEN Append(answers[feed], Current(feed))
                  ELSE answers[feed]
  <2>1. /\ requests[feed] > 0
        /\ requests' = [requests EXCEPT ![feed] = @ - 1]
        /\ feeds' = feeds
    BY <1>8 DEF TonAnswer
  <2>2. answers' = [answers EXCEPT ![feed] = a]
    BY <1>8 DEF TonAnswer, Current
  <2>3. requests' \in [Feeds -> 0 .. MaxMessages]
    <3>1. requests[feed] \in 0 .. MaxMessages
      BY <1>1, <1>2
    <3>2. requests[feed] - 1 \in 0 .. MaxMessages
      BY <1>1, <2>1, <3>1
    <3> QED BY <1>2, <2>1, <3>2
  <2>4. a \in Seq(FeedPrice) /\ FeedInOrder(feed, feeds[feed], a, Current(feed))
    <3>1. CASE feed \in feed_ids
      <4>1. Rounds!HonestSince(feed, Current(feed).price, Current(feed).timestamp)
        BY <3>1 DEF RoundHonest, RoundTime, Current
      <4>2. a = Append(answers[feed], Current(feed))
        BY <3>1
      <4> HIDE DEF a
      <4> QED BY <1>1, <1>2, <1>3, <1>5, <4>1, <4>2, AnswerInOrder
    <3>2. CASE feed \notin feed_ids
      BY <1>1, <1>2, <1>3, <3>2
    <3> QED BY <3>1, <3>2
  <2> HIDE DEF a
  <2>5. /\ answers' \in [Feeds -> Seq(FeedPrice)]
        /\ answers'[feed] = a
        /\ \A f \in Feeds \ {feed} : answers'[f] = answers[f]
    BY <1>1, <1>2, <2>2, <2>4
  <2>6. \A f \in Feeds : FeedInOrder(f, feeds'[f], answers'[f], Current(f))
    BY <1>3, <2>1, <2>4, <2>5
  <2> QED BY <1>2, <1>4, <1>6, <2>1, <2>3, <2>5, <2>6 DEF TonOK, FeedsLater
<1>9. CASE TonFetched(feed)
  <2>1. /\ answers[feed] # << >>
        /\ feeds' = [feeds EXCEPT ![feed] = Head(answers[feed])]
        /\ answers' = [answers EXCEPT ![feed] = Tail(answers[feed])]
        /\ requests' = requests
    BY <1>9 DEF TonFetched
  <2>2. /\ Head(answers[feed]) \in FeedPrice /\ Tail(answers[feed]) \in Seq(FeedPrice)
        /\ FeedInOrder(feed, Head(answers[feed]), Tail(answers[feed]), Current(feed))
        /\ NotLater(feeds[feed], Head(answers[feed]))
        /\ Rounds!HonestSince(feed, Head(answers[feed]).price, Head(answers[feed]).timestamp)
    BY <1>1, <1>2, <1>3, <2>1, FetchedInOrder
  <2>3. /\ feeds' \in [Feeds -> FeedPrice] /\ answers' \in [Feeds -> Seq(FeedPrice)]
        /\ feeds'[feed] = Head(answers[feed]) /\ answers'[feed] = Tail(answers[feed])
        /\ \A f \in Feeds \ {feed} : feeds'[f] = feeds[f] /\ answers'[f] = answers[f]
    BY <1>1, <1>2, <2>1, <2>2
  <2>4. \A f \in Feeds : FeedInOrder(f, feeds'[f], answers'[f], Current(f))
    BY <1>3, <2>2, <2>3
  <2>5. FeedsLater
    <3>1. \/ feeds'[feed] = feeds[feed]
          \/ feeds'[feed].timestamp > feeds[feed].timestamp
      <4>1. CASE feeds[feed] = Head(answers[feed])
        BY <2>3, <4>1
      <4>2. CASE feeds[feed].timestamp < Head(answers[feed]).timestamp
        <5>1. feeds[feed].timestamp \in Nat /\ Head(answers[feed]).timestamp \in Nat
          BY <1>1, <1>2, <2>2 DEF FeedPrice
        <5> QED BY <2>3, <4>2, <5>1
      <4> QED BY <2>2, <4>1, <4>2 DEF NotLater
    <3>2. Rounds!HonestSince(feed, feeds'[feed].price, feeds'[feed].timestamp)
      BY <2>2, <2>3
    <3> QED BY <2>3, <3>1, <3>2 DEF FeedsLater
  <2> QED BY <1>2, <1>4, <1>6, <2>1, <2>3, <2>4, <2>5 DEF TonOK
<1> QED BY <1>7, <1>8, <1>9

\* A feed with a manager of its own writes what it verified.
LEMMA SingleFeedStep ==
  ASSUME TonOK, chain = "ton_single", chain' = chain, NEW feed \in PriceFeedContracts,
         NEW payload \in TonPayloads, TonWritePrice(feed, payload)
  PROVE  /\ UNCHANGED roundVars
         /\ TonOK' /\ MessagesInOrder' /\ FeedsLater
<1> DEFINE x == TonValue(payload, feed)
           t == TonTimestamp(payload, {feed})
<1>1. feed \in Feeds /\ feeds \in [Feeds -> FeedPrice]
  BY RoundAssumption DEF TonOK
<1>2. /\ TonPayloadSound(payload, {feed}) /\ t > feeds[feed].timestamp
      /\ feeds' = [feeds EXCEPT ![feed] = [price |-> x, timestamp |-> t]]
      /\ UNCHANGED <<roundVars, requests, answers>>
  BY DEF TonWritePrice
<1>3. t \in Nat /\ x \in Nat /\ Rounds!HonestSince(feed, x, t)
  BY <1>1, <1>2, TonHonest
<1> HIDE DEF x, t
<1>4. [price |-> x, timestamp |-> t] \in FeedPrice
  BY <1>3 DEF FeedPrice
<1>5. /\ feeds' \in [Feeds -> FeedPrice]
      /\ feeds'[feed] = [price |-> x, timestamp |-> t]
      /\ \A f \in Feeds \ {feed} : feeds'[f] = feeds[f]
  BY <1>1, <1>2, <1>4
<1>6. TonOK'
  BY <1>2, <1>5 DEF TonOK
<1>7. MessagesInOrder'
  BY DEF MessagesInOrder
<1>8. FeedsLater
  BY <1>2, <1>3, <1>5 DEF FeedsLater
<1> QED BY <1>2, <1>6, <1>7, <1>8

\* Every step of the round adapters is a later round, or is about one price feed.
LEMMA RoundAdapterStep ==
  ASSUME RoundsOK, RoundHonest, TonOK, MessagesInOrder, clock \in Nat, chain' = chain,
         RoundAdapterNext
  PROVE  /\ RoundsOK' /\ RoundHonest' /\ TonOK' /\ MessagesInOrder' /\ FeedsLater
         /\ Rounds!Next \/ UNCHANGED Round
<1>1. CASE \E fs \in SUBSET Feeds : RoundWrite(fs) /\ (chain = "ton" => fs # {})
  BY <1>1, RoundWrites, MessagesAfterRound
<1>2. ASSUME UNCHANGED roundVars
      PROVE  RoundsOK' /\ RoundHonest' /\ UNCHANGED Round
  BY <1>2 DEF roundVars, RoundsOK, RoundHonest, RoundTime, Round
<1>3. CASE \E feed \in PriceFeedContracts :
             chain = "ton" /\ (TonForward(feed) \/ TonAnswer(feed) \/ TonFetched(feed))
  BY <1>2, <1>3, MessagesStep
<1>4. CASE \E feed \in PriceFeedContracts :
             chain = "ton_single" /\ \E payload \in TonPayloads : TonWritePrice(feed, payload)
  BY <1>2, <1>4, SingleFeedStep
<1>5. \/ \E fs \in SUBSET Feeds : RoundWrite(fs) /\ (chain = "ton" => fs # {})
      \/ \E feed \in PriceFeedContracts :
           \/ chain = "ton" /\ (TonForward(feed) \/ TonAnswer(feed) \/ TonFetched(feed))
           \/ chain = "ton_single" /\ \E payload \in TonPayloads : TonWritePrice(feed, payload)
  BY DEF RoundAdapterNext, RoundWrite
<1> QED BY <1>1, <1>3, <1>4, <1>5

-----------------------------------------------------------------------------
(* The records and the pills on Canton.                                     *)

CantonOK ==
  /\ feedData \in [Feeds -> Seq(PillRecord)] /\ pills \subseteq Pill /\ pillFactory \in BOOLEAN
  /\ ownerCalls \in 0 .. MaxOwnerCalls

\* Each record is of an earlier package than the one before it.
NewestFirst(h) ==
  \A i, j \in DOMAIN h : i < j =>
    h[j].priceData.packageTimestamp < h[i].priceData.packageTimestamp

\* The two newest records were never demoted.
TwoUndemoted(h) == \A i \in DOMAIN h : i <= 2 => h[i].demotedTimestamp = NotDemoted

Ordered(h) == NewestFirst(h) /\ TwoUndemoted(h)

RecordsOK == \A feed \in Feeds : Ordered(feedData[feed])

\* What is linked is there, unless it is stale.
LinkedKept ==
  \A feed \in Feeds : \A i \in DOMAIN feedData[feed] :
    feedData[feed][i].linked =>
      LET pill == PillOf(feed, feedData[feed][i]) IN pill \in pills \/ IsStale(pill)

LEMMA RecordTypes ==
  ASSUME NEW r \in PillRecord, NEW now \in Nat
  PROVE  /\ r.priceData.packageTimestamp \in Nat /\ r.priceData.writeTimestamp \in Nat
         /\ Demoted(r, now) \in PillRecord
         /\ Demoted(r, now).priceData = r.priceData /\ Demoted(r, now).linked = r.linked
  BY DEF PillRecord, CantonPrice, Demoted

\* partitionFeedPills keeps the newest record, the order and the two undemoted ones, and
\* drops what it archives.
LEMMA RemainingRecords ==
  ASSUME NEW h \in Seq(PillRecord), NEW now \in Nat, Ordered(h)
  PROVE  LET r == Remaining(h, now) IN
           /\ r \in Seq(PillRecord) /\ Ordered(r)
           /\ h = << >> => r = << >>
           /\ h # << >> => r # << >> /\ r[1] = h[1]
           /\ \A n \in DOMAIN r : \E i \in DOMAIN h :
                /\ r[n].priceData = h[i].priceData /\ r[n].linked = h[i].linked
                /\ i <= 2 \/ ~ShouldArchive(Demoted(h[i], now), now)
<1> DEFINE s == Marked(h, now)
           K == {i \in DOMAIN s : i <= 2 \/ (s[i].linked /\ ~ShouldArchive(s[i], now))}
           r == Keep(s, K)
<1>1. Remaining(h, now) = r
  BY DEF Remaining
<1>2. /\ DOMAIN h = 1 .. Len(h) /\ Len(h) \in Nat /\ \A i \in DOMAIN h : h[i] \in PillRecord
  BY LenProperties, ElementOfSeq
<1>3. /\ DOMAIN s = DOMAIN h
      /\ \A i \in DOMAIN h :
           /\ s[i] \in PillRecord /\ s[i].priceData = h[i].priceData /\ s[i].linked = h[i].linked
           /\ i <= 2 => s[i] = h[i]
           /\ i > 2 => s[i] = Demoted(h[i], now)
  <2>1. DOMAIN s = DOMAIN h
    BY DEF Marked
  <2>2. ASSUME NEW i \in DOMAIN h
        PROVE  /\ s[i] \in PillRecord /\ s[i].priceData = h[i].priceData
               /\ s[i].linked = h[i].linked
               /\ i <= 2 => s[i] = h[i]
               /\ i > 2 => s[i] = Demoted(h[i], now)
    <3>1. s[i] = IF i <= 2 THEN h[i] ELSE Demoted(h[i], now)
      BY DEF Marked
    <3>2. i \in Nat /\ h[i] \in PillRecord
      BY <1>2
    <3>3. /\ Demoted(h[i], now) \in PillRecord
          /\ Demoted(h[i], now).priceData = h[i].priceData
          /\ Demoted(h[i], now).linked = h[i].linked
      BY <3>2, RecordTypes
    <3> HIDE DEF s
    <3> QED BY <3>1, <3>2, <3>3
  <2> QED BY <2>1, <2>2
<1>4. s \in Seq(PillRecord) /\ Len(s) = Len(h)
  <2>1. s = [i \in 1 .. Len(h) |-> s[i]]
    BY <1>2 DEF Marked
  <2>2. \A i \in 1 .. Len(h) : s[i] \in PillRecord
    BY <1>2, <1>3
  <2> HIDE DEF s
  <2> QED BY <1>2, <2>1, <2>2
<1>5. K \in SUBSET DOMAIN s /\ K \in SUBSET (1 .. Len(s)) /\ Len(s) \in Nat
  BY <1>2, <1>3, <1>4
<1>6. /\ r \in Seq(PillRecord)
      /\ \A n \in DOMAIN r : \E i \in K : Rank(K, i) = n /\ r[n] = s[i]
      /\ \A i \in K : Rank(K, i) \in DOMAIN r /\ r[Rank(K, i)] = s[i]
  <2> HIDE DEF s, K
  <2> QED BY <1>4, <1>5, KeepProperties
<1>7. /\ \A i \in K : Rank(K, i) \in 1 .. Cardinality(K) /\ Cardinality(K) \in Nat
      /\ \A i, j \in K : Rank(K, i) < Rank(K, j) => i < j
      /\ \A i, j \in K : i < j => Rank(K, i) < Rank(K, j)
      /\ \A i \in K : i \in Nat /\ i >= 1
  <2> HIDE DEF s, K
  <2>1. \A i \in K : i \in Nat /\ i >= 1
    BY <1>5
  <2> QED BY <1>5, <2>1, RankProperties, RankReflectsOrder
<1>8. \A n \in DOMAIN r : \E i \in DOMAIN h :
        /\ r[n].priceData = h[i].priceData /\ r[n].linked = h[i].linked
        /\ i <= 2 \/ ~ShouldArchive(Demoted(h[i], now), now)
  <2> TAKE n \in DOMAIN r
  <2>1. PICK i \in K : r[n] = s[i]
    BY <1>6
  <2>2. i \in DOMAIN h /\ (i <= 2 \/ ~ShouldArchive(s[i], now)) /\ i \in Nat
    BY <1>2, <1>3
  <2> HIDE DEF r, s, K
  <2> QED BY <1>3, <2>1, <2>2
<1>9. NewestFirst(r)
  <2> SUFFICES ASSUME NEW m \in DOMAIN r, NEW n \in DOMAIN r, m < n
               PROVE  r[n].priceData.packageTimestamp < r[m].priceData.packageTimestamp
    BY DEF NewestFirst
  <2>1. PICK i \in K : Rank(K, i) = m /\ r[m] = s[i]
    BY <1>6
  <2>2. PICK j \in K : Rank(K, j) = n /\ r[n] = s[j]
    BY <1>6
  <2>3. i < j /\ i \in DOMAIN h /\ j \in DOMAIN h
    BY <1>3, <1>7, <2>1, <2>2
  <2> HIDE DEF r, s, K
  <2> QED BY <1>3, <2>1, <2>2, <2>3 DEF Ordered, NewestFirst
<1>10. TwoUndemoted(r)
  <2> SUFFICES ASSUME NEW n \in DOMAIN r, n <= 2
               PROVE  r[n].demotedTimestamp = NotDemoted
    BY DEF TwoUndemoted
  <2>1. PICK i \in K : Rank(K, i) = n /\ r[n] = s[i]
    BY <1>6
  <2>2. i \in DOMAIN h /\ i \in Nat
    BY <1>3, <1>7
  <2>3. i <= 2
    <3> SUFFICES ASSUME i > 2 PROVE FALSE
      BY <2>2
    <3>1. 1 \in DOMAIN s /\ 2 \in DOMAIN s
      BY <1>2, <1>3, <2>2
    <3>2. 1 \in K /\ 2 \in K
      BY <3>1
    <3> HIDE DEF r, s, K
    <3>3. Rank(K, 1) < Rank(K, 2) /\ Rank(K, 2) < Rank(K, i)
      BY <1>7, <2>2, <3>2
    <3>4. Rank(K, 1) \in Nat /\ Rank(K, 1) >= 1 /\ Rank(K, 2) \in Nat /\ Rank(K, i) \in Nat
      BY <1>7, <3>2
    <3> QED BY <2>1, <3>3, <3>4
  <2> HIDE DEF r, s, K
  <2> QED BY <1>3, <2>1, <2>2, <2>3 DEF Ordered, TwoUndemoted
<1>11. h = << >> => r = << >>
  <2> HAVE h = << >>
  <2>1. Len(h) = 0 /\ DOMAIN h = {}
    BY <1>2
  <2>2. DOMAIN r = {}
    BY <1>8, <2>1
  <2> HIDE DEF r, s, K
  <2> QED BY <1>6, <2>2, LenProperties, EmptySeq
<1>12. h # << >> => r # << >> /\ r[1] = h[1]
  <2> HAVE h # << >>
  <2>1. 1 \in DOMAIN h
    BY <1>2, EmptySeq
  <2>2. 1 \in K
    BY <1>3, <2>1
  <2> HIDE DEF r, s, K
  <2>3. Rank(K, 1) \in DOMAIN r /\ r[Rank(K, 1)] = s[1]
    BY <1>6, <2>2
  <2>4. DOMAIN r = 1 .. Len(r) /\ Len(r) \in Nat
    BY <1>6, LenProperties
  <2>5. 1 \in DOMAIN r
    BY <2>3, <2>4
  <2>6. PICK i \in K : Rank(K, i) = 1 /\ r[1] = s[i]
    BY <1>6, <2>5
  <2>7. i = 1
    <3> SUFFICES ASSUME i # 1 PROVE FALSE
      OBVIOUS
    <3>1. 1 < i
      BY <1>7
    <3>2. Rank(K, 1) < Rank(K, i) /\ Rank(K, 1) \in Nat /\ Rank(K, 1) >= 1
      BY <1>7, <2>2, <3>1
    <3> QED BY <2>6, <3>2
  <2>8. r # << >>
    BY <2>4, <2>5
  <2> QED BY <1>3, <2>1, <2>6, <2>7, <2>8
<1> HIDE DEF r
<1> QED BY <1>1, <1>6, <1>8, <1>9, <1>10, <1>11, <1>12 DEF Ordered

\* A newer record in front keeps the order, and moves the others one place on.
LEMMA MergedRecords ==
  ASSUME NEW h \in Seq(PillRecord), Ordered(h), NEW rec \in PillRecord,
         rec.demotedTimestamp = NotDemoted,
         h # << >> => h[1].priceData.packageTimestamp < rec.priceData.packageTimestamp
  PROVE  LET m == <<rec>> \o h IN
           /\ m \in Seq(PillRecord) /\ m # << >> /\ m[1] = rec
           /\ DOMAIN m = 1 .. Len(h) + 1
           /\ \A i \in 2 .. Len(h) + 1 : i - 1 \in DOMAIN h /\ m[i] = h[i - 1]
           /\ Ordered(m)
<1> DEFINE m == <<rec>> \o h
<1>1. /\ DOMAIN h = 1 .. Len(h) /\ Len(h) \in Nat /\ \A i \in DOMAIN h : h[i] \in PillRecord
  BY LenProperties, ElementOfSeq
<1>2. <<rec>> \in Seq(PillRecord) /\ Len(<<rec>>) = 1 /\ <<rec>>[1] = rec
  OBVIOUS
<1>3. /\ m \in Seq(PillRecord) /\ Len(m) = 1 + Len(h)
      /\ \A i \in 1 .. 1 + Len(h) : m[i] = IF i <= 1 THEN <<rec>>[i] ELSE h[i - 1]
  <2>1. /\ m \in Seq(PillRecord) /\ Len(m) = Len(<<rec>>) + Len(h)
        /\ \A i \in 1 .. Len(<<rec>>) + Len(h) :
             m[i] = IF i <= Len(<<rec>>) THEN <<rec>>[i] ELSE h[i - Len(<<rec>>)]
    BY <1>2, ConcatProperties
  <2> HIDE DEF m
  <2> QED BY <1>2, <2>1
<1> HIDE DEF m
<1>4. DOMAIN m = 1 .. Len(h) + 1
  <2>1. DOMAIN m = 1 .. Len(m) /\ Len(m) = Len(h) + 1
    BY <1>1, <1>3, LenProperties
  <2> QED BY <2>1
<1>5. m[1] = rec /\ m # << >>
  <2>1. 1 \in 1 .. 1 + Len(h)
    BY <1>1
  <2>2. m[1] = rec
    BY <1>2, <1>3, <2>1
  <2>3. Len(m) # 0
    BY <1>1, <1>3
  <2>4. m # << >>
    BY <1>3, <2>3, EmptySeq
  <2> QED BY <2>2, <2>4
<1>6. \A i \in 2 .. Len(h) + 1 : i - 1 \in DOMAIN h /\ m[i] = h[i - 1]
  BY <1>1, <1>3
<1>7. \A i \in DOMAIN m : i \in Nat /\ (i = 1 \/ i \in 2 .. Len(h) + 1)
  BY <1>1, <1>4
<1>8. \A i \in DOMAIN h :
        /\ h[i].priceData.packageTimestamp \in Nat
        /\ h[i].priceData.packageTimestamp < rec.priceData.packageTimestamp
  <2> TAKE i \in DOMAIN h
  <2>1. 1 \in DOMAIN h /\ i \in Nat /\ i >= 1 /\ h # << >>
    BY <1>1
  <2>2. i = 1 \/ h[i].priceData.packageTimestamp < h[1].priceData.packageTimestamp
    BY <2>1 DEF Ordered, NewestFirst
  <2>3. /\ h[i].priceData.packageTimestamp \in Nat
        /\ h[1].priceData.packageTimestamp \in Nat
        /\ rec.priceData.packageTimestamp \in Nat
    BY <1>1, <2>1 DEF PillRecord, CantonPrice
  <2> QED BY <2>1, <2>2, <2>3
<1>9. NewestFirst(m)
  <2> SUFFICES ASSUME NEW i \in DOMAIN m, NEW j \in DOMAIN m, i < j
               PROVE  m[j].priceData.packageTimestamp < m[i].priceData.packageTimestamp
    BY DEF NewestFirst
  <2>1. j \in 2 .. Len(h) + 1 /\ j - 1 \in DOMAIN h /\ m[j] = h[j - 1]
    BY <1>6, <1>7
  <2>2. CASE i = 1
    BY <1>5, <1>8, <2>1, <2>2
  <2>3. CASE i \in 2 .. Len(h) + 1
    <3>1. i - 1 \in DOMAIN h /\ m[i] = h[i - 1] /\ i - 1 < j - 1
      BY <1>6, <1>7, <2>3
    <3> QED BY <2>1, <3>1 DEF Ordered, NewestFirst
  <2> QED BY <1>7, <2>2, <2>3
<1>10. TwoUndemoted(m)
  <2> SUFFICES ASSUME NEW i \in DOMAIN m, i <= 2
               PROVE  m[i].demotedTimestamp = NotDemoted
    BY DEF TwoUndemoted
  <2>1. CASE i = 1
    BY <1>5, <2>1
  <2>2. CASE i \in 2 .. Len(h) + 1
    <3>1. i - 1 \in DOMAIN h /\ m[i] = h[i - 1] /\ i - 1 <= 2
      BY <1>6, <1>7, <2>2
    <3> QED BY <3>1 DEF Ordered, TwoUndemoted
  <2> QED BY <1>7, <2>1, <2>2
<1> QED BY <1>3, <1>4, <1>5, <1>6, <1>9, <1>10 DEF m, Ordered

\* The feed has a price that is later than the one before, and honest.
LaterPrice(feed, priceData) ==
  /\ priceData \in CantonPrice /\ priceData.packageTimestamp > 0
  /\ Rounds!HonestSince(feed, priceData.value, priceData.packageTimestamp)
  /\ feedData[feed] # << >> =>
       feedData[feed][1].priceData.packageTimestamp < priceData.packageTimestamp

LEMMA NewRecords ==
  ASSUME CantonOK, NEW fs \in SUBSET Feeds, NEW payload \in CantonPayloads,
         NEW now \in ClaimedTimes, CantonTimely(payload, now),
         NEW feed \in NewValues(fs, payload, now), NEW linked \in BOOLEAN
  PROVE  LET r == NewRecord(payload, feed, now, linked) IN
           /\ feed \in Feeds /\ now \in Nat
           /\ r \in PillRecord /\ r.demotedTimestamp = NotDemoted /\ r.linked = linked
           /\ LaterPrice(feed, r.priceData)
<1> DEFINE t == payload[1].timestamp
           x == CantonValue(payload, feed)
           r == NewRecord(payload, feed, now, linked)
<1>1. /\ payload \in Payloads /\ now \in Nat /\ feed \in Feeds
      /\ FeedAgreed(payload, feed)
      /\ feedData[feed] # << >> => Head(feedData[feed]).priceData.packageTimestamp < t
  BY CantonAssumption DEF NewValues
<1>2. /\ t \in Times /\ t \in Nat /\ x \in Nat
      /\ \E lo, hi \in Quote[feed][t] : lo <= x /\ x <= hi
  BY <1>1, CantonHonest
<1>3. t > 0
  BY <1>1, <1>2, ChainAssumption
<1>4. Rounds!HonestSince(feed, x, t)
  <2>1. t \in {time \in Times : time >= t}
    BY <1>2
  <2> QED BY <1>2, <2>1 DEF Rounds!HonestSince
<1>5. /\ r.priceData = [value |-> x, packageTimestamp |-> t, writeTimestamp |-> now]
      /\ r.linked = linked /\ r.demotedTimestamp = NotDemoted
      /\ r = [priceData |-> r.priceData, linked |-> linked, demotedTimestamp |-> NotDemoted]
  BY DEF NewRecord
<1>6. feedData[feed] # << >> => feedData[feed][1].priceData.packageTimestamp < t
  BY <1>1 DEF CantonOK
<1> HIDE DEF t, x, r
<1>7. r.priceData \in CantonPrice
  BY <1>1, <1>2, <1>5 DEF CantonPrice
<1>8. r \in PillRecord
  BY <1>5, <1>7 DEF PillRecord
<1>9. LaterPrice(feed, r.priceData)
  BY <1>3, <1>4, <1>5, <1>6, <1>7 DEF LaterPrice
<1> QED BY <1>1, <1>5, <1>8, <1>9 DEF r

-----------------------------------------------------------------------------
(* What the steps on Canton mean to readers and to the owners of pills.     *)

CantonLater ==
  \A feed \in Feeds : CantonRounds(feed)!Next \/ UNCHANGED CantonRound(feed)

PillsGone ==
  \A pill \in pills \ pills' :
    \/ feedData' = feedData /\ IsStale(pill)
    \/ \E i \in 3 .. Len(feedData[pill.feed]) : pill = PillOf(pill.feed, feedData[pill.feed][i])

\* A feed whose newest price stays is the same round.
LEMMA SameRound ==
  ASSUME NEW feed, feedData[feed] \in Seq(PillRecord), feedData'[feed] \in Seq(PillRecord),
         feedData[feed] = << >> <=> feedData'[feed] = << >>,
         feedData[feed] # << >> => feedData'[feed][1].priceData = feedData[feed][1].priceData
  PROVE  UNCHANGED CantonRound(feed)
<1>1. feedData[feed] # << >> =>
        Head(feedData'[feed]).priceData = Head(feedData[feed]).priceData
  OBVIOUS
<1> QED BY <1>1 DEF CantonRound

LEMMA NextRound ==
  ASSUME NEW feed \in Feeds, feedData[feed] \in Seq(PillRecord),
         feedData'[feed] \in Seq(PillRecord), feedData'[feed] # << >>,
         LaterPrice(feed, feedData'[feed][1].priceData)
  PROVE  CantonRounds(feed)!Next
<1> DEFINE new == feedData'[feed][1].priceData
<1>1. Head(feedData'[feed]) = feedData'[feed][1]
  OBVIOUS
<1>2. CantonRound(feed)' =
        [timestamp |-> new.packageTimestamp, values |-> [f \in {feed} |-> new.value]]
  BY <1>1 DEF CantonRound
<1>3. CantonRound(feed).timestamp < new.packageTimestamp
  <2>1. CASE feedData[feed] = << >>
    BY <2>1 DEF CantonRound, LaterPrice
  <2>2. CASE feedData[feed] # << >>
    <3>1. Head(feedData[feed]) = feedData[feed][1]
      BY <2>2
    <3> QED BY <2>2, <3>1 DEF CantonRound, LaterPrice
  <2> QED BY <2>1, <2>2
<1>4. Rounds!HonestSince(feed, new.value, new.packageTimestamp)
  BY DEF LaterPrice
<1> HIDE DEF new
<1>5. /\ CantonRound(feed)'.timestamp = new.packageTimestamp
      /\ DOMAIN CantonRound(feed)'.values = {feed}
      /\ CantonRound(feed)'.values[feed] = new.value
  BY <1>2
<1>6. CantonRounds(feed)!HonestSince(feed, new.value, new.packageTimestamp)
  BY <1>4 DEF Rounds!HonestSince, CantonRounds!HonestSince
<1>7. CantonRound(feed)'.timestamp > CantonRound(feed).timestamp
  <2>1. new.packageTimestamp \in Nat
    BY DEF LaterPrice, CantonPrice, new
  <2>2. CantonRound(feed).timestamp \in Nat
    <3>1. CASE feedData[feed] = << >>
      BY <3>1 DEF CantonRound
    <3>2. CASE feedData[feed] # << >>
      <4>1. Head(feedData[feed]) \in PillRecord
        BY <3>2
      <4> QED BY <3>2, <4>1 DEF CantonRound, PillRecord, CantonPrice
    <3> QED BY <3>1, <3>2
  <2> QED BY <1>3, <1>5, <2>1, <2>2
<1> QED BY <1>5, <1>6, <1>7 DEF CantonRounds!Next

\* A write without a factory: the feeds of new values have one record each.
LEMMA StepWithoutPills ==
  ASSUME CantonOK, RecordsOK, LinkedKept, clock' = clock,
         NEW fs \in SUBSET Feeds, NEW payload \in CantonPayloads, NEW now \in ClaimedTimes,
         CantonTimely(payload, now),
         WrittenWithoutPills(NewValues(fs, payload, now), payload, now)
  PROVE  /\ feedData' \in [Feeds -> Seq(PillRecord)] /\ pills' \subseteq Pill
         /\ RecordsOK' /\ LinkedKept' /\ CantonLater /\ PillsGone
<1> DEFINE new == NewValues(fs, payload, now)
           rec(feed) == NewRecord(payload, feed, now, FALSE)
<1>1. /\ feedData' = [feed \in Feeds |-> IF feed \in new THEN <<rec(feed)>> ELSE feedData[feed]]
      /\ pills' = pills
  BY DEF WrittenWithoutPills
<1>2. \A feed \in new :
        /\ feed \in Feeds /\ rec(feed) \in PillRecord
        /\ rec(feed).demotedTimestamp = NotDemoted /\ rec(feed).linked = FALSE
        /\ LaterPrice(feed, rec(feed).priceData)
  BY NewRecords
<1> HIDE DEF rec, new
<1>3. \A feed \in Feeds : feedData[feed] \in Seq(PillRecord)
  BY DEF CantonOK
<1>4. feedData' \in [Feeds -> Seq(PillRecord)]
  <2>1. \A feed \in new : <<rec(feed)>> \in Seq(PillRecord)
    BY <1>2
  <2> QED BY <1>1, <1>3, <2>1
<1>5. /\ \A feed \in new : feed \in Feeds /\ feedData'[feed] = <<rec(feed)>>
      /\ \A feed \in Feeds \ new : feedData'[feed] = feedData[feed]
  BY <1>1, <1>2
<1>6. \A feed \in new : /\ DOMAIN feedData'[feed] = {1} /\ feedData'[feed] # << >>
                        /\ feedData'[feed][1] = rec(feed)
  <2> TAKE feed \in new
  <2>1. DOMAIN <<rec(feed)>> = {1} /\ <<rec(feed)>> # << >> /\ <<rec(feed)>>[1] = rec(feed)
    OBVIOUS
  <2> QED BY <1>5, <2>1
<1>7. RecordsOK'
  <2> SUFFICES ASSUME NEW feed \in Feeds PROVE Ordered(feedData'[feed])
    BY DEF RecordsOK, Ordered, NewestFirst, TwoUndemoted
  <2>1. CASE feed \in new
    BY <1>2, <1>6, <2>1 DEF Ordered, NewestFirst, TwoUndemoted
  <2>2. CASE feed \notin new
    BY <1>5, <2>2 DEF RecordsOK
  <2> QED BY <2>1, <2>2
<1>8. LinkedKept'
  <2> SUFFICES ASSUME NEW feed \in Feeds, NEW i \in DOMAIN feedData'[feed],
                      feedData'[feed][i].linked
               PROVE  LET pill == PillOf(feed, feedData'[feed][i]) IN pill \in pills \/ IsStale(pill)
    BY <1>1 DEF LinkedKept, PillOf, IsStale, Now
  <2>1. feed \notin new
    BY <1>2, <1>6
  <2> QED BY <1>5, <2>1 DEF LinkedKept
<1>9. CantonLater
  <2> SUFFICES ASSUME NEW feed \in Feeds
               PROVE  CantonRounds(feed)!Next \/ UNCHANGED CantonRound(feed)
    BY DEF CantonLater
  <2>1. feedData[feed] \in Seq(PillRecord) /\ feedData'[feed] \in Seq(PillRecord)
    BY <1>3, <1>4
  <2>2. CASE feed \in new
    BY <1>2, <1>6, <2>1, <2>2, NextRound
  <2>3. CASE feed \notin new
    BY <1>5, <2>1, <2>3, SameRound
  <2> QED BY <2>2, <2>3
<1>10. PillsGone
  BY <1>1 DEF PillsGone
<1>11. pills' \subseteq Pill
  BY <1>1 DEF CantonOK
<1> QED BY <1>4, <1>7, <1>8, <1>9, <1>10, <1>11

\* A write with a factory: the feeds of new values get a record and a pill, and the
\* pills that were demoted long enough ago are archived.
LEMMA StepWithPills ==
  ASSUME CantonOK, RecordsOK, LinkedKept, clock' = clock,
         NEW fs \in SUBSET Feeds, NEW payload \in CantonPayloads, NEW now \in ClaimedTimes,
         CantonTimely(payload, now),
         WrittenWithPills(NewValues(fs, payload, now), payload, now)
  PROVE  /\ feedData' \in [Feeds -> Seq(PillRecord)] /\ pills' \subseteq Pill
         /\ RecordsOK' /\ LinkedKept' /\ CantonLater /\ PillsGone
<1> DEFINE new == NewValues(fs, payload, now)
           rec(feed) == NewRecord(payload, feed, now, TRUE)
           merged == [feed \in Feeds |->
             IF feed \in new THEN <<rec(feed)>> \o feedData[feed] ELSE feedData[feed]]
           created == {PillOf(feed, merged[feed][1]) : feed \in new}
           toArchive == UNION {ToArchive(feed, merged[feed], now) : feed \in Feeds}
<1>1. /\ toArchive \subseteq pills
      /\ feedData' = [feed \in Feeds |-> Remaining(merged[feed], now)]
      /\ pills' = (pills \cup created) \ toArchive
  BY DEF WrittenWithPills
<1>2. now \in Nat
  BY CantonAssumption
<1>3. \A feed \in new :
        /\ feed \in Feeds /\ rec(feed) \in PillRecord
        /\ rec(feed).demotedTimestamp = NotDemoted
        /\ LaterPrice(feed, rec(feed).priceData)
  BY NewRecords
<1>4. \A feed \in Feeds :
        merged[feed] = IF feed \in new THEN <<rec(feed)>> \o feedData[feed] ELSE feedData[feed]
  OBVIOUS
<1> HIDE DEF rec, new, merged
<1>5. \A feed \in Feeds :
        /\ feedData[feed] \in Seq(PillRecord) /\ Ordered(feedData[feed])
        /\ DOMAIN feedData[feed] = 1 .. Len(feedData[feed]) /\ Len(feedData[feed]) \in Nat
  BY LenProperties DEF CantonOK, RecordsOK
<1>6. ASSUME NEW feed \in new
      PROVE  /\ feed \in Feeds /\ merged[feed] # << >> /\ merged[feed][1] = rec(feed)
             /\ merged[feed] \in Seq(PillRecord) /\ Ordered(merged[feed])
             /\ DOMAIN merged[feed] = 1 .. Len(feedData[feed]) + 1
             /\ \A i \in 2 .. Len(feedData[feed]) + 1 :
                  i - 1 \in DOMAIN feedData[feed] /\ merged[feed][i] = feedData[feed][i - 1]
  <2> DEFINE h == feedData[feed]
  <2>1. /\ feed \in Feeds /\ rec(feed) \in PillRecord /\ rec(feed).demotedTimestamp = NotDemoted
        /\ h # << >> => h[1].priceData.packageTimestamp < rec(feed).priceData.packageTimestamp
    BY <1>3 DEF LaterPrice
  <2>2. merged[feed] = <<rec(feed)>> \o h
    BY <1>4, <2>1
  <2>3. h \in Seq(PillRecord) /\ Ordered(h)
    BY <1>5, <2>1
  <2> HIDE DEF h
  <2>4. LET m == <<rec(feed)>> \o h IN
          /\ m \in Seq(PillRecord) /\ m # << >> /\ m[1] = rec(feed)
          /\ DOMAIN m = 1 .. Len(h) + 1
          /\ \A i \in 2 .. Len(h) + 1 : i - 1 \in DOMAIN h /\ m[i] = h[i - 1]
          /\ Ordered(m)
    BY <2>1, <2>3, MergedRecords
  <2> QED BY <2>1, <2>2, <2>4 DEF h
<1>7. \A feed \in Feeds : merged[feed] \in Seq(PillRecord) /\ Ordered(merged[feed])
  BY <1>4, <1>5, <1>6
<1>8. ASSUME NEW feed \in Feeds
      PROVE  LET r == feedData'[feed] IN
               /\ r \in Seq(PillRecord) /\ Ordered(r)
               /\ merged[feed] = << >> => r = << >>
               /\ merged[feed] # << >> => r # << >> /\ r[1] = merged[feed][1]
               /\ \A n \in DOMAIN r : \E i \in DOMAIN merged[feed] :
                    /\ r[n].priceData = merged[feed][i].priceData
                    /\ r[n].linked = merged[feed][i].linked
                    /\ i <= 2 \/ ~ShouldArchive(Demoted(merged[feed][i], now), now)
  <2>1. feedData'[feed] = Remaining(merged[feed], now)
    BY <1>1
  <2> DEFINE m == merged[feed]
  <2>2. m \in Seq(PillRecord) /\ Ordered(m)
    BY <1>7
  <2> HIDE DEF m
  <2>3. LET r == Remaining(m, now) IN
          /\ r \in Seq(PillRecord) /\ Ordered(r)
          /\ m = << >> => r = << >>
          /\ m # << >> => r # << >> /\ r[1] = m[1]
          /\ \A n \in DOMAIN r : \E i \in DOMAIN m :
               /\ r[n].priceData = m[i].priceData /\ r[n].linked = m[i].linked
               /\ i <= 2 \/ ~ShouldArchive(Demoted(m[i], now), now)
    BY <1>2, <2>2, RemainingRecords
  <2> QED BY <2>1, <2>3 DEF m
<1>9. feedData' \in [Feeds -> Seq(PillRecord)]
  BY <1>1, <1>8
<1>10. RecordsOK'
  BY <1>8 DEF RecordsOK, Ordered, NewestFirst, TwoUndemoted
<1>11. CantonLater
  <2> SUFFICES ASSUME NEW feed \in Feeds
               PROVE  CantonRounds(feed)!Next \/ UNCHANGED CantonRound(feed)
    BY DEF CantonLater
  <2>1. feedData[feed] \in Seq(PillRecord) /\ feedData'[feed] \in Seq(PillRecord)
    BY <1>5, <1>8
  <2>2. CASE feed \in new
    BY <1>3, <1>6, <1>8, <2>1, <2>2, NextRound
  <2>3. CASE feed \notin new
    <3>1. merged[feed] = feedData[feed]
      BY <1>4, <2>3
    <3> QED BY <1>8, <2>1, <3>1, SameRound
  <2> QED BY <2>2, <2>3
\* Where a pill that is archived was before the write.
<1>12. ASSUME NEW feed \in Feeds, NEW i \in 3 .. Len(merged[feed]),
              ShouldArchive(Demoted(merged[feed][i], now), now)
       PROVE  \E k \in 3 .. Len(feedData[feed]) :
                PillOf(feed, merged[feed][i]) = PillOf(feed, feedData[feed][k])
  <2>1. CASE feed \notin new
    BY <1>4, <2>1
  <2>2. CASE feed \in new
    <3>1. Len(merged[feed]) = Len(feedData[feed]) + 1
      <4>1. DOMAIN merged[feed] = 1 .. Len(merged[feed]) /\ Len(merged[feed]) \in Nat
        BY <1>7, LenProperties
      <4> QED BY <1>5, <1>6, <2>2, <4>1
    <3>2. i \in 2 .. Len(feedData[feed]) + 1
      BY <1>5, <3>1
    <3>3. i - 1 \in DOMAIN feedData[feed] /\ merged[feed][i] = feedData[feed][i - 1]
      BY <1>6, <2>2, <3>2
    <3>4. i # 3
      <4> SUFFICES ASSUME i = 3 PROVE FALSE
        OBVIOUS
      <4>1. merged[feed][i].demotedTimestamp = NotDemoted
        BY <1>5, <3>3 DEF Ordered, TwoUndemoted
      <4>2. merged[feed][i] \in PillRecord
        BY <1>5, <3>3
      <4>3. Demoted(merged[feed][i], now).demotedTimestamp = now
        BY <4>1, <4>2 DEF Demoted, PillRecord
      <4>4. pill_keep_ms \in Nat /\ now - now = 0
        BY <1>2, CantonAssumption
      <4> QED BY <1>12, <4>3, <4>4 DEF ShouldArchive
    <3>5. i - 1 \in 3 .. Len(feedData[feed])
      BY <1>5, <3>2, <3>4
    <3> QED BY <3>3, <3>5
  <2> QED BY <2>1, <2>2
<1>13. \A pill \in toArchive : \E feed \in Feeds : \E i \in 3 .. Len(merged[feed]) :
         /\ ShouldArchive(Demoted(merged[feed][i], now), now)
         /\ pill = PillOf(feed, merged[feed][i])
  BY DEF ToArchive
<1>14. PillsGone
  <2> SUFFICES ASSUME NEW pill \in pills, pill \notin pills'
               PROVE  \E k \in 3 .. Len(feedData[pill.feed]) :
                        pill = PillOf(pill.feed, feedData[pill.feed][k])
    BY DEF PillsGone
  <2>1. pill \in toArchive
    BY <1>1
  <2>2. PICK feed \in Feeds : \E k \in 3 .. Len(feedData[feed]) :
          pill = PillOf(feed, feedData[feed][k])
    BY <1>12, <1>13, <2>1
  <2>3. pill.feed = feed
    BY <2>2 DEF PillOf
  <2> QED BY <2>2, <2>3
\* A record that remains is not one whose pill is archived.
<1>15. ASSUME NEW feed \in Feeds, NEW i \in DOMAIN merged[feed],
              i <= 2 \/ ~ShouldArchive(Demoted(merged[feed][i], now), now)
       PROVE  PillOf(feed, merged[feed][i]) \notin toArchive
  <2> SUFFICES ASSUME PillOf(feed, merged[feed][i]) \in toArchive PROVE FALSE
    OBVIOUS
  <2>1. PICK j \in 3 .. Len(merged[feed]) :
          /\ ShouldArchive(Demoted(merged[feed][j], now), now)
          /\ PillOf(feed, merged[feed][i]) = PillOf(feed, merged[feed][j])
    <3>1. PICK other \in Feeds : \E j \in 3 .. Len(merged[other]) :
            /\ ShouldArchive(Demoted(merged[other][j], now), now)
            /\ PillOf(feed, merged[feed][i]) = PillOf(other, merged[other][j])
      BY <1>13
    <3>2. other = feed
      BY <3>1 DEF PillOf
    <3> QED BY <3>1, <3>2
  <2>2. merged[feed][i].priceData = merged[feed][j].priceData
    BY <2>1 DEF PillOf
  <2>3. /\ DOMAIN merged[feed] = 1 .. Len(merged[feed]) /\ Len(merged[feed]) \in Nat
        /\ \A k \in DOMAIN merged[feed] : merged[feed][k].priceData.packageTimestamp \in Nat
    <3>1. merged[feed] \in Seq(PillRecord)
      BY <1>7
    <3>2. \A k \in DOMAIN merged[feed] : merged[feed][k] \in PillRecord
      BY <3>1, LenProperties, ElementOfSeq
    <3> QED BY <1>2, <3>1, <3>2, LenProperties, RecordTypes
  <2>4. i \in Nat /\ j \in Nat /\ j >= 3 /\ j \in DOMAIN merged[feed]
    BY <2>1, <2>2, <2>3
  <2>5. i # j
    BY <1>15, <2>1, <2>2, <2>4
  <2>6. i < j \/ j < i
    BY <2>4, <2>5
  <2> QED BY <1>7, <2>2, <2>3, <2>4, <2>6 DEF Ordered, NewestFirst
<1>16. LinkedKept'
  <2> SUFFICES ASSUME NEW feed \in Feeds, NEW n \in DOMAIN feedData'[feed],
                      feedData'[feed][n].linked
               PROVE  LET pill == PillOf(feed, feedData'[feed][n]) IN
                        pill \in pills' \/ IsStale(pill)
    BY DEF LinkedKept, PillOf, IsStale, Now
  <2>1. PICK i \in DOMAIN merged[feed] :
          /\ feedData'[feed][n].priceData = merged[feed][i].priceData
          /\ feedData'[feed][n].linked = merged[feed][i].linked
          /\ i <= 2 \/ ~ShouldArchive(Demoted(merged[feed][i], now), now)
    BY <1>8
  <2> DEFINE pill == PillOf(feed, merged[feed][i])
  <2>2. PillOf(feed, feedData'[feed][n]) = pill
    BY <2>1 DEF PillOf
  <2>3. pill \notin toArchive
    BY <1>15, <2>1
  <2>4. pill \in pills \cup created \/ IsStale(pill)
    <3>1. ASSUME NEW k \in DOMAIN feedData[feed], merged[feed][i] = feedData[feed][k]
          PROVE  pill \in pills \/ IsStale(pill)
      BY <2>1, <3>1 DEF LinkedKept
    <3>2. CASE feed \notin new
      BY <1>4, <3>1, <3>2
    <3>3. CASE feed \in new
      <4>1. i = 1 \/ i \in 2 .. Len(feedData[feed]) + 1
        BY <1>5, <1>6, <3>3
      <4>2. CASE i = 1
        BY <3>3, <4>2
      <4>3. CASE i \in 2 .. Len(feedData[feed]) + 1
        BY <1>6, <3>1, <3>3, <4>3
      <4> QED BY <4>1, <4>2, <4>3
    <3> QED BY <3>2, <3>3
  <2> QED BY <1>1, <2>2, <2>3, <2>4
<1>17. pills' \subseteq Pill
  <2>1. \A feed \in new : PillOf(feed, merged[feed][1]) \in Pill
    BY <1>3, <1>6 DEF PillOf, Pill, PillRecord
  <2>2. created \subseteq Pill
    BY <2>1
  <2> QED BY <1>1, <2>2 DEF CantonOK
<1> QED BY <1>9, <1>10, <1>11, <1>14, <1>16, <1>17

\* UnlinkAllPills changes nothing but the links.
LEMMA UnlinkStep ==
  ASSUME CantonOK, RecordsOK, UnlinkAllPills
  PROVE  /\ feedData' \in [Feeds -> Seq(PillRecord)] /\ RecordsOK' /\ LinkedKept' /\ CantonLater
<1>1. feedData' = [feed \in Feeds |->
        [i \in DOMAIN feedData[feed] |-> [feedData[feed][i] EXCEPT !.linked = FALSE]]]
  BY DEF UnlinkAllPills
<1>2. ASSUME NEW feed \in Feeds
      PROVE  LET h == feedData[feed]
                 r == feedData'[feed]
             IN /\ h \in Seq(PillRecord) /\ r \in Seq(PillRecord)
                /\ DOMAIN r = DOMAIN h /\ (h = << >> <=> r = << >>)
                /\ h # << >> => 1 \in DOMAIN h
                /\ \A i \in DOMAIN h :
                     /\ r[i].priceData = h[i].priceData /\ r[i].linked = FALSE
                     /\ r[i].demotedTimestamp = h[i].demotedTimestamp
  <2> DEFINE h == feedData[feed]
             r == feedData'[feed]
  <2>1. h \in Seq(PillRecord)
    BY DEF CantonOK
  <2>2. r = [i \in DOMAIN h |-> [h[i] EXCEPT !.linked = FALSE]]
    BY <1>1
  <2> HIDE DEF h, r
  <2>3. DOMAIN h = 1 .. Len(h) /\ Len(h) \in Nat /\ \A i \in DOMAIN h : h[i] \in PillRecord
    BY <2>1, LenProperties, ElementOfSeq
  <2>4. ASSUME NEW i \in DOMAIN h
        PROVE  /\ r[i] \in PillRecord
               /\ r[i].priceData = h[i].priceData /\ r[i].linked = FALSE
               /\ r[i].demotedTimestamp = h[i].demotedTimestamp
    <3>1. h[i] \in PillRecord /\ r[i] = [h[i] EXCEPT !.linked = FALSE]
      BY <2>2, <2>3
    <3> QED BY <3>1 DEF PillRecord
  <2>5. DOMAIN r = DOMAIN h
    BY <2>2
  <2>6. r \in Seq(PillRecord)
    <3>1. r \in [1 .. Len(h) -> PillRecord]
      BY <2>2, <2>3, <2>4
    <3> QED BY <2>3, <3>1, SeqDef
  <2>7. /\ h = << >> <=> DOMAIN h = {}
        /\ r = << >> <=> DOMAIN r = {}
    BY <2>1, <2>6, EmptySeq, LenProperties
  <2>8. h # << >> => 1 \in DOMAIN h
    BY <2>3, <2>7
  <2> QED BY <2>1, <2>4, <2>5, <2>6, <2>7, <2>8 DEF h, r
<1>3. feedData' \in [Feeds -> Seq(PillRecord)]
  <2> DEFINE unlinked(feed) ==
        [i \in DOMAIN feedData[feed] |-> [feedData[feed][i] EXCEPT !.linked = FALSE]]
  <2>1. feedData' = [feed \in Feeds |-> unlinked(feed)]
    BY <1>1
  <2> HIDE DEF unlinked
  <2>2. \A feed \in Feeds : unlinked(feed) \in Seq(PillRecord)
    BY <1>2, <2>1
  <2> QED BY <2>1, <2>2
<1>4. RecordsOK'
  <2> SUFFICES ASSUME NEW feed \in Feeds PROVE Ordered(feedData'[feed])
    BY DEF RecordsOK, Ordered, NewestFirst, TwoUndemoted
  <2> DEFINE h == feedData[feed]
             r == feedData'[feed]
  <2>1. /\ DOMAIN r = DOMAIN h
        /\ \A i \in DOMAIN h : /\ r[i].priceData = h[i].priceData
                                /\ r[i].demotedTimestamp = h[i].demotedTimestamp
    BY <1>2
  <2>2. Ordered(h)
    BY DEF RecordsOK
  <2> HIDE DEF h, r
  <2>3. Ordered(r)
    BY <2>1, <2>2 DEF Ordered, NewestFirst, TwoUndemoted
  <2> QED BY <2>3 DEF r
<1>5. LinkedKept'
  BY <1>2 DEF LinkedKept
<1>6. CantonLater
  <2> SUFFICES ASSUME NEW feed \in Feeds PROVE UNCHANGED CantonRound(feed)
    BY DEF CantonLater
  <2> QED BY <1>2, SameRound
<1> QED BY <1>3, <1>4, <1>5, <1>6

\* What every step on Canton keeps and does.
LEMMA CantonStep ==
  ASSUME CantonOK, RecordsOK, LinkedKept, clock \in Nat, clock' = clock, CantonNext
  PROVE  CantonOK' /\ RecordsOK' /\ LinkedKept' /\ CantonLater /\ PillsGone
<1>1. ASSUME NEW fs \in (SUBSET Feeds) \ {{}}, NEW payload \in CantonPayloads,
             NEW now \in ClaimedTimes, CantonWritePrices(fs, payload, now)
      PROVE  CantonOK' /\ RecordsOK' /\ LinkedKept' /\ CantonLater /\ PillsGone
  <2>1. /\ fs \in SUBSET Feeds /\ CantonTimely(payload, now)
        /\ \/ WrittenWithPills(NewValues(fs, payload, now), payload, now)
           \/ WrittenWithoutPills(NewValues(fs, payload, now), payload, now)
        /\ UNCHANGED <<pillFactory, ownerCalls>>
    BY <1>1 DEF CantonWritePrices
  <2>2. /\ feedData' \in [Feeds -> Seq(PillRecord)] /\ pills' \subseteq Pill
        /\ RecordsOK' /\ LinkedKept' /\ CantonLater /\ PillsGone
    BY <2>1, StepWithPills, StepWithoutPills
  <2> QED BY <2>1, <2>2 DEF CantonOK, PillsGone
<1>2. ASSUME UNCHANGED feedData
      PROVE  RecordsOK' /\ CantonLater
  BY <1>2 DEF RecordsOK, Ordered, NewestFirst, TwoUndemoted, CantonLater, CantonRound
<1>3. OwnerCalls => ownerCalls' \in 0 .. MaxOwnerCalls
  BY CantonAssumption DEF OwnerCalls, CantonOK
<1>4. CASE UpdatePillFactory
  <2>1. UNCHANGED <<feedData, pills>> /\ pillFactory' \in BOOLEAN /\ OwnerCalls
    BY <1>4 DEF UpdatePillFactory, CantonOK
  <2>2. LinkedKept' /\ PillsGone
    BY <2>1 DEF LinkedKept, PillsGone, IsStale, Now, PillOf
  <2> QED BY <1>2, <1>3, <2>1, <2>2 DEF CantonOK
<1>5. CASE UnlinkAllPills
  <2>1. UNCHANGED <<pills, pillFactory>> /\ OwnerCalls
    BY <1>5 DEF UnlinkAllPills
  <2>2. PillsGone
    BY <2>1 DEF PillsGone
  <2> QED BY <1>3, <1>5, <2>1, <2>2, UnlinkStep DEF CantonOK
<1>6. CASE ArchiveStale
  <2>1. PICK batch \in SUBSET {pill \in pills : IsStale(pill)} :
          pills' = pills \ batch /\ UNCHANGED <<feedData, pillFactory, ownerCalls>>
    BY <1>6 DEF ArchiveStale
  <2>2. \A pill \in pills \ pills' : feedData' = feedData /\ IsStale(pill)
    BY <2>1
  <2>3. PillsGone /\ pills' \subseteq pills
    BY <2>1, <2>2 DEF PillsGone
  <2>4. LinkedKept'
    <3> SUFFICES ASSUME NEW feed \in Feeds, NEW i \in DOMAIN feedData[feed],
                        feedData[feed][i].linked
                 PROVE  LET pill == PillOf(feed, feedData[feed][i]) IN
                          pill \in pills' \/ IsStale(pill)
      BY <2>1 DEF LinkedKept, IsStale, Now, PillOf
    <3> QED BY <2>2 DEF LinkedKept
  <2> QED BY <1>2, <2>1, <2>3, <2>4 DEF CantonOK
<1> QED BY <1>1, <1>4, <1>5, <1>6 DEF CantonNext

-----------------------------------------------------------------------------
(* The inductive invariant of the adapter, whatever its chain.              *)

\* What the steps of an adapter's rounds, feeds and records rely on, together.
Inv ==
  /\ chain \in Chains /\ clock \in Nat
  /\ PricesOK
  /\ RoundsOK /\ RoundHonest
  /\ TonOK /\ MessagesInOrder
  /\ CantonOK /\ RecordsOK /\ LinkedKept

\* What becomes of the prices, the rounds and the pills in one step.
Progress ==
  /\ [PF!Next]_<<prices, WriteClock, Feeds \ repeated>>
  /\ [Rounds!Next]_Round
  /\ FeedsLater /\ CantonLater /\ PillsGone

LEMMA InitInv ==
  ASSUME Init
  PROVE  Inv
<1>1. chain \in Chains /\ clock \in Nat
  BY DEF Init
<1>2. PricesOK
  BY DEF Init, FeedAdapterInit, PricesOK
<1>3. /\ values = [feed \in Feeds |-> NO_VALUE] /\ feed_ids = {} /\ timestamp = 0
      /\ last_update = NEVER /\ round_number = 0
      /\ feeds = [feed \in Feeds |-> [price |-> 0, timestamp |-> 0]]
      /\ requests = [feed \in Feeds |-> 0] /\ answers = [feed \in Feeds |-> << >>]
  BY DEF Init, RoundAdapterInit
<1>4. RoundsOK /\ RoundHonest
  BY <1>3 DEF RoundsOK, RoundHonest, NO_VALUE
<1>5. TonOK
  <2>1. << >> \in Seq(FeedPrice) /\ 0 \in 0 .. MaxMessages
    BY RoundAssumption
  <2> QED BY <1>3, <2>1 DEF TonOK, FeedPrice
<1>6. MessagesInOrder
  <2> SUFFICES ASSUME NEW feed \in Feeds
               PROVE  FeedInOrder(feed, feeds[feed], answers[feed], Current(feed))
    BY InOrderOfFeeds
  <2>1. feeds[feed] = Current(feed) /\ answers[feed] = << >>
    BY <1>3 DEF Current, NO_VALUE
  <2> QED BY <2>1 DEF FeedInOrder, NotLater
<1>7. /\ feedData = [feed \in Feeds |-> << >>] /\ pills = {} /\ pillFactory \in BOOLEAN
      /\ ownerCalls = 0
  BY DEF Init, CantonInit
<1>8. CantonOK
  BY <1>7, CantonAssumption DEF CantonOK
<1>9. RecordsOK /\ LinkedKept
  BY <1>7 DEF RecordsOK, Ordered, NewestFirst, TwoUndemoted, LinkedKept
<1> QED BY <1>1, <1>2, <1>4, <1>5, <1>6, <1>8, <1>9 DEF Inv

\* Time passes, and pills become stale.
LEMMA TickStep ==
  ASSUME Inv, Tick
  PROVE  Inv' /\ Progress
<1>1. clock \in Nat /\ clock' = clock + 1
  BY DEF Inv, Tick
<1>2. UNCHANGED <<chain, prices, repeated, roundVars, tonVars, cantonVars>>
  BY DEF Tick
<1>3. Now \in Nat /\ Now' \in Nat /\ Now' > Now
  BY <1>1, ChainAssumption DEF Now
<1>4. WriteClock' > WriteClock
  BY <1>1, <1>2, <1>3 DEF WriteClock
<1>5. PricesOK' /\ RoundsOK' /\ RoundHonest' /\ UNCHANGED Round
  BY <1>2 DEF Inv, PricesOK, roundVars, RoundsOK, RoundHonest, RoundTime, Round
<1>6. TonOK' /\ MessagesInOrder'
  BY <1>2 DEF Inv, roundVars, tonVars, TonOK, MessagesInOrder, Current
<1>7. CantonOK' /\ RecordsOK'
  BY <1>2 DEF Inv, cantonVars, CantonOK, RecordsOK, Ordered, NewestFirst, TwoUndemoted
<1>8. LinkedKept'
  <2>1. UNCHANGED <<feedData, pills>>
    BY <1>2 DEF cantonVars
  <2>2. ASSUME NEW feed \in Feeds, NEW i \in DOMAIN feedData[feed],
               IsStale(PillOf(feed, feedData[feed][i]))
        PROVE  IsStale(PillOf(feed, feedData[feed][i]))'
    <3>1. feedData[feed] \in Seq(PillRecord)
      BY DEF Inv, CantonOK
    <3>2. feedData[feed][i] \in PillRecord
      BY <3>1, LenProperties, ElementOfSeq
    <3>3. feedData[feed][i].priceData.writeTimestamp \in Nat
      BY <3>2 DEF PillRecord, CantonPrice
    <3>4. Now - feedData[feed][i].priceData.writeTimestamp > pill_staleness_ms
      BY <2>2 DEF IsStale, PillOf
    <3>5. Now' - feedData[feed][i].priceData.writeTimestamp > pill_staleness_ms
      BY <1>3, <3>3, <3>4, CantonAssumption
    <3> QED BY <2>1, <3>5 DEF IsStale, PillOf
  <2> SUFFICES ASSUME NEW feed \in Feeds, NEW i \in DOMAIN feedData[feed],
                      feedData[feed][i].linked
               PROVE  \/ PillOf(feed, feedData[feed][i]) \in pills
                      \/ IsStale(PillOf(feed, feedData[feed][i]))'
    BY <2>1 DEF LinkedKept, PillOf, IsStale
  <2> QED BY <2>2 DEF Inv, LinkedKept
<1>9. Inv'
  BY <1>1, <1>2, <1>5, <1>6, <1>7, <1>8 DEF Inv
<1>10. PF!Next
  BY <1>2, <1>4 DEF PF!Next
<1>11. FeedsLater /\ CantonLater /\ PillsGone
  BY <1>2 DEF tonVars, cantonVars, FeedsLater, CantonLater, CantonRound, PillsGone
<1> QED BY <1>5, <1>9, <1>10, <1>11 DEF Progress

\* A transaction on one kind of adapter leaves the state of the others alone.
LEMMA StepInv ==
  ASSUME Inv, [Next]_vars
  PROVE  Inv' /\ Progress
<1>1. ASSUME UNCHANGED <<chain, clock>>, UNCHANGED <<prices, repeated>>
      PROVE  PricesOK' /\ UNCHANGED <<prices, WriteClock, Feeds \ repeated>>
  BY <1>1 DEF Inv, PricesOK, WriteClock, Now
<1>2. ASSUME UNCHANGED chain, UNCHANGED <<roundVars, tonVars>>
      PROVE  /\ RoundsOK' /\ RoundHonest' /\ TonOK' /\ MessagesInOrder'
             /\ UNCHANGED Round /\ FeedsLater
  BY <1>2 DEF Inv, roundVars, tonVars, RoundsOK, RoundHonest, RoundTime, Round, TonOK,
              MessagesInOrder, Current, FeedsLater
<1>3. ASSUME UNCHANGED clock, UNCHANGED cantonVars
      PROVE  CantonOK' /\ RecordsOK' /\ LinkedKept' /\ CantonLater /\ PillsGone
  BY <1>3 DEF Inv, cantonVars, CantonOK, RecordsOK, Ordered, NewestFirst, TwoUndemoted,
              LinkedKept, PillOf, IsStale, Now, CantonLater, CantonRound, PillsGone
<1>4. CASE FeedAdapterNext /\ UNCHANGED <<chain, clock, roundVars, tonVars, cantonVars>>
  <2>1. /\ PricesOK'
        /\ \A feed \in Feeds : PF!Kept(feed) \/ PF!Published(feed, prices'[feed])
    BY <1>4, FeedsPublished DEF Inv
  <2>2. PF!Next
    BY <1>4, <2>1 DEF PF!Next, WriteClock, Now
  <2> QED BY <1>2, <1>3, <1>4, <2>1, <2>2 DEF Inv, Progress
<1>5. CASE RoundAdapterNext /\ UNCHANGED <<chain, clock, prices, repeated, cantonVars>>
  <2>1. /\ RoundsOK' /\ RoundHonest' /\ TonOK' /\ MessagesInOrder' /\ FeedsLater
        /\ Rounds!Next \/ UNCHANGED Round
    BY <1>5, RoundAdapterStep DEF Inv
  <2> QED BY <1>1, <1>3, <1>5, <2>1 DEF Inv, Progress
<1>6. CASE CantonNext /\ UNCHANGED <<chain, clock, prices, repeated, roundVars, tonVars>>
  <2>1. CantonOK' /\ RecordsOK' /\ LinkedKept' /\ CantonLater /\ PillsGone
    BY <1>6, CantonStep DEF Inv
  <2> QED BY <1>1, <1>2, <1>6, <2>1 DEF Inv, Progress
<1>7. CASE UNCHANGED vars
  BY <1>1, <1>2, <1>3, <1>7 DEF Inv, Progress, vars
<1> QED BY <1>4, <1>5, <1>6, <1>7, TickStep DEF Next

\* The invariant and what each step does, of a whole behaviour.
LEMMA AlwaysInv == Spec => []Inv /\ [][Progress]_vars
<1>1. Init => Inv
  BY InitInv
<1>2. Inv /\ [Next]_vars => Inv' /\ Progress
  BY StepInv
<1> QED BY <1>1, <1>2, PTL DEF Spec

\* Type correctness: the state of each adapter stays well-formed, and only the feeds of
\* the last round have a value.
THEOREM TypeCorrect == Spec => []TypeOK
<1>1. Inv => TypeOK
  BY DEF Inv, PricesOK, RoundsOK, TonOK, FeedPrice, CantonOK, TypeOK
<1> QED BY <1>1, AlwaysInv, PTL

\* The adapters on Radix, Solana, Stylus and Aptos: a price only gives way to a later one,
\* and honest values lie on both sides of it, but for a price that was taken on Aptos from
\* a payload in which a faulty signer has the feed several times in a package.
THEOREM PriceFeedsImplemented == Spec => ImplementsPriceFeeds
<1>1. Init => PF!Init
  <2> SUFFICES ASSUME Init PROVE PF!Init
    OBVIOUS
  <2>1. prices = [feed \in Feeds |-> NoPrice] /\ clock \in Nat
    BY DEF Init, FeedAdapterInit
  <2> QED BY <2>1, ClockFacts DEF PF!Init
<1>2. Progress => [PF!Next]_<<prices, WriteClock, Feeds \ repeated>>
  BY DEF Progress
<1>3. UNCHANGED vars => UNCHANGED <<prices, WriteClock, Feeds \ repeated>>
  BY DEF vars, WriteClock, Now
<1> QED BY <1>1, <1>2, <1>3, AlwaysInv, PTL DEF Spec, ImplementsPriceFeeds, PF!Spec

\* The adapters on Casper, Fuel, Starknet, TON and Canton: a round gives way to a later
\* round only, as a whole, and so does what each feed's contract or record answers.
THEOREM PriceRoundsImplemented == Spec => ImplementsPriceRounds
<1>1. Init => Rounds!Init
  <2> SUFFICES ASSUME Init PROVE Rounds!Init
    OBVIOUS
  <2>1. values = [feed \in Feeds |-> NO_VALUE] /\ timestamp = 0
    BY DEF Init, RoundAdapterInit
  <2>2. /\ {f \in Feeds : values[f] # NO_VALUE} = {}
        /\ (IF chain = "starknet" THEN timestamp * MS_IN_SEC ELSE timestamp) = 0
    BY <2>1, ChainAssumption
  <2> QED BY <2>2 DEF Rounds!Init, Rounds!Empty, Round
<1>2. Progress => [Rounds!Next]_Round
  BY DEF Progress
<1>3. ASSUME Progress
      PROVE  EachFeedLater
  <2> SUFFICES ASSUME NEW feed \in Feeds
               PROVE  /\ FeedRounds(feed)!Next \/ UNCHANGED FeedRound(feed)
                      /\ CantonRounds(feed)!Next \/ UNCHANGED CantonRound(feed)
    BY DEF EachFeedLater
  <2>1. ASSUME feeds'[feed] = feeds[feed]
        PROVE  UNCHANGED FeedRound(feed)
    <3>1. {feed} \ {g \in Feeds : feeds'[g].timestamp = 0}
            = {feed} \ {g \in Feeds : feeds[g].timestamp = 0}
      BY <2>1
    <3>2. \A f \in {feed} : feeds'[f].price = feeds[f].price
      BY <2>1
    <3> QED BY <2>1, <3>1, <3>2 DEF FeedRound
  <2>2. ASSUME feeds'[feed].timestamp > feeds[feed].timestamp,
               Rounds!HonestSince(feed, feeds'[feed].price, feeds'[feed].timestamp)
        PROVE  FeedRounds(feed)!Next
    <3> DEFINE new == FeedRound(feed)'
    <3>1. new.timestamp = feeds'[feed].timestamp /\ FeedRound(feed).timestamp = feeds[feed].timestamp
      BY DEF FeedRound
    <3>2. /\ DOMAIN new.values \subseteq {feed}
          /\ \A f \in DOMAIN new.values : new.values[f] = feeds'[f].price
      BY DEF FeedRound
    <3> HIDE DEF new
    <3>3. \A f \in DOMAIN new.values :
            FeedRounds(feed)!HonestSince(f, new.values[f], new.timestamp)
      BY <2>2, <3>1, <3>2 DEF FeedRounds!HonestSince, Rounds!HonestSince
    <3> QED BY <2>2, <3>1, <3>2, <3>3 DEF FeedRounds!Next, new
  <2> QED BY <1>3, <2>1, <2>2 DEF Progress, FeedsLater, CantonLater
<1>4. UNCHANGED vars => UNCHANGED Round /\ UNCHANGED <<feeds, feedData>>
  BY DEF vars, roundVars, tonVars, cantonVars, Round
<1> QED BY <1>1, <1>2, <1>3, <1>4, AlwaysInv, PTL
        DEF Spec, ImplementsPriceRounds, Rounds!Spec

\* A write on Canton archives only pills that were superseded twice before it; otherwise
\* pills go because they are stale.  What the adapter links to is there unless it is stale.
THEOREM PillsStay == Spec => PillsKept
<1>1. Inv => LinkedKept
  BY DEF Inv
<1>2. Progress => PillsGone
  BY DEF Progress
<1> QED BY <1>1, <1>2, AlwaysInv, PTL DEF PillsKept, LinkedKept, PillsGone
=============================================================================
