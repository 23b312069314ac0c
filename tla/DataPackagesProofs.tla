------------------------- MODULE DataPackagesProofs -------------------------
(***************************************************************************)
(* Theorems about DataPackagesRequest, for any callers, gateways, requests,  *)
(* times to live and whatever the gateways serve.                           *)
(***************************************************************************)
EXTENDS DataPackagesRequest, FiniteLemmas

-----------------------------------------------------------------------------
(* What a request accepts.                                                  *)

\* The filter of the signers keeps packages of a feed, those that the request allows.
LEMMA AuthorizedPackages ==
  ASSUME NEW p, NEW s \in Seq(Package)
  PROVE  LET K == Authorized(p, s)
             a == Keep(s, K)
         IN /\ a \in Seq(Package) /\ Len(a) = Cardinality(K)
            /\ K # {} => a # << >>
            /\ \A i \in DOMAIN a : \E j \in K : a[i] = s[j]
            /\ \A j \in K : p.skipVerification \/ s[j].signer \in p.signers
<1> DEFINE K == Authorized(p, s)
           a == Keep(s, K)
<1>1. /\ K \in SUBSET DOMAIN s
      /\ \A j \in K : p.skipVerification \/ s[j].signer \in p.signers
  BY DEF Authorized
<1>2. Cardinality(K) \in Nat
  <2>1. DOMAIN s = 1 .. Len(s) /\ Len(s) \in Nat
    BY LenProperties
  <2>2. IsFiniteSet(1 .. Len(s))
    BY <2>1, FS_Interval
  <2> QED BY <1>1, <2>1, <2>2, FS_Subset, FS_CardinalityType
<1> HIDE DEF K
<1>3. DOMAIN a = 1 .. Cardinality(K)
  BY DEF Keep
<1>4. /\ a \in Seq(Package)
      /\ \A i \in DOMAIN a : \E j \in K : a[i] = s[j]
      /\ \A j \in K : Rank(K, j) \in DOMAIN a
  BY <1>1, KeepProperties
<1> HIDE DEF a
<1>5. Len(a) = Cardinality(K)
  BY <1>2, <1>3, <1>4, LenProperties
<1>6. K # {} => a # << >>
  BY <1>4
<1> QED BY <1>1, <1>4, <1>5, <1>6 DEF K, a

\* What a request may be given at a moment: the packages it allows, enough of them and of
\* one timestamp, none too old, and the feeds it insists on.
Conforms(p, answer, time) ==
  /\ ~p.ignoreMissing /\ ~p.all => DOMAIN answer = p.feeds
  /\ ~p.all => DOMAIN answer \subseteq p.feeds
  /\ \A feed \in DOMAIN answer :
       /\ Len(answer[feed]) >= p.count
       /\ Cardinality({answer[feed][i].timestamp : i \in DOMAIN answer[feed]}) = 1
       /\ \A i \in DOMAIN answer[feed] :
            /\ p.skipVerification \/ answer[feed][i].signer \in p.signers
            /\ p.maxDeviation > 0 => time - answer[feed][i].timestamp <= p.maxDeviation

LEMMA OneTimestamp ==
  ASSUME NEW a \in Seq(Package), a # << >>,
         \A i \in DOMAIN a : a[i].timestamp = a[1].timestamp
  PROVE  Cardinality({a[i].timestamp : i \in DOMAIN a}) = 1
<1>1. 1 \in DOMAIN a
  <2>1. DOMAIN a = 1 .. Len(a) /\ Len(a) \in Nat
    BY LenProperties
  <2>2. Len(a) # 0
    BY EmptySeq
  <2> QED BY <2>1, <2>2
<1>2. {a[i].timestamp : i \in DOMAIN a} = {a[1].timestamp}
  BY <1>1
<1> QED BY <1>2, FS_Singleton

\* What is selected of an accepted response is a response, and one that conforms.
LEMMA SelectedConforms ==
  ASSUME NEW p \in ParamsType, NEW r, IsResponse(r), NEW time \in Nat, Accepts(p, r, time)
  PROVE  IsResponse(Selected(p, r, time)) /\ Conforms(p, Selected(p, r, time), time)
<1> DEFINE answer == Selected(p, r, time)
<1>1. /\ DOMAIN answer = {f \in Requested(p, r) : IsValid(p, r, f, time)}
      /\ \A feed \in DOMAIN answer : answer[feed] = Keep(r[feed], Authorized(p, r[feed]))
  BY DEF Selected
<1> HIDE DEF answer
<1>2. ASSUME NEW feed \in DOMAIN answer
      PROVE  /\ feed \in DOMAIN r /\ feed \in Feeds
             /\ answer[feed] \in Seq(Package) /\ answer[feed] # << >>
             /\ Len(answer[feed]) >= p.count
             /\ \A i \in DOMAIN answer[feed] : answer[feed][i].timestamp = answer[feed][1].timestamp
             /\ \A i \in DOMAIN answer[feed] :
                  p.skipVerification \/ answer[feed][i].signer \in p.signers
             /\ p.maxDeviation > 0 => Distance(time, answer[feed][1].timestamp) <= p.maxDeviation
  <2> DEFINE a == answer[feed]
             K == Authorized(p, r[feed])
  <2>1. IsValid(p, r, feed, time) /\ a = Keep(r[feed], K)
    BY <1>1
  <2>2. feed \in DOMAIN r /\ feed \in Feeds /\ r[feed] \in Seq(Package)
    BY <2>1 DEF IsValid, IsResponse
  <2>3. /\ K # {} /\ Cardinality(K) >= p.count
        /\ \A i, j \in K : r[feed][i].timestamp = r[feed][j].timestamp
        /\ p.maxDeviation > 0 => \A i \in K : Distance(time, r[feed][i].timestamp) <= p.maxDeviation
    BY <2>1 DEF IsValid
  <2>4. /\ a \in Seq(Package) /\ a # << >> /\ Len(a) = Cardinality(K)
        /\ \A i \in DOMAIN a : \E j \in K : a[i] = r[feed][j]
        /\ \A j \in K : p.skipVerification \/ r[feed][j].signer \in p.signers
    BY <2>1, <2>2, <2>3, AuthorizedPackages
  <2> HIDE DEF a, K
  <2>5. 1 \in DOMAIN a
    <3>1. DOMAIN a = 1 .. Len(a) /\ Len(a) \in Nat
      BY <2>4, LenProperties
    <3>2. Len(a) # 0
      BY <2>4, EmptySeq
    <3> QED BY <3>1, <3>2
  <2>6. \A i \in DOMAIN a : a[i].timestamp = a[1].timestamp
    BY <2>3, <2>4, <2>5
  <2>7. p.maxDeviation > 0 => Distance(time, a[1].timestamp) <= p.maxDeviation
    BY <2>3, <2>4, <2>5
  <2>8. \A i \in DOMAIN a : p.skipVerification \/ a[i].signer \in p.signers
    BY <2>4
  <2>9. Len(a) >= p.count
    BY <2>3, <2>4
  <2> QED BY <2>2, <2>4, <2>6, <2>7, <2>8, <2>9 DEF a
<1>3. IsResponse(answer)
  BY <1>2 DEF IsResponse
<1>4. ASSUME NEW feed \in DOMAIN answer
      PROVE  /\ Cardinality({answer[feed][i].timestamp : i \in DOMAIN answer[feed]}) = 1
             /\ \A i \in DOMAIN answer[feed] :
                  p.maxDeviation > 0 => time - answer[feed][i].timestamp <= p.maxDeviation
  <2> DEFINE a == answer[feed]
  <2>1. /\ a \in Seq(Package) /\ a # << >>
        /\ \A i \in DOMAIN a : a[i].timestamp = a[1].timestamp
        /\ p.maxDeviation > 0 => Distance(time, a[1].timestamp) <= p.maxDeviation
    BY <1>2
  <2> HIDE DEF a
  <2>2. Cardinality({a[i].timestamp : i \in DOMAIN a}) = 1
    BY <2>1, OneTimestamp
  <2>3. ASSUME NEW i \in DOMAIN a, p.maxDeviation > 0
        PROVE  time - a[i].timestamp <= p.maxDeviation
    <3>1. a[i] \in Package
      BY <2>1, LenProperties, ElementOfSeq
    <3>2. a[i].timestamp \in Nat /\ a[i].timestamp = a[1].timestamp
      BY <2>1, <3>1 DEF Package
    <3>3. p.maxDeviation \in Nat
      BY DEF ParamsType
    <3>4. Distance(time, a[i].timestamp) <= p.maxDeviation
      BY <2>1, <2>3, <3>2
    <3> QED BY <3>2, <3>3, <3>4 DEF Distance
  <2> QED BY <2>2, <2>3 DEF a
<1>5. ~p.all => DOMAIN answer \subseteq p.feeds
  BY <1>1 DEF Requested
<1>6. ~p.ignoreMissing /\ ~p.all => DOMAIN answer = p.feeds
  BY <1>1 DEF Requested, Accepts
<1>7. Conforms(p, answer, time)
  BY <1>2, <1>4, <1>5, <1>6 DEF Conforms
<1> QED BY <1>3, <1>7 DEF answer

\* Without a limit to the age, what a request accepts does not depend on the moment, nor
\* on the parameters that normalizing resets.
LEMMA AcceptsAnytime ==
  ASSUME NEW p \in ParamsType, NEW q \in ParamsType, Normalized(p) = Normalized(q),
         p.maxDeviation = 0, NEW r, NEW t, NEW u, Accepts(q, r, t)
  PROVE  Accepts(p, r, u)
<1>1. /\ p.feeds = q.feeds /\ p.all = q.all /\ p.count = q.count /\ p.signers = q.signers
      /\ p.skipVerification = q.skipVerification /\ p.maxDeviation = q.maxDeviation
      /\ p.ignoreMissing = q.ignoreMissing
  <2> DEFINE np == Normalized(p)
             nq == Normalized(q)
  <2>1. /\ np.feeds = p.feeds /\ np.all = p.all /\ np.count = p.count /\ np.signers = p.signers
        /\ np.skipVerification = p.skipVerification /\ np.maxDeviation = p.maxDeviation
        /\ np.ignoreMissing = p.ignoreMissing
    BY DEF Normalized, ParamsType
  <2>2. /\ nq.feeds = q.feeds /\ nq.all = q.all /\ nq.count = q.count /\ nq.signers = q.signers
        /\ nq.skipVerification = q.skipVerification /\ nq.maxDeviation = q.maxDeviation
        /\ nq.ignoreMissing = q.ignoreMissing
    BY DEF Normalized, ParamsType
  <2> QED BY <2>1, <2>2
<1>2. \A s : Authorized(p, s) = Authorized(q, s)
  BY <1>1 DEF Authorized
<1>3. ~(p.maxDeviation > 0) /\ ~(q.maxDeviation > 0)
  BY <1>1
<1>4. \A feed : IsValid(q, r, feed, t) => IsValid(p, r, feed, u)
  BY <1>1, <1>2, <1>3 DEF IsValid
<1> QED BY <1>1, <1>4 DEF Accepts, Requested

-----------------------------------------------------------------------------
(* The storage and the choice among responses.                              *)

StorageOK(store) ==
  \A t \in DOMAIN store :
    /\ IsResponse(store[t].response) /\ ~IsEmpty(store[t].response)
    /\ store[t].params \in ParamsType

LEMMA StoragePurged ==
  ASSUME NEW store, StorageOK(store), NEW time
  PROVE  StorageOK(Purged(store, time))
BY DEF StorageOK, Purged, Restrict

LEMMA StorageAnswers ==
  ASSUME NEW store, StorageOK(store), NEW p, NEW time
  PROVE  StorageGet(store, p, time) = None \/ IsResponse(StorageGet(store, p, time))
<1> DEFINE keys == EntryKeys(store, p, time)
           entry == store[CHOOSE t \in keys : TRUE]
<1>1. keys \subseteq DOMAIN store
  BY DEF EntryKeys
<1>2. CASE keys = {}
  BY <1>2 DEF StorageGet
<1>3. CASE keys # {}
  <2>1. IsResponse(entry.response)
    BY <1>1, <1>3 DEF StorageOK
  <2>2. StorageGet(store, p, time) = CacheGet(entry, p)
    BY <1>3 DEF StorageGet
  <2> HIDE DEF entry
  <2>3. IsResponse(Restrict(entry.response, p.feeds \cap DOMAIN entry.response))
    BY <2>1 DEF IsResponse, Restrict
  <2> QED BY <2>1, <2>2, <2>3 DEF CacheGet
<1> QED BY <1>2, <1>3

LEMMA StorageKept ==
  ASSUME NEW store, StorageOK(store), NEW r, IsResponse(r), NEW p \in ParamsType
  PROVE  StorageOK(StorageSet(store, r, p))
<1> DEFINE t == TimestampOf(r)
           new == [response |-> r, params |-> Normalized(p)]
<1>1. CASE IsEmpty(r)
  BY <1>1 DEF StorageSet
<1>2. CASE ~IsEmpty(r) /\ t \in DOMAIN store /\ CanExtend(store[t], r, p)
  <2> DEFINE old == store[t]
             e == Extended(old, r, p)
  <2>1. /\ IsResponse(old.response) /\ ~IsEmpty(old.response)
        /\ old.params \in ParamsType
    BY <1>2 DEF StorageOK
  <2>2. StorageSet(store, r, p) = [store EXCEPT ![t] = e]
    BY <1>2 DEF StorageSet
  <2> HIDE DEF old
  <2>3. IsResponse(e.response) /\ ~IsEmpty(e.response)
    <3>1. PICK feed \in DOMAIN r : r[feed] # << >>
      BY <1>2 DEF IsEmpty
    <3>2. feed \in DOMAIN e.response /\ e.response[feed] = r[feed]
      BY DEF Extended
    <3>3. IsResponse(e.response)
      BY <2>1 DEF Extended, IsResponse
    <3> QED BY <3>1, <3>2, <3>3 DEF IsEmpty
  <2>4. e.params \in ParamsType
    BY <2>1 DEF Extended, ParamsType
  <2> HIDE DEF e
  <2> QED BY <2>2, <2>3, <2>4 DEF StorageOK
<1>3. CASE ~IsEmpty(r) /\ ~(t \in DOMAIN store /\ CanExtend(store[t], r, p))
  <2>1. StorageSet(store, r, p)
          = [u \in DOMAIN store \cup {t} |-> IF u = t THEN new ELSE store[u]]
    BY <1>3 DEF StorageSet
  <2>2. Normalized(p) \in ParamsType
    BY DEF Normalized, ParamsType
  <2> HIDE DEF t
  <2> QED BY <1>3, <2>1, <2>2 DEF StorageOK
<1> QED BY <1>1, <1>2, <1>3

\* The timestamp of a response is positive, unless it has no packages.
LEMMA ResponseTime ==
  ASSUME NEW r, IsResponse(r)
  PROVE  /\ TimestampOf(r) \in Nat
         /\ ~IsEmpty(r) => TimestampOf(r) > 0
<1>1. CASE IsEmpty(r)
  BY <1>1 DEF TimestampOf
<1>2. CASE ~IsEmpty(r)
  <2> DEFINE Readable(feed) == feed \in DOMAIN r /\ r[feed] # << >>
             K == {i \in DOMAIN FeedOrder : Readable(FeedOrder[i])}
             IsFirst(i) == /\ Readable(FeedOrder[i])
                           /\ \A j \in 1 .. i - 1 : ~Readable(FeedOrder[j])
             first == CHOOSE i \in DOMAIN FeedOrder : IsFirst(i)
  <2>1. /\ DOMAIN FeedOrder = 1 .. Len(FeedOrder) /\ Len(FeedOrder) \in Nat
        /\ Feeds = {FeedOrder[i] : i \in DOMAIN FeedOrder}
    BY StorageAssumption, LenProperties
  <2>2. K # {} /\ K \in SUBSET (1 .. Len(FeedOrder))
    <3>1. PICK feed \in DOMAIN r : r[feed] # << >>
      BY <1>2 DEF IsEmpty
    <3>2. PICK i \in DOMAIN FeedOrder : feed = FeedOrder[i]
      BY <2>1 DEF IsResponse
    <3> QED BY <2>1, <3>1, <3>2
  <2>3. PICK i \in K : \A j \in K : i <= j
    <3> HIDE DEF K
    <3> QED BY <2>1, <2>2, LeastPosition
  <2>4. i \in DOMAIN FeedOrder /\ IsFirst(i)
    BY <2>1, <2>3
  <2> HIDE DEF IsFirst
  <2>5. first \in DOMAIN FeedOrder /\ IsFirst(first)
    BY <2>4
  <2> HIDE DEF first
  <2>6. FeedOrder[first] \in DOMAIN r /\ r[FeedOrder[first]] # << >>
    BY <2>5 DEF IsFirst
  <2>7. TimestampOf(r) = r[FeedOrder[first]][1].timestamp
    BY <1>2 DEF TimestampOf, first, IsFirst
  <2> DEFINE a == r[FeedOrder[first]]
  <2>8. a \in Seq(Package) /\ a # << >>
    BY <2>6 DEF IsResponse
  <2> HIDE DEF a
  <2>9. a[1] \in Package
    <3>1. Len(a) \in Nat /\ Len(a) # 0
      BY <2>8, LenProperties, EmptySeq
    <3>2. 1 \in 1 .. Len(a)
      BY <3>1
    <3> QED BY <2>8, <3>2, ElementOfSeq
  <2> QED BY <2>7, <2>9 DEF Package, a
<1> QED BY <1>1, <1>2

\* checkResults takes one of the collected responses, if only by its having no packages.
LEMMA NewestCollected ==
  ASSUME NEW S, NEW collected \in Seq(S), \A i \in DOMAIN collected : IsResponse(collected[i])
  PROVE  /\ IsResponse(Newest(collected))
         /\ collected # << >> =>
              \E i \in DOMAIN collected :
                \A p, t : Accepts(p, collected[i], t) => Accepts(p, Newest(collected), t)
<1> DEFINE at(i) == TimestampOf(collected[i])
           newer == {i \in DOMAIN collected :
                       at(i) > 0 /\ \A j \in DOMAIN collected : at(j) <= at(i)}
           first == CHOOSE i \in newer : \A j \in newer : i <= j
<1>1. DOMAIN collected = 1 .. Len(collected) /\ Len(collected) \in Nat
  BY LenProperties
<1>2. \A i \in DOMAIN collected : at(i) \in Nat /\ (~IsEmpty(collected[i]) => at(i) > 0)
  BY ResponseTime
<1>3. Newest(collected) = IF newer = {} THEN NoFeeds ELSE collected[first]
  BY DEF Newest
<1>4. CASE newer # {}
  <2>1. \E i \in newer : \A j \in newer : i <= j
    <3>1. newer \in SUBSET (1 .. Len(collected))
      BY <1>1
    <3> HIDE DEF newer
    <3> QED BY <1>1, <1>4, <3>1, LeastPosition
  <2>2. first \in newer
    <3> HIDE DEF newer
    <3> QED BY <2>1
  <2>3. first \in DOMAIN collected
    BY <2>2
  <2> QED BY <1>3, <1>4, <2>3
<1>5. CASE newer = {}
  <2>1. Newest(collected) = NoFeeds
    BY <1>3, <1>5
  <2>2. IsResponse(NoFeeds) /\ DOMAIN NoFeeds = {}
    BY DEF NoFeeds, IsResponse
  <2>3. ASSUME collected # << >>
        PROVE  \E i \in DOMAIN collected : IsEmpty(collected[i])
    <3> DEFINE D == DOMAIN collected
               v == [i \in D |-> at(i)]
    <3>1. D # {} /\ IsFiniteSet(D) /\ v \in [D -> Nat]
      <4>1. Len(collected) # 0
        BY <2>3, EmptySeq
      <4>2. 1 \in D
        BY <1>1, <4>1
      <4>3. IsFiniteSet(D)
        BY <1>1, FS_Interval
      <4> QED BY <1>2, <4>2, <4>3
    <3>2. PICK d \in D : \A e \in D : v[e] <= v[d]
      <4> HIDE DEF D, v
      <4> QED BY <3>1, GreatestValue
    <3>3. ~(at(d) > 0)
      BY <1>5, <3>2
    <3> QED BY <1>2, <3>3
  <2>4. ASSUME NEW i \in DOMAIN collected, IsEmpty(collected[i]), NEW p, NEW t,
               Accepts(p, collected[i], t)
        PROVE  Accepts(p, NoFeeds, t)
    <3>1. \A feed : ~IsValid(p, collected[i], feed, t)
      BY <2>4 DEF IsValid, IsEmpty, Authorized
    <3> QED BY <2>2, <2>4, <3>1 DEF Accepts, Requested
  <2> QED BY <2>1, <2>2, <2>3, <2>4
<1> QED BY <1>4, <1>5

-----------------------------------------------------------------------------
(* A fetch, also between an event and what checkResults makes of it.        *)

FetchFields ==
  {"params", "callers", "targets", "rest", "pending", "failed", "collected", "timedOut"}

\* Every gateway is asked in this stage or will be in the next, unless it has failed, and
\* the parameters of the fetch accepted what is collected.
FetchOK(f) ==
  /\ DOMAIN f = FetchFields
  /\ f.params \in ParamsType /\ f.callers \in (SUBSET Callers) \ {{}}
  /\ f.targets \in (SUBSET Gateways) \ {{}} /\ f.rest \subseteq Gateways \ f.targets
  /\ f.pending \subseteq f.targets /\ f.timedOut \in BOOLEAN
  /\ f.failed \subseteq Gateways /\ f.failed \cap f.pending = {}
  /\ f.failed \cap f.rest = {} /\ f.targets \cup f.rest \cup f.failed = Gateways
  /\ \E S : f.collected \in Seq(S)
  /\ \A i \in DOMAIN f.collected :
       IsResponse(f.collected[i]) /\ \E t : Accepts(f.params, f.collected[i], t)
  /\ Len(f.collected) + Cardinality(f.failed \cap f.targets) + Cardinality(f.pending)
       = Cardinality(f.targets)

\* A fetch that waits: no answer has been kept once any would do.
FetchWaits(f) == FetchOK(f) /\ f.pending # {} /\ (f.timedOut => f.collected = << >>)

\* Sets of gateways are finite.
LEMMA GatewaySets ==
  ASSUME NEW G \in SUBSET Gateways
  PROVE  IsFiniteSet(G) /\ Cardinality(G) \in Nat /\ (Cardinality(G) = 0 <=> G = {})
BY RequestAssumption, FS_Subset, FS_CardinalityType, FS_EmptySet

LEMMA StageWaits ==
  ASSUME NEW p \in ParamsType, NEW cs \in (SUBSET Callers) \ {{}},
         NEW targets \in (SUBSET Gateways) \ {{}}, NEW rest \in SUBSET (Gateways \ targets),
         NEW failed \in SUBSET Gateways, failed \cap (targets \cup rest) = {},
         targets \cup rest \cup failed = Gateways
  PROVE  /\ FetchWaits(Stage(p, cs, targets, rest, failed))
         /\ Stage(p, cs, targets, rest, failed).callers = cs
<1> DEFINE f == Stage(p, cs, targets, rest, failed)
<1>1. /\ DOMAIN f = FetchFields /\ f.params = p /\ f.callers = cs /\ f.targets = targets
      /\ f.rest = rest /\ f.pending = targets /\ f.failed = failed /\ f.collected = << >>
      /\ f.timedOut = (p.at > 0)
  BY DEF Stage, FetchFields
<1> HIDE DEF f
<1>2. f.timedOut \in BOOLEAN
  BY <1>1
<1>3. Len(f.collected) + Cardinality(f.failed \cap f.targets) + Cardinality(f.pending)
        = Cardinality(f.targets)
  <2>1. failed \cap targets = {} /\ Len(<< >>) = 0
    OBVIOUS
  <2>2. Cardinality(failed \cap targets) = 0 /\ Cardinality(targets) \in Nat
    BY <2>1, GatewaySets, FS_EmptySet
  <2> QED BY <1>1, <2>1, <2>2
<1>4. f.collected \in Seq({}) /\ DOMAIN f.collected = {}
  BY <1>1
<1>5. FetchOK(f)
  BY <1>1, <1>2, <1>3, <1>4 DEF FetchOK
<1> QED BY <1>1, <1>5 DEF FetchWaits, f

\* Once all gateways of a stage have failed, nothing has been collected and none is pending.
LEMMA AllFailedEmpty ==
  ASSUME NEW f, FetchOK(f)
  PROVE  /\ AllFailed(f) => f.pending = {} /\ f.collected = << >>
         /\ f.pending = {} /\ f.collected = << >> => AllFailed(f)
<1>1. PICK S : f.collected \in Seq(S)
  BY DEF FetchOK
<1>2. Len(f.collected) \in Nat /\ (Len(f.collected) = 0 <=> f.collected = << >>)
  BY <1>1, LenProperties, EmptySeq
<1>3. /\ f.pending \in SUBSET Gateways /\ f.targets \in SUBSET Gateways
      /\ f.failed \cap f.targets \in SUBSET f.targets
  BY DEF FetchOK
<1>4. /\ Cardinality(f.pending) \in Nat /\ (Cardinality(f.pending) = 0 <=> f.pending = {})
      /\ Cardinality(f.targets) \in Nat /\ IsFiniteSet(f.targets)
      /\ Cardinality(f.failed \cap f.targets) \in Nat
  BY <1>3, GatewaySets
<1>5. Len(f.collected) + Cardinality(f.failed \cap f.targets) + Cardinality(f.pending)
        = Cardinality(f.targets)
  BY DEF FetchOK
<1>6. ASSUME AllFailed(f) PROVE f.pending = {} /\ f.collected = << >>
  <2>1. f.failed \cap f.targets = f.targets
    BY <1>6 DEF AllFailed
  <2>2. Len(f.collected) + Cardinality(f.targets) + Cardinality(f.pending)
          = Cardinality(f.targets)
    BY <1>5, <2>1
  <2>3. Len(f.collected) = 0 /\ Cardinality(f.pending) = 0
    BY <1>2, <1>4, <2>2
  <2> QED BY <1>2, <1>4, <2>3
<1>7. ASSUME f.pending = {}, f.collected = << >> PROVE AllFailed(f)
  <2>1. Cardinality(f.failed \cap f.targets) = Cardinality(f.targets)
    BY <1>2, <1>4, <1>5, <1>7
  <2>2. f.failed \cap f.targets = f.targets
    BY <1>3, <1>4, <2>1, FS_Subset
  <2> QED BY <2>2 DEF AllFailed
<1> QED BY <1>6, <1>7

\* f becomes g by the failure of a pending gateway, or by its answer.
LEMMA GatewayFailed ==
  ASSUME NEW f, FetchOK(f), NEW gateway \in f.pending
  PROVE  LET g == Failed(f, gateway) IN
           /\ FetchOK(g) /\ g.callers = f.callers /\ g.params = f.params
           /\ AllFailed(g) /\ g.rest = {} =>
                /\ f.collected = << >> /\ Cardinality(f.pending) = 1
                /\ Gateways \ f.failed = f.pending
<1> DEFINE g == Failed(f, gateway)
<1>1. /\ DOMAIN g = FetchFields /\ g.params = f.params /\ g.callers = f.callers
      /\ g.targets = f.targets /\ g.rest = f.rest /\ g.pending = f.pending \ {gateway}
      /\ g.failed = f.failed \cup {gateway} /\ g.collected = f.collected
      /\ g.timedOut = f.timedOut
  BY DEF Failed, FetchOK, FetchFields
<1> HIDE DEF g
<1>2. /\ gateway \in f.targets /\ gateway \in Gateways /\ gateway \notin f.failed
      /\ gateway \notin f.rest
  BY DEF FetchOK
<1>3. Len(g.collected) + Cardinality(g.failed \cap g.targets) + Cardinality(g.pending)
        = Cardinality(g.targets)
  <2> DEFINE F == f.failed \cap f.targets
             P == f.pending \ {gateway}
  <2>1. /\ g.failed \cap g.targets = F \cup {gateway} /\ gateway \notin F
        /\ f.pending = P \cup {gateway} /\ gateway \notin P
        /\ F \in SUBSET Gateways /\ P \in SUBSET Gateways
    BY <1>1, <1>2 DEF FetchOK
  <2> HIDE DEF F, P
  <2>2. /\ Cardinality(F \cup {gateway}) = Cardinality(F) + 1 /\ Cardinality(F) \in Nat
        /\ Cardinality(P \cup {gateway}) = Cardinality(P) + 1 /\ Cardinality(P) \in Nat
    BY <2>1, GatewaySets, FS_AddElement
  <2>3. PICK S : f.collected \in Seq(S)
    BY DEF FetchOK
  <2>4. Len(f.collected) \in Nat /\ Cardinality(f.targets) \in Nat
    BY <2>3, LenProperties, GatewaySets DEF FetchOK
  <2>5. Len(f.collected) + Cardinality(F) + Cardinality(f.pending) = Cardinality(f.targets)
    BY DEF FetchOK, F
  <2>6. g.pending = P
    BY <1>1 DEF P
  <2>7. /\ Cardinality(g.failed \cap g.targets) = Cardinality(F) + 1
        /\ Cardinality(f.pending) = Cardinality(g.pending) + 1
    BY <2>1, <2>2, <2>6
  <2>8. Len(f.collected) + (Cardinality(F) + 1) + Cardinality(P) = Cardinality(f.targets)
    BY <2>2, <2>4, <2>5, <2>6, <2>7
  <2> QED BY <1>1, <2>6, <2>7, <2>8
<1>4. FetchOK(g)
  BY <1>1, <1>2, <1>3 DEF FetchOK
<1>5. ASSUME AllFailed(g), g.rest = {}
      PROVE  /\ f.collected = << >> /\ Cardinality(f.pending) = 1
             /\ Gateways \ f.failed = f.pending
  <2>1. g.pending = {} /\ g.collected = << >>
    BY <1>4, <1>5, AllFailedEmpty
  <2>2. f.pending = {gateway}
    BY <1>1, <2>1
  <2>3. Gateways \ f.failed = {gateway}
    BY <1>1, <1>2, <1>5 DEF AllFailed, FetchOK
  <2>4. Cardinality(f.pending) = 1
    BY <2>2, FS_Singleton
  <2> QED BY <1>1, <2>1, <2>2, <2>3, <2>4
<1> QED BY <1>1, <1>4, <1>5 DEF g

LEMMA GatewayAnswered ==
  ASSUME NEW f, FetchOK(f), NEW gateway \in f.pending, NEW r, IsResponse(r)
  PROVE  LET g == Collected(f, gateway, r) IN
           /\ FetchOK(g) /\ g.callers = f.callers /\ g.params = f.params
           /\ AllFailed(g) /\ g.rest = {} =>
                /\ f.collected = << >> /\ Cardinality(f.pending) = 1
                /\ Gateways \ f.failed = f.pending
<1> DEFINE g == Collected(f, gateway, r)
<1>1. CASE ~Accepts(f.params, r, now)
  <2>1. g = Failed(f, gateway)
    BY <1>1 DEF Collected, Failed
  <2> QED BY <2>1, GatewayFailed
<1>2. CASE Accepts(f.params, r, now)
  <2>1. /\ DOMAIN g = FetchFields /\ g.params = f.params /\ g.callers = f.callers
        /\ g.targets = f.targets /\ g.rest = f.rest /\ g.pending = f.pending \ {gateway}
        /\ g.failed = f.failed /\ g.collected = Append(f.collected, r)
        /\ g.timedOut = f.timedOut
    BY <1>2 DEF Collected, FetchOK, FetchFields
  <2> HIDE DEF g
  <2>2. PICK S : f.collected \in Seq(S)
    BY DEF FetchOK
  <2>3. /\ f.collected \in Seq(S \cup {r}) /\ Len(f.collected) \in Nat
        /\ DOMAIN f.collected = 1 .. Len(f.collected)
    BY <2>2, LenProperties
  <2>4. /\ g.collected \in Seq(S \cup {r}) /\ Len(g.collected) = Len(f.collected) + 1
        /\ \A i \in 1 .. Len(f.collected) : g.collected[i] = f.collected[i]
        /\ g.collected[Len(f.collected) + 1] = r
        /\ DOMAIN g.collected = 1 .. Len(f.collected) + 1
    BY <2>1, <2>3, AppendProperties, LenProperties
  <2>5. \A i \in DOMAIN g.collected :
          IsResponse(g.collected[i]) /\ \E t : Accepts(g.params, g.collected[i], t)
    <3> TAKE i \in DOMAIN g.collected
    <3>1. i \in 1 .. Len(f.collected) \/ i = Len(f.collected) + 1
      BY <2>3, <2>4
    <3>2. CASE i \in 1 .. Len(f.collected)
      BY <2>1, <2>3, <2>4, <3>2 DEF FetchOK
    <3>3. CASE i = Len(f.collected) + 1
      BY <1>2, <2>1, <2>4, <3>3
    <3> QED BY <3>1, <3>2, <3>3
  <2>6. Len(g.collected) + Cardinality(g.failed \cap g.targets) + Cardinality(g.pending)
          = Cardinality(g.targets)
    <3> DEFINE P == f.pending \ {gateway}
    <3>1. f.pending = P \cup {gateway} /\ gateway \notin P /\ P \in SUBSET Gateways
      BY DEF FetchOK
    <3>2. g.pending = P
      BY <2>1
    <3> HIDE DEF P
    <3>3. Cardinality(P \cup {gateway}) = Cardinality(P) + 1 /\ Cardinality(P) \in Nat
      BY <3>1, GatewaySets, FS_AddElement
    <3>4. Cardinality(f.targets) \in Nat /\ Cardinality(f.failed \cap f.targets) \in Nat
      BY GatewaySets DEF FetchOK
    <3>5. Len(f.collected) + Cardinality(f.failed \cap f.targets) + Cardinality(f.pending)
            = Cardinality(f.targets)
      BY DEF FetchOK
    <3>6. Cardinality(f.pending) = Cardinality(P) + 1
      BY <3>1, <3>3
    <3>7. (Len(f.collected) + 1) + Cardinality(f.failed \cap f.targets) + Cardinality(P)
            = Cardinality(f.targets)
      BY <2>3, <3>3, <3>4, <3>5, <3>6
    <3> QED BY <2>1, <2>4, <3>2, <3>7
  <2>7. FetchOK(g)
    BY <2>1, <2>4, <2>5, <2>6 DEF FetchOK
  <2>8. ~AllFailed(g)
    BY <2>3, <2>4, <2>7, AllFailedEmpty, EmptySeq
  <2> QED BY <2>1, <2>7, <2>8 DEF g
<1> QED BY <1>1, <1>2

LEMMA WaitingEnded ==
  ASSUME NEW f, FetchOK(f), f.pending # {}
  PROVE  LET g == [f EXCEPT !.timedOut = TRUE] IN
           /\ FetchOK(g) /\ g.callers = f.callers /\ g.params = f.params
           /\ ~AllFailed(g)
<1> DEFINE g == [f EXCEPT !.timedOut = TRUE]
<1>1. /\ DOMAIN g = FetchFields /\ g.params = f.params /\ g.callers = f.callers
      /\ g.targets = f.targets /\ g.rest = f.rest /\ g.pending = f.pending
      /\ g.failed = f.failed /\ g.collected = f.collected /\ g.timedOut \in BOOLEAN
  BY DEF FetchOK, FetchFields
<1> HIDE DEF g
<1>2. FetchOK(g)
  BY <1>1 DEF FetchOK
<1>3. ~AllFailed(g)
  BY <1>1, <1>2, AllFailedEmpty
<1> QED BY <1>1, <1>2, <1>3 DEF g

-----------------------------------------------------------------------------
(* The invariant, and what a step does to the callers.                      *)

FetchesOK == \A key \in DOMAIN fetch : key \in Keys /\ FetchWaits(fetch[key])

\* A caller waits exactly as long as a fetch, the one of its own key, has it.
CallersOK ==
  /\ DOMAIN caller = Callers
  /\ \A c \in Callers :
       /\ caller[c].status \in Statuses
       /\ caller[c].status # "idle" => caller[c].params \in Requests
       /\ caller[c].status = "answered" => IsResponse(caller[c].answer)
       /\ caller[c].status = "waiting" <=> \E key \in DOMAIN fetch : c \in fetch[key].callers
       /\ \A key \in DOMAIN fetch : c \in fetch[key].callers => Key(caller[c].params) = key

Inv == FetchesOK /\ CallersOK /\ StorageOK(storage) /\ now \in 1 .. MaxTime

NewAnswersConform ==
  \A c \in Callers :
    caller'[c].status = "answered" /\ caller[c].status # "answered" => AnswerConforms(c)

RejectionsUnserved ==
  \A key \in DOMAIN fetch : \A c \in fetch[key].callers :
    /\ caller'[c].status = "rejected"
    /\ Normalized(caller[c].params) = Normalized(fetch[key].params)
    /\ caller[c].params.maxDeviation = 0
    => /\ fetch[key].collected = << >>
       /\ Cardinality(fetch[key].pending) = 1
       /\ Gateways \ fetch[key].failed = fetch[key].pending

LEMMA RequestTypes ==
  ASSUME NEW p \in Requests
  PROVE  /\ p \in ParamsType /\ Key(p) \in Keys
         /\ [p EXCEPT !.stored = FALSE] \in ParamsType
         /\ Key([p EXCEPT !.stored = FALSE]) = Key(p)
<1>1. p \in ParamsType
  BY RequestAssumption
<1>2. [p EXCEPT !.stored = FALSE] \in ParamsType
  BY <1>1 DEF ParamsType
<1>3. Key([p EXCEPT !.stored = FALSE]) = Key(p)
  BY <1>1 DEF Key, ParamsType
<1> QED BY <1>1, <1>2, <1>3 DEF Keys

\* The outcome of a request that has a response.
LEMMA ResultConforms ==
  ASSUME NEW p \in Requests, NEW r, IsResponse(r), now \in Nat
  PROVE  LET x == Result(p, r) IN
           /\ x.params = p /\ x.status \in {"answered", "rejected"}
           /\ x.status = "answered" => IsResponse(x.answer) /\ Conforms(p, x.answer, now)
           /\ x.status = "rejected" => ~Accepts(p, r, now)
<1>1. p \in ParamsType
  BY RequestTypes
<1>2. CASE Accepts(p, r, now)
  BY <1>1, <1>2, SelectedConforms DEF Result
<1>3. CASE ~Accepts(p, r, now)
  BY <1>3 DEF Result
<1> QED BY <1>2, <1>3

\* The callers of a fetch leave it with an outcome each, and the fetch is gone.
LEMMA FetchFinished ==
  ASSUME Inv, NEW key \in DOMAIN fetch, NEW results,
         \A c \in fetch[key].callers :
           /\ results[c].params = caller[c].params /\ results[c].status \in {"answered", "rejected"}
           /\ results[c].status = "answered" =>
                IsResponse(results[c].answer) /\ Conforms(caller[c].params, results[c].answer, now),
         NEW f, f.callers = fetch[key].callers, Finish(key, f, results)
  PROVE  /\ FetchesOK' /\ CallersOK' /\ NewAnswersConform
         /\ \A other \in DOMAIN fetch : \A c \in fetch[other].callers :
              caller'[c].status = "rejected" => other = key /\ results[c].status = "rejected"
<1>1. /\ DOMAIN fetch' = DOMAIN fetch \ {key}
      /\ \A k \in DOMAIN fetch' : fetch'[k] = fetch[k]
  BY DEF Finish, Restrict
<1>2. caller' = [c \in Callers |-> IF c \in fetch[key].callers THEN results[c] ELSE caller[c]]
  BY DEF Finish
<1>3. FetchesOK'
  BY <1>1 DEF Inv, FetchesOK, FetchWaits, FetchOK, AllFailed
<1>4. \A k \in DOMAIN fetch : fetch[k].callers \subseteq Callers
  BY DEF Inv, FetchesOK, FetchWaits, FetchOK
<1>5. \A k \in DOMAIN fetch, c \in Callers : c \in fetch[k].callers =>
        Key(caller[c].params) = k /\ caller[c].status = "waiting"
  BY DEF Inv, CallersOK
<1>6. CallersOK'
  <2> SUFFICES ASSUME NEW c \in Callers
               PROVE  /\ caller'[c].status \in Statuses
                      /\ caller'[c].status # "idle" => caller'[c].params \in Requests
                      /\ caller'[c].status = "answered" => IsResponse(caller'[c].answer)
                      /\ caller'[c].status = "waiting" <=>
                           \E k \in DOMAIN fetch' : c \in fetch'[k].callers
                      /\ \A k \in DOMAIN fetch' :
                           c \in fetch'[k].callers => Key(caller'[c].params) = k
    BY <1>2 DEF CallersOK
  <2>1. CASE c \in fetch[key].callers
    <3>1. caller'[c] = results[c] /\ caller[c].status = "waiting" /\ caller[c].params \in Requests
      BY <1>2, <1>5, <2>1 DEF Inv, CallersOK
    <3>2. \A k \in DOMAIN fetch' : c \notin fetch'[k].callers
      BY <1>1, <1>5, <2>1
    <3> QED BY <2>1, <3>1, <3>2 DEF Statuses
  <2>2. CASE c \notin fetch[key].callers
    <3>1. caller'[c] = caller[c]
      BY <1>2, <2>2
    <3>2. \A k : (k \in DOMAIN fetch' /\ c \in fetch'[k].callers)
                   <=> (k \in DOMAIN fetch /\ c \in fetch[k].callers)
      BY <1>1, <2>2
    <3> QED BY <3>1, <3>2 DEF Inv, CallersOK
  <2> QED BY <2>1, <2>2
<1>7. NewAnswersConform
  <2> SUFFICES ASSUME NEW c \in Callers, caller'[c].status = "answered",
                      caller[c].status # "answered"
               PROVE  AnswerConforms(c)
    BY DEF NewAnswersConform
  <2>1. c \in fetch[key].callers /\ caller'[c] = results[c]
    BY <1>2
  <2>2. Conforms(caller'[c].params, caller'[c].answer, now)
    BY <2>1
  <2> QED BY <2>2, Zenon DEF AnswerConforms, Conforms
<1>8. ASSUME NEW other \in DOMAIN fetch, NEW c \in fetch[other].callers,
             caller'[c].status = "rejected"
      PROVE  other = key /\ results[c].status = "rejected"
  <2>1. c \in Callers /\ Key(caller[c].params) = other /\ caller[c].status = "waiting"
    BY <1>4, <1>5
  <2>2. c \in fetch[key].callers
    BY <1>2, <1>8, <2>1
  <2> QED BY <1>2, <1>5, <1>8, <2>1, <2>2
<1> QED BY <1>3, <1>6, <1>7, <1>8

\* checkResults of a fetch after an event, with what its callers do next.
LEMMA CheckedStep ==
  ASSUME Inv, now' = now, NEW key \in DOMAIN fetch, NEW f, FetchOK(f),
         f.callers = fetch[key].callers, f.params = fetch[key].params,
         AllFailed(f) /\ f.rest = {} =>
           /\ fetch[key].collected = << >> /\ Cardinality(fetch[key].pending) = 1
           /\ Gateways \ fetch[key].failed = fetch[key].pending,
         Resolve(key, f) \/ Retry(key, f) \/ Reject(key, f) \/ KeepWaiting(key, f)
  PROVE  Inv' /\ NewAnswersConform /\ RejectionsUnserved
<1>1. now \in Nat /\ StorageOK(storage)
  BY RequestAssumption DEF Inv
<1>2. \A c \in fetch[key].callers :
        c \in Callers /\ caller[c].params \in Requests /\ caller[c].status = "waiting"
  BY DEF Inv, FetchesOK, FetchWaits, FetchOK, CallersOK
<1>3. CASE Resolve(key, f)
  <2> DEFINE response == Newest(f.collected)
             results == [c \in f.callers |-> Result(caller[c].params, response)]
  <2>1. PICK S : f.collected \in Seq(S)
    BY DEF FetchOK
  <2>2. /\ IsResponse(response)
        /\ f.collected # << >> =>
             \E i \in DOMAIN f.collected :
               \A p, t : Accepts(p, f.collected[i], t) => Accepts(p, response, t)
    <3> HIDE DEF response
    <3>1. \A i \in DOMAIN f.collected : IsResponse(f.collected[i])
      BY DEF FetchOK
    <3> QED BY <2>1, <3>1, NewestCollected DEF response
  <2>3. /\ IsResolved(f) /\ Finish(key, f, results)
        /\ storage' = IF f.params.stored
                      THEN StorageSet(Purged(storage, now), response, f.params) ELSE storage
    BY <1>3 DEF Resolve
  <2> HIDE DEF response
  <2>4. \A c \in fetch[key].callers :
          /\ results[c].params = caller[c].params
          /\ results[c].status \in {"answered", "rejected"}
          /\ results[c].status = "answered" =>
               IsResponse(results[c].answer) /\ Conforms(caller[c].params, results[c].answer, now)
          /\ results[c].status = "rejected" => ~Accepts(caller[c].params, response, now)
    <3> TAKE c \in fetch[key].callers
    <3>1. results[c] = Result(caller[c].params, response) /\ caller[c].params \in Requests
      BY <1>2
    <3> QED BY <1>1, <2>2, <3>1, ResultConforms
  <2> HIDE DEF results
  <2>5. /\ FetchesOK' /\ CallersOK' /\ NewAnswersConform
        /\ \A other \in DOMAIN fetch : \A c \in fetch[other].callers :
             caller'[c].status = "rejected" => other = key /\ results[c].status = "rejected"
    BY <2>3, <2>4, FetchFinished
  <2>6. StorageOK(storage')
    <3>1. StorageOK(Purged(storage, now)) /\ f.params \in ParamsType
      BY <1>1, StoragePurged DEF FetchOK
    <3> QED BY <1>1, <2>2, <2>3, <3>1, StorageKept
  <2>7. RejectionsUnserved
    <3> SUFFICES ASSUME NEW other \in DOMAIN fetch, NEW c \in fetch[other].callers,
                        caller'[c].status = "rejected",
                        Normalized(caller[c].params) = Normalized(fetch[other].params),
                        caller[c].params.maxDeviation = 0
                 PROVE  FALSE
      BY DEF RejectionsUnserved
    <3>1. other = key /\ results[c].status = "rejected"
      BY <2>5
    <3>2. f.collected # << >>
      BY <2>3, AllFailedEmpty DEF IsResolved
    <3>3. PICK i \in DOMAIN f.collected :
            \A p, t : Accepts(p, f.collected[i], t) => Accepts(p, response, t)
      BY <2>2, <3>2
    <3>4. PICK t : Accepts(f.params, f.collected[i], t)
      BY DEF FetchOK
    <3>5. caller[c].params \in ParamsType /\ f.params \in ParamsType
      BY <1>2, <3>1, RequestTypes DEF FetchOK
    <3>6. Accepts(caller[c].params, f.collected[i], now)
      BY <3>1, <3>4, <3>5, AcceptsAnytime
    <3> QED BY <2>4, <3>1, <3>3, <3>6
  <2>8. StorageOK(storage)'
    BY <2>6 DEF StorageOK
  <2> QED BY <2>5, <2>7, <2>8 DEF Inv
<1>4. CASE Reject(key, f)
  <2> DEFINE results ==
        [c \in f.callers |-> [status |-> "rejected", params |-> caller[c].params]]
  <2>1. AllFailed(f) /\ f.rest = {} /\ Finish(key, f, results) /\ UNCHANGED storage
    BY <1>4 DEF Reject
  <2>2. \A c \in fetch[key].callers :
          results[c].params = caller[c].params /\ results[c].status = "rejected"
    OBVIOUS
  <2> HIDE DEF results
  <2>3. /\ FetchesOK' /\ CallersOK' /\ NewAnswersConform
        /\ \A other \in DOMAIN fetch : \A c \in fetch[other].callers :
             caller'[c].status = "rejected" => other = key
    BY <2>1, <2>2, FetchFinished
  <2>4. RejectionsUnserved
    BY <2>1, <2>3 DEF RejectionsUnserved
  <2>5. StorageOK(storage)'
    BY <1>1, <2>1 DEF StorageOK
  <2> QED BY <2>3, <2>4, <2>5 DEF Inv
<1>5. ASSUME NEW g, FetchWaits(g), g.callers = fetch[key].callers,
             fetch' = [fetch EXCEPT ![key] = g], UNCHANGED <<caller, storage>>
      PROVE  Inv' /\ NewAnswersConform /\ RejectionsUnserved
  <2>1. /\ DOMAIN fetch' = DOMAIN fetch /\ fetch'[key] = g
        /\ \A k \in DOMAIN fetch : k # key => fetch'[k] = fetch[k]
    BY <1>5
  <2>2. \A k \in DOMAIN fetch : fetch'[k].callers = fetch[k].callers /\ k \in Keys
    BY <1>5, <2>1 DEF Inv, FetchesOK
  <2>3. FetchesOK'
    <3>1. \A k \in DOMAIN fetch : FetchWaits(fetch'[k])
      BY <1>5, <2>1 DEF Inv, FetchesOK
    <3> QED BY <2>1, <2>2, <3>1 DEF FetchesOK, FetchWaits, FetchOK
  <2>4. CallersOK'
    BY <1>5, <2>1, <2>2 DEF Inv, CallersOK
  <2>5. StorageOK(storage)'
    BY <1>1, <1>5 DEF StorageOK
  <2>6. NewAnswersConform
    BY <1>5 DEF NewAnswersConform
  <2>7. RejectionsUnserved
    <3>1. \A k \in DOMAIN fetch : \A c \in fetch[k].callers : caller[c].status = "waiting"
      BY DEF Inv, FetchesOK, FetchWaits, FetchOK, CallersOK
    <3> QED BY <1>5, <3>1 DEF RejectionsUnserved
  <2> QED BY <2>3, <2>4, <2>5, <2>6, <2>7 DEF Inv
<1>6. CASE Retry(key, f)
  <2> DEFINE g == Stage(f.params, f.callers, f.rest, {}, f.failed)
  <2>1. /\ AllFailed(f) /\ f.rest # {} /\ fetch' = [fetch EXCEPT ![key] = g]
        /\ UNCHANGED <<caller, storage>>
    BY <1>6 DEF Retry
  <2>2. FetchWaits(g) /\ g.callers = f.callers
    <3>1. /\ f.rest \in (SUBSET Gateways) \ {{}} /\ f.failed \in SUBSET Gateways
          /\ f.failed \cap (f.rest \cup {}) = {} /\ f.rest \cup {} \cup f.failed = Gateways
          /\ f.params \in ParamsType /\ f.callers \in (SUBSET Callers) \ {{}}
      BY <2>1 DEF AllFailed, FetchOK
    <3>2. {} \in SUBSET (Gateways \ f.rest)
      OBVIOUS
    <3> QED BY <3>1, <3>2, StageWaits
  <2> HIDE DEF g
  <2> QED BY <1>5, <2>1, <2>2
<1>7. CASE KeepWaiting(key, f)
  <2>1. /\ ~AllFailed(f) /\ ~IsResolved(f) /\ fetch' = [fetch EXCEPT ![key] = f]
        /\ UNCHANGED <<caller, storage>>
    BY <1>7 DEF KeepWaiting
  <2>2. FetchWaits(f)
    BY <2>1 DEF IsResolved, FetchWaits
  <2> QED BY <1>5, <2>1, <2>2
<1> QED BY <1>3, <1>4, <1>6, <1>7

-----------------------------------------------------------------------------
(* The steps.                                                               *)

\* A caller that starts a fetch, or joins the one of its key.
LEMMA CallerJoins ==
  ASSUME Inv, NEW c \in Callers, caller[c].status = "idle", NEW p \in Requests,
         NEW q \in ParamsType, Key(q) = Key(p), Join(c, q),
         caller' = [caller EXCEPT ![c] = Waiting(p)]
  PROVE  FetchesOK' /\ CallersOK' /\ NewAnswersConform /\ RejectionsUnserved
<1> DEFINE key == Key(q)
<1>1. /\ Key(p) \in Keys /\ key = Key(p)
      /\ \A k \in DOMAIN fetch : FetchWaits(fetch[k]) /\ k \in Keys
      /\ \A k \in DOMAIN fetch : c \notin fetch[k].callers
  BY RequestTypes DEF Inv, FetchesOK, CallersOK
<1>2. fetch' = [k \in DOMAIN fetch \cup {key} |->
                  IF k # key THEN fetch[k]
                  ELSE IF k \in DOMAIN fetch THEN [fetch[k] EXCEPT !.callers = @ \cup {c}]
                  ELSE FirstStage(q, c)]
  BY DEF Join
<1> HIDE DEF key
<1>3. /\ DOMAIN fetch' = DOMAIN fetch \cup {key}
      /\ \A k \in DOMAIN fetch : k # key => fetch'[k] = fetch[k]
      /\ key \in DOMAIN fetch => fetch'[key] = [fetch[key] EXCEPT !.callers = @ \cup {c}]
      /\ key \notin DOMAIN fetch => fetch'[key] = FirstStage(q, c)
  BY <1>2
<1>4. ASSUME key \in DOMAIN fetch
      PROVE  FetchWaits(fetch'[key]) /\ fetch'[key].callers = fetch[key].callers \cup {c}
  <2> DEFINE f == fetch[key]
             g == fetch'[key]
  <2>1. FetchWaits(f) /\ g = [f EXCEPT !.callers = @ \cup {c}]
    BY <1>1, <1>3, <1>4
  <2> HIDE DEF f, g
  <2>2. /\ DOMAIN g = FetchFields /\ g.params = f.params /\ g.callers = f.callers \cup {c}
        /\ g.targets = f.targets /\ g.rest = f.rest /\ g.pending = f.pending
        /\ g.failed = f.failed /\ g.collected = f.collected /\ g.timedOut = f.timedOut
    BY <2>1 DEF FetchWaits, FetchOK, FetchFields
  <2>3. g.callers \in (SUBSET Callers) \ {{}}
    BY <2>1, <2>2 DEF FetchWaits, FetchOK
  <2>4. FetchWaits(g)
    BY <2>1, <2>2, <2>3 DEF FetchWaits, FetchOK
  <2> QED BY <2>2, <2>4 DEF f, g
<1>5. FetchWaits(FirstStage(q, c)) /\ FirstStage(q, c).callers = {c}
  <2> DEFINE first == IF q.staged THEN {FirstGateway} ELSE Gateways
             rest == Gateways \ first
  <2>1. /\ first \in (SUBSET Gateways) \ {{}} /\ rest \in SUBSET (Gateways \ first)
        /\ {} \cap (first \cup rest) = {} /\ first \cup rest \cup {} = Gateways
        /\ {c} \in (SUBSET Callers) \ {{}} /\ {} \in SUBSET Gateways
    BY RequestAssumption
  <2>2. FirstStage(q, c) = Stage(q, {c}, first, rest, {})
    BY DEF FirstStage
  <2> HIDE DEF first, rest
  <2> QED BY <2>1, <2>2, StageWaits
<1>6. \A k \in DOMAIN fetch' :
        /\ FetchWaits(fetch'[k]) /\ k \in Keys
        /\ fetch'[k].callers =
             (IF k \in DOMAIN fetch THEN fetch[k].callers ELSE {}) \cup
             (IF k = key THEN {c} ELSE {})
  <2> TAKE k \in DOMAIN fetch'
  <2>1. CASE k # key
    BY <1>1, <1>3, <2>1
  <2>2. CASE k = key /\ key \in DOMAIN fetch
    BY <1>1, <1>4, <2>2
  <2>3. CASE k = key /\ key \notin DOMAIN fetch
    BY <1>1, <1>3, <1>5, <2>3
  <2> QED BY <2>1, <2>2, <2>3
<1>7. FetchesOK'
  BY <1>6 DEF FetchesOK, FetchWaits, FetchOK, AllFailed
<1>8. /\ DOMAIN caller' = Callers
      /\ caller'[c].status = "waiting" /\ caller'[c].params = p
      /\ \A d \in Callers : d # c => caller'[d] = caller[d]
  BY DEF Inv, CallersOK, Waiting
<1>9. CallersOK'
  <2> SUFFICES ASSUME NEW d \in Callers
               PROVE  /\ caller'[d].status \in Statuses
                      /\ caller'[d].status # "idle" => caller'[d].params \in Requests
                      /\ caller'[d].status = "answered" => IsResponse(caller'[d].answer)
                      /\ caller'[d].status = "waiting" <=>
                           \E k \in DOMAIN fetch' : d \in fetch'[k].callers
                      /\ \A k \in DOMAIN fetch' :
                           d \in fetch'[k].callers => Key(caller'[d].params) = k
    BY <1>8 DEF CallersOK
  <2>1. CASE d = c
    <3>1. \A k \in DOMAIN fetch' : c \in fetch'[k].callers <=> k = key
      BY <1>1, <1>6
    <3>2. key \in DOMAIN fetch'
      BY <1>3
    <3> QED BY <1>1, <1>8, <2>1, <3>1, <3>2 DEF Statuses
  <2>2. CASE d # c
    <3>1. \A k : (k \in DOMAIN fetch' /\ d \in fetch'[k].callers)
                   <=> (k \in DOMAIN fetch /\ d \in fetch[k].callers)
      <4> SUFFICES ASSUME NEW k
                   PROVE  (k \in DOMAIN fetch' /\ d \in fetch'[k].callers)
                            <=> (k \in DOMAIN fetch /\ d \in fetch[k].callers)
        OBVIOUS
      <4>1. CASE k \in DOMAIN fetch
        BY <1>3, <1>6, <2>2, <4>1
      <4>2. CASE k \notin DOMAIN fetch
        BY <1>6, <2>2, <4>2
      <4> QED BY <4>1, <4>2
    <3>2. caller'[d] = caller[d]
      BY <1>8, <2>2
    <3> QED BY <3>1, <3>2 DEF Inv, CallersOK
  <2> QED BY <2>1, <2>2
<1>10. NewAnswersConform
  BY <1>8 DEF NewAnswersConform
<1>11. RejectionsUnserved
  <2>1. \A k \in DOMAIN fetch : \A d \in fetch[k].callers :
          d \in Callers /\ caller[d].status = "waiting"
    BY <1>1 DEF Inv, CallersOK, FetchWaits, FetchOK
  <2> QED BY <1>8, <2>1 DEF RejectionsUnserved
<1> QED BY <1>7, <1>9, <1>10, <1>11

LEMMA RequestStep ==
  ASSUME Inv, NEW c \in Callers, Request(c)
  PROVE  Inv' /\ NewAnswersConform /\ RejectionsUnserved
<1>1. /\ caller[c].status = "idle" /\ now' = now
      /\ \E p \in Requests : RequestStored(c, p) \/ RequestFetched(c, p)
  BY DEF Request
<1>2. PICK p \in Requests : RequestStored(c, p) \/ RequestFetched(c, p)
  BY <1>1
<1> DEFINE q == [p EXCEPT !.stored = FALSE]
<1>3. /\ p \in ParamsType /\ q \in ParamsType /\ Key(q) = Key(p)
  BY RequestTypes
<1>4. now \in Nat /\ now \in 1 .. MaxTime /\ StorageOK(storage)
  BY RequestAssumption DEF Inv
<1> HIDE DEF q
<1>5. ASSUME StorageOK(storage'), NEW r \in {p, q}, Join(c, r),
             caller' = [caller EXCEPT ![c] = Waiting(p)]
      PROVE  Inv' /\ NewAnswersConform /\ RejectionsUnserved
  <2>1. FetchesOK' /\ CallersOK' /\ NewAnswersConform /\ RejectionsUnserved
    BY <1>1, <1>3, <1>5, CallerJoins
  <2>2. StorageOK(storage)' /\ (now \in 1 .. MaxTime)'
    BY <1>1, <1>4, <1>5 DEF StorageOK
  <2> QED BY <2>1, <2>2 DEF Inv
<1>6. CASE RequestFetched(c, p)
  BY <1>4, <1>5, <1>6 DEF RequestFetched
<1>7. CASE RequestStored(c, p)
  <2> DEFINE kept == Purged(storage, now)
             cached == StorageGet(kept, p, now)
  <2>1. StorageOK(kept) /\ (cached = None \/ IsResponse(cached))
    BY <1>4, StoragePurged, StorageAnswers
  <2>2. /\ storage' = kept
        /\ \/ /\ cached # None /\ Accepts(p, cached, now)
              /\ caller' = [caller EXCEPT ![c] = Result(p, cached)]
              /\ UNCHANGED fetch
           \/ /\ cached # None /\ ~Accepts(p, cached, now)
              /\ Join(c, q)
              /\ caller' = [caller EXCEPT ![c] = Waiting(p)]
           \/ /\ cached = None
              /\ Join(c, p)
              /\ caller' = [caller EXCEPT ![c] = Waiting(p)]
    BY <1>7 DEF RequestStored, q
  <2> HIDE DEF cached, kept
  <2>3. StorageOK(storage')
    BY <2>1, <2>2
  <2>4. CASE /\ cached # None /\ Accepts(p, cached, now)
             /\ caller' = [caller EXCEPT ![c] = Result(p, cached)]
             /\ UNCHANGED fetch
    <3> DEFINE x == Result(p, cached)
    <3>1. /\ x.params = p /\ x.status = "answered" /\ IsResponse(x.answer)
          /\ Conforms(p, x.answer, now)
      BY <1>4, <2>1, <2>4, ResultConforms
    <3> HIDE DEF x
    <3>2. /\ DOMAIN caller' = Callers /\ caller'[c] = x
          /\ \A d \in Callers : d # c => caller'[d] = caller[d]
      BY <2>4 DEF Inv, CallersOK, x
    <3>3. /\ DOMAIN fetch' = DOMAIN fetch /\ \A k \in DOMAIN fetch : fetch'[k] = fetch[k]
          /\ \A k \in DOMAIN fetch : c \notin fetch[k].callers
      BY <1>1, <2>4 DEF Inv, CallersOK
    <3>4. FetchesOK'
      BY <3>3 DEF Inv, FetchesOK, FetchWaits, FetchOK, AllFailed
    <3>5. CallersOK'
      <4> SUFFICES ASSUME NEW d \in Callers
                   PROVE  /\ caller'[d].status \in Statuses
                          /\ caller'[d].status # "idle" => caller'[d].params \in Requests
                          /\ caller'[d].status = "answered" => IsResponse(caller'[d].answer)
                          /\ caller'[d].status = "waiting" <=>
                               \E k \in DOMAIN fetch' : d \in fetch'[k].callers
                          /\ \A k \in DOMAIN fetch' :
                               d \in fetch'[k].callers => Key(caller'[d].params) = k
        BY <3>2 DEF CallersOK
      <4>1. CASE d = c
        BY <3>1, <3>2, <3>3, <4>1 DEF Statuses
      <4>2. CASE d # c
        BY <3>2, <3>3, <4>2 DEF Inv, CallersOK
      <4> QED BY <4>1, <4>2
    <3>6. NewAnswersConform
      <4> SUFFICES ASSUME NEW d \in Callers, caller'[d].status = "answered",
                          caller[d].status # "answered"
                   PROVE  AnswerConforms(d)
        BY DEF NewAnswersConform
      <4>1. caller'[d] = x
        BY <3>2
      <4>2. Conforms(caller'[d].params, caller'[d].answer, now)
        BY <3>1, <4>1
      <4> QED BY <4>2, Zenon DEF AnswerConforms, Conforms
    <3>7. RejectionsUnserved
      <4>1. \A k \in DOMAIN fetch : \A d \in fetch[k].callers :
              d \in Callers /\ caller[d].status = "waiting"
        BY DEF Inv, FetchesOK, CallersOK, FetchWaits, FetchOK
      <4>2. \A k \in DOMAIN fetch : \A d \in fetch[k].callers : caller'[d].status = "waiting"
        BY <3>2, <3>3, <4>1
      <4> QED BY <4>2 DEF RejectionsUnserved
    <3>8. StorageOK(storage)' /\ (now \in 1 .. MaxTime)'
      BY <1>1, <1>4, <2>3 DEF StorageOK
    <3> QED BY <3>4, <3>5, <3>6, <3>7, <3>8 DEF Inv
  <2> QED BY <1>5, <2>2, <2>3, <2>4
<1> QED BY <1>2, <1>6, <1>7

\* A step of a fetch: an answer, a failure, or the end of waiting for all gateways.
LEMMA FetchStep ==
  ASSUME Inv, NEW key \in Keys,
         GatewayAnswers(key) \/ GatewayFails(key) \/ StopWaitingForAll(key)
  PROVE  Inv' /\ NewAnswersConform /\ RejectionsUnserved
<1> DEFINE f == fetch[key]
<1>1. now' = now /\ key \in DOMAIN fetch
  BY DEF GatewayAnswers, GatewayFails, StopWaitingForAll
<1>2. FetchOK(f) /\ f.pending # {} /\ now \in 1 .. MaxTime
  BY <1>1 DEF Inv, FetchesOK, FetchWaits
<1>3. ASSUME NEW g, FetchOK(g), g.callers = f.callers, g.params = f.params,
             AllFailed(g) /\ g.rest = {} =>
               /\ f.collected = << >> /\ Cardinality(f.pending) = 1
               /\ Gateways \ f.failed = f.pending,
             CheckResults(key, g)
      PROVE  Inv' /\ NewAnswersConform /\ RejectionsUnserved
  <2>1. Resolve(key, g) \/ Retry(key, g) \/ Reject(key, g) \/ KeepWaiting(key, g)
    BY <1>3 DEF CheckResults
  <2> QED BY <1>1, <1>3, <2>1, CheckedStep
<1> HIDE DEF f
<1>4. CASE GatewayAnswers(key)
  <2>1. PICK gateway \in f.pending, r \in Served[key][now] :
          CheckResults(key, Collected(f, gateway, r))
    BY <1>4 DEF GatewayAnswers, f
  <2>2. IsResponse(r)
    BY <1>2, RequestAssumption
  <2> DEFINE g == Collected(f, gateway, r)
  <2>3. /\ FetchOK(g) /\ g.callers = f.callers /\ g.params = f.params
        /\ AllFailed(g) /\ g.rest = {} =>
             /\ f.collected = << >> /\ Cardinality(f.pending) = 1
             /\ Gateways \ f.failed = f.pending
    BY <1>2, <2>2, GatewayAnswered
  <2> HIDE DEF g
  <2>4. CheckResults(key, g)
    BY <2>1 DEF g
  <2> QED BY <1>3, <2>3, <2>4
<1>5. CASE GatewayFails(key)
  <2>1. PICK gateway \in f.pending : CheckResults(key, Failed(f, gateway))
    BY <1>5 DEF GatewayFails, f
  <2> DEFINE g == Failed(f, gateway)
  <2>2. /\ FetchOK(g) /\ g.callers = f.callers /\ g.params = f.params
        /\ AllFailed(g) /\ g.rest = {} =>
             /\ f.collected = << >> /\ Cardinality(f.pending) = 1
             /\ Gateways \ f.failed = f.pending
    BY <1>2, GatewayFailed
  <2> HIDE DEF g
  <2>3. CheckResults(key, g)
    BY <2>1 DEF g
  <2> QED BY <1>3, <2>2, <2>3
<1>6. CASE StopWaitingForAll(key)
  <2> DEFINE g == [f EXCEPT !.timedOut = TRUE]
  <2>1. /\ FetchOK(g) /\ g.callers = f.callers /\ g.params = f.params /\ ~AllFailed(g)
    BY <1>2, WaitingEnded
  <2>2. CheckResults(key, g)
    BY <1>6 DEF StopWaitingForAll, f
  <2> HIDE DEF g
  <2> QED BY <1>3, <2>1, <2>2
<1> QED BY <1>4, <1>5, <1>6

\* Time passes, or nothing happens.
LEMMA OtherStep ==
  ASSUME Inv, UNCHANGED <<caller, fetch, storage>>, now' = now \/ Tick
  PROVE  Inv' /\ NewAnswersConform /\ RejectionsUnserved
<1>1. FetchesOK'
  BY DEF Inv, FetchesOK, FetchWaits, FetchOK, AllFailed
<1>2. CallersOK'
  BY DEF Inv, CallersOK
<1>3. StorageOK(storage)'
  BY DEF Inv, StorageOK
<1>4. now' \in 1 .. MaxTime
  BY RequestAssumption DEF Inv, Tick
<1>5. NewAnswersConform
  BY DEF NewAnswersConform
<1>6. RejectionsUnserved
  <2>1. \A k \in DOMAIN fetch : \A d \in fetch[k].callers :
          d \in Callers /\ caller[d].status = "waiting"
    BY DEF Inv, FetchesOK, CallersOK, FetchWaits, FetchOK
  <2> QED BY <2>1 DEF RejectionsUnserved
<1> QED BY <1>1, <1>2, <1>3, <1>4, <1>5, <1>6 DEF Inv

LEMMA NextStep ==
  ASSUME Inv, [Next]_vars
  PROVE  Inv' /\ NewAnswersConform /\ RejectionsUnserved
<1>1. ASSUME NEW c \in Callers, Request(c)
      PROVE  Inv' /\ NewAnswersConform /\ RejectionsUnserved
  BY <1>1, RequestStep
<1>2. ASSUME NEW key \in Keys,
             GatewayAnswers(key) \/ GatewayFails(key) \/ StopWaitingForAll(key)
      PROVE  Inv' /\ NewAnswersConform /\ RejectionsUnserved
  BY <1>2, FetchStep
<1>3. CASE Tick
  BY <1>3, OtherStep DEF Tick
<1>4. CASE UNCHANGED vars
  BY <1>4, OtherStep DEF vars
<1> QED BY <1>1, <1>2, <1>3, <1>4 DEF Next

LEMMA InitInv == Init => Inv
<1> SUFFICES ASSUME Init PROVE Inv
  OBVIOUS
<1>1. FetchesOK
  BY DEF Init, FetchesOK
<1>2. CallersOK
  BY DEF Init, CallersOK, Statuses
<1>3. StorageOK(storage)
  BY DEF Init, StorageOK
<1>4. now \in 1 .. MaxTime
  BY RequestAssumption DEF Init
<1> QED BY <1>1, <1>2, <1>3, <1>4 DEF Inv

LEMMA Invariant == Spec => []Inv
<1>1. Inv /\ [Next]_vars => Inv'
  BY NextStep
<1> QED BY <1>1, InitInv, PTL DEF Spec

-----------------------------------------------------------------------------

\* Whatever the gateways serve and whenever callers join and leave: a caller waits exactly
\* while a fetch of fetchDataPackagesDedup has it, every such fetch waits for a gateway
\* that can still end it, and the storage holds well-formed responses only.
THEOREM TypeCorrect == Spec => []TypeOK
<1>1. Inv => TypeOK
  <2> SUFFICES ASSUME Inv PROVE TypeOK
    OBVIOUS
  <2>1. \A c \in Callers :
          /\ caller[c].status \in Statuses
          /\ caller[c].status # "idle" => caller[c].params \in Requests
          /\ caller[c].status = "answered" => IsResponse(caller[c].answer)
          /\ caller[c].status = "waiting" <=>
               \E key \in DOMAIN fetch : c \in fetch[key].callers
    BY DEF Inv, CallersOK
  <2>2. \A key \in DOMAIN fetch : key \in Keys /\ IsFetch(fetch[key])
    BY DEF Inv, FetchesOK, FetchWaits, FetchOK, IsFetch
  <2>3. \A t \in DOMAIN storage :
          /\ IsResponse(storage[t].response) /\ ~IsEmpty(storage[t].response)
          /\ storage[t].params \in ParamsType
    BY DEF Inv, StorageOK
  <2> QED BY <2>1, <2>2, <2>3 DEF Inv, TypeOK
<1> QED BY <1>1, Invariant, PTL

\* What requestDataPackages gives a caller conforms to the parameters of that caller, be it
\* from a fetch another caller started or from the storage.
THEOREM ConformingAnswers == Spec => AnswersConform
<1>1. Inv /\ [Next]_vars => [NewAnswersConform]_vars
  BY NextStep
<1> QED BY <1>1, Invariant, PTL DEF Spec, AnswersConform, NewAnswersConform

\* A caller whose own parameters a fetch follows, and that sets no limit to the age, is
\* rejected only with the failure of the last of all gateways, when none has delivered.
THEOREM JustifiedRejections == Spec => RejectedUnserved
<1>1. Inv /\ [Next]_vars => [RejectionsUnserved]_vars
  BY NextStep
<1> QED BY <1>1, Invariant, PTL DEF Spec, RejectedUnserved, RejectionsUnserved
=============================================================================
