----------------------- MODULE DataPackagesResponses -----------------------
(***************************************************************************)
(* sdk/src: responses of the gateways, what a request accepts of one, and   *)
(* the storage that keeps them, as functions of their arguments             *)
(* (filter-and-select-data-packages.ts, request-data-packages-common.ts,    *)
(* DataPackagesResponseCache.ts, DataPackagesResponseStorage.ts).           *)
(*                                                                         *)
(* A package is its signer and its timestamp. Values, and which of the      *)
(* accepted packages are closest to their median, are left out, and so are  *)
(* packages of several feeds: a package id is a feed.                       *)
(***************************************************************************)
EXTENDS Subsequences, Functions

CONSTANTS
  Feeds,
  FeedOrder,          \* the order in which gateways list the feeds
  Signers,
  Ttl, LatestTtl,     \* ttlMs and latestTtlMs (0: not given) of the storage
  None

ASSUME StorageAssumption ==
  /\ FeedOrder \in Seq(Feeds) /\ Feeds = {FeedOrder[i] : i \in DOMAIN FeedOrder}
  /\ Ttl \in Nat /\ LatestTtl \in Nat

Package == [signer : Signers, timestamp : Nat \ {0}]

\* parseGwResponse: a feed whose packages cannot be read, or that has none, is a key
\* with the value undefined, here << >>.
IsResponse(r) ==
  /\ DOMAIN r \subseteq Feeds
  /\ \A feed \in DOMAIN r : r[feed] \in Seq(Package)

\* isResponseEmpty
IsEmpty(r) == \A feed \in DOMAIN r : r[feed] = <<>>

NoFeeds == [feed \in {} |-> <<>>]

\* Field all is returnAllPackages (feeds is then empty), at is historicalTimestamp,
\* and 0 in at and maxDeviation is undefined.
ParamsType ==
  [feeds : SUBSET Feeds, all : BOOLEAN, count : Nat \ {0},
   signers : SUBSET Signers, skipVerification : BOOLEAN, maxDeviation : Nat,
   at : Nat, ignoreMissing : BOOLEAN, stored : BOOLEAN, staged : BOOLEAN]

\* getResponseTimestamp: the first package of the first feed with any stands for all.
TimestampOf(r) ==
  LET Readable(feed) == feed \in DOMAIN r /\ r[feed] # <<>>
      first == CHOOSE i \in DOMAIN FeedOrder :
                 /\ Readable(FeedOrder[i])
                 /\ \A j \in 1 .. i - 1 : ~Readable(FeedOrder[j])
  IN IF IsEmpty(r) THEN 0 ELSE r[FeedOrder[first]][1].timestamp

\* The positions of the packages of expected signers.
Authorized(p, packages) ==
  {i \in DOMAIN packages : p.skipVerification \/ packages[i].signer \in p.signers}

Distance(a, b) == IF a > b THEN a - b ELSE b - a

\* validateDataPackagesResponse; time is Date.now().
IsValid(p, r, feed, time) ==
  /\ feed \in DOMAIN r
  /\ LET packages == r[feed]
         kept == Authorized(p, packages)
     IN /\ kept # {}
        /\ Cardinality(kept) >= p.count
        /\ \A i, j \in kept : packages[i].timestamp = packages[j].timestamp
        /\ p.maxDeviation > 0 =>
             \A i \in kept : Distance(time, packages[i].timestamp) <= p.maxDeviation

Requested(p, r) == IF p.all THEN DOMAIN r ELSE p.feeds

\* filterAndSelectDataPackages does not throw.
Accepts(p, r, time) ==
  \A feed \in Requested(p, r) : p.ignoreMissing \/ IsValid(p, r, feed, time)

\* What filterAndSelectDataPackages returns.
Selected(p, r, time) ==
  [feed \in {f \in Requested(p, r) : IsValid(p, r, f, time)} |->
     Keep(r[feed], Authorized(p, r[feed]))]

\* normalizeRequestParams
Normalized(p) == [p EXCEPT !.at = 0, !.stored = FALSE]

\* makeComparableRequestParams, of normalized parameters
Comparable(p) == <<p.signers, p.maxDeviation, p.ignoreMissing, p.all>>

\* areConformingRequestParams
ConformingParams(cached, p) ==
  /\ Comparable(cached) = Comparable(p)
  /\ ~(p.count > cached.count)

IsConforming(entry, p) ==
  /\ ConformingParams(entry.params, p)
  /\ p.ignoreMissing \/ p.feeds \subseteq DOMAIN entry.response

\* DataPackagesResponseCache.get
CacheGet(entry, p) ==
  IF ~IsConforming(entry, p) THEN None
  ELSE IF p.all THEN entry.response
  ELSE Restrict(entry.response, p.feeds \cap DOMAIN entry.response)

\* DataPackagesResponseCache.maybeExtend returns true.
CanExtend(entry, r, p) ==
  /\ ~entry.params.all /\ ~p.all
  /\ ConformingParams(entry.params, p)
  /\ DOMAIN entry.response \cap DOMAIN r = {}

Extended(entry, r, p) ==
  [response |-> [feed \in DOMAIN entry.response \cup DOMAIN r |->
     IF feed \in DOMAIN r THEN r[feed] ELSE entry.response[feed]],
   params |-> [entry.params EXCEPT !.feeds = @ \cup p.feeds]]

\* purgeStale; the storage maps timestamps to caches of responses.
Purged(storage, time) ==
  Restrict(storage, {t \in DOMAIN storage : time <= t + Ttl})

LatestKey(storage) == CHOOSE t \in DOMAIN storage : \A u \in DOMAIN storage : u <= t

\* The timestamps of the entry that a request looks into: one, or none.
EntryKeys(storage, p, time) ==
  IF p.at > 0 THEN {p.at} \cap DOMAIN storage
  ELSE {t \in DOMAIN storage : /\ LatestTtl > 0
                               /\ t = LatestKey(storage)
                               /\ time <= t + LatestTtl}

\* DataPackagesResponseStorage.get, after purgeStale
StorageGet(storage, p, time) ==
  LET keys == EntryKeys(storage, p, time) IN
  IF keys = {} THEN None ELSE CacheGet(storage[CHOOSE t \in keys : TRUE], p)

\* DataPackagesResponseStorage.set, after purgeStale
StorageSet(storage, r, p) ==
  LET t == TimestampOf(r)
      new == [response |-> r, params |-> Normalized(p)]
  IN IF IsEmpty(r) THEN storage
     ELSE IF t \in DOMAIN storage /\ CanExtend(storage[t], r, p)
          THEN [storage EXCEPT ![t] = Extended(@, r, p)]
          ELSE [u \in DOMAIN storage \cup {t} |-> IF u = t THEN new ELSE storage[u]]
=============================================================================
