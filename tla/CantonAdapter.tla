---------------------------- MODULE CantonAdapter ----------------------------
(***************************************************************************)
(* canton-connector/daml: RedStoneAdapter, its price pills and the payload   *)
(* processor of its SDK.  A pill is a contract with one price of one feed,   *)
(* for consumers that do not read the adapter; the adapter links the pills   *)
(* it made, newest first, and archives them some time after they were        *)
(* superseded.  Time on this chain is what the caller claims it is, within a *)
(* window around the ledger's time.                                         *)
(*                                                                         *)
(* The contract ids of adapters, the events and the rewards of the updaters, *)
(* which no guard of a price reads, are left out.                           *)
(***************************************************************************)
EXTENDS ChainPayloads, Subsequences

CONSTANTS
  pill_keep_ms, pill_staleness_ms, ARCHIVE_BATCH_SIZE,
  ClaimedTimes,       \* what callers pass as currentTime, in milliseconds
  CantonPayloads,     \* the payloads among which they do
  MaxOwnerCalls,      \* the bound on the owner's choices
  NotDemoted          \* no demotedTimestamp

VARIABLES
  feedData,           \* feedData[feed]: the PillRecords, newest first
  pills,              \* the active pills
  pillFactory,        \* the adapter has a factory
  ownerCalls          \* how many choices the owner has exercised, for the bound

cantonVars == <<feedData, pills, pillFactory, ownerCalls>>

ASSUME CantonAssumption ==
  /\ pill_keep_ms \in Nat /\ pill_staleness_ms \in Nat
  /\ ClaimedTimes \subseteq Nat /\ NotDemoted \notin Nat
  /\ CantonPayloads \subseteq Payloads /\ MaxOwnerCalls \in Nat /\ ARCHIVE_BATCH_SIZE \in Nat \ {0}

CantonPrice == [value : Nat, packageTimestamp : Nat, writeTimestamp : Nat]

\* linked: pillCid is set; the pill is the one of the feed with this price.
PillRecord ==
  [priceData : CantonPrice, linked : BOOLEAN, demotedTimestamp : Nat \cup {NotDemoted}]

Pill == [feed : Feeds, priceData : CantonPrice]

PillOf(feed, record) == [feed |-> feed, priceData |-> record.priceData]

CantonInit ==
  /\ feedData = [feed \in Feeds |-> << >>]
  /\ pills = {}
  /\ pillFactory \in BOOLEAN
  /\ ownerCalls = 0

-----------------------------------------------------------------------------
(* The processor of the SDK                                                 *)

\* verifyCurrentTimeVsLedger
ClaimSound(now) ==
  /\ Now - config.max_timestamp_delay_ms < now
  /\ now <= Now + config.max_timestamp_ahead_ms

PointSigner(payload, d) == payload[d[1]].signer
PointValue(payload, d) == payload[d[1]].points[d[2]].value

\* The data points that getDataPointsWithSignerIndices leaves, and those that get a
\* place in the matrix.
NonzeroPoints(payload, feed) ==
  {d \in PointsOf(payload, DOMAIN payload, feed) : PointValue(payload, d) # 0}
CountedPoints(payload, feed) ==
  {d \in NonzeroPoints(payload, feed) : PointSigner(payload, d) \in config.signers}

\* verifySignerIndex: the index of a known signer, else an error that shows the package.
SignerIndex(payload, d) ==
  IF PointSigner(payload, d) \in config.signers
  THEN <<"Ok", PointSigner(payload, d)>> ELSE <<"Error", payload[d[1]]>>

\* buildMatrixInput: no two values of the feed under one index.
Unconflicted(payload, feed) ==
  \A d, e \in NonzeroPoints(payload, feed) :
    SignerIndex(payload, d) = SignerIndex(payload, e) =>
      PointValue(payload, d) = PointValue(payload, e)

\* getFeedValues: nobody contradicts himself, and enough signers have a value.
FeedAgreed(payload, feed) ==
  /\ Unconflicted(payload, feed)
  /\ Cardinality({PointSigner(payload, d) : d \in CountedPoints(payload, feed)})
       >= config.signer_count_threshold

\* The median over the signers, one value of each.
CantonValue(payload, feed) ==
  LET D == CountedPoints(payload, feed)
      S == {PointSigner(payload, d) : d \in D}
  IN Median(S, [s \in S |->
       PointValue(payload, CHOOSE d \in D : PointSigner(payload, d) = s)])

\* verifyTimestamps, around the time that the caller claims.
CantonTimely(payload, now) ==
  /\ TimestampsAgree(payload, DOMAIN payload)
  /\ payload[1].timestamp <= now + config.max_timestamp_ahead_ms
  /\ payload[1].timestamp >= now - config.max_timestamp_delay_ms

-----------------------------------------------------------------------------
(* The adapter                                                              *)

\* determineNewValues: the others of the feeds are skipped.
NewValues(feeds, payload, now) ==
  {feed \in feeds :
     /\ FeedAgreed(payload, feed)
     /\ feedData[feed] # << >> =>
          LET newest == Head(feedData[feed]).priceData IN
            /\ newest.packageTimestamp < payload[1].timestamp
            /\ newest.writeTimestamp < now}

\* A PillRecord of createNewRecords.
NewRecord(payload, feed, now, linked) ==
  [priceData |-> [value |-> CantonValue(payload, feed),
                  packageTimestamp |-> payload[1].timestamp, writeTimestamp |-> now],
   linked |-> linked, demotedTimestamp |-> NotDemoted]

Demoted(record, now) ==
  IF record.demotedTimestamp = NotDemoted
  THEN [record EXCEPT !.demotedTimestamp = now] ELSE record

\* Mutant of ShouldArchive: a pill goes as soon as it is superseded.
ShouldArchiveAtOnce(record, now) ==
  record.linked /\ now - record.demotedTimestamp >= 0

\* shouldArchive, of a record that was demoted, now or before.
ShouldArchive(record, now) ==
  record.linked /\ now - record.demotedTimestamp > pill_keep_ms

\* partitionFeedPills: the two newest records stay as they are.
Marked(records, now) ==
  [i \in DOMAIN records |-> IF i <= 2 THEN records[i] ELSE Demoted(records[i], now)]

Remaining(records, now) ==
  LET marked == Marked(records, now) IN
    Keep(marked, {i \in DOMAIN marked :
      i <= 2 \/ (marked[i].linked /\ ~ShouldArchive(marked[i], now))})

ToArchive(feed, records, now) ==
  {PillOf(feed, records[i]) :
     i \in {j \in 3 .. Len(records) : ShouldArchive(Demoted(records[j], now), now)}}

\* newFeedData without a factory: the feed's older records are forgotten.
WrittenWithoutPills(new, payload, now) ==
  /\ feedData' = [feed \in Feeds |->
       IF feed \in new THEN <<NewRecord(payload, feed, now, FALSE)>> ELSE feedData[feed]]
  /\ UNCHANGED pills

\* newFeedData with a factory.  To archive a pill that is gone fails the transaction.
WrittenWithPills(new, payload, now) ==
  LET merged == [feed \in Feeds |->
        IF feed \in new
        THEN <<NewRecord(payload, feed, now, TRUE)>> \o feedData[feed] ELSE feedData[feed]]
      created == {PillOf(feed, merged[feed][1]) : feed \in new}
      toArchive == UNION {ToArchive(feed, merged[feed], now) : feed \in Feeds}
  IN /\ toArchive \subseteq pills
     /\ feedData' = [feed \in Feeds |-> Remaining(merged[feed], now)]
     /\ pills' = (pills \cup created) \ toArchive

\* WritePrices and WritePricesConsuming, by an updater; without a new value the
\* adapter stays as it is.
CantonWritePrices(feeds, payload, now) ==
  /\ ClaimSound(now) /\ CantonTimely(payload, now)
  /\ LET new == NewValues(feeds, payload, now) IN
       /\ new # {}
       /\ IF pillFactory THEN WrittenWithPills(new, payload, now)
          ELSE WrittenWithoutPills(new, payload, now)
  /\ UNCHANGED <<pillFactory, ownerCalls>>

OwnerCalls ==
  /\ ownerCalls < MaxOwnerCalls
  /\ ownerCalls' = ownerCalls + 1

UpdatePillFactory ==
  /\ OwnerCalls
  /\ pillFactory' = ~pillFactory
  /\ UNCHANGED <<feedData, pills>>

UnlinkAllPills ==
  /\ OwnerCalls
  /\ feedData' = [feed \in Feeds |->
       [i \in DOMAIN feedData[feed] |-> [feedData[feed][i] EXCEPT !.linked = FALSE]]]
  /\ UNCHANGED <<pills, pillFactory>>

\* createStalenessFilter(false)
IsStale(pill) == Now - pill.priceData.writeTimestamp > pill_staleness_ms

\* PillCleaner: archiveIteration, by the owner, whatever is linked and however new.
ArchiveStale ==
  LET stale == {pill \in pills : IsStale(pill)} IN
    \E batch \in (SUBSET stale) \ {{}} :
      /\ Cardinality(batch) <= ARCHIVE_BATCH_SIZE
      /\ Cardinality(batch) < ARCHIVE_BATCH_SIZE => batch = stale
      /\ pills' = pills \ batch
      /\ UNCHANGED <<feedData, pillFactory, ownerCalls>>

CantonNext ==
  /\ chain = "canton"
  /\ \/ \E feeds \in (SUBSET Feeds) \ {{}}, payload \in CantonPayloads, now \in ClaimedTimes :
          CantonWritePrices(feeds, payload, now)
     \/ UpdatePillFactory
     \/ UnlinkAllPills
     \/ ArchiveStale

-----------------------------------------------------------------------------
\* What ReadPriceData answers for a feed.
CantonRound(feed) ==
  IF feedData[feed] = << >> THEN [timestamp |-> 0, values |-> [f \in {} |-> 0]]
  ELSE LET newest == Head(feedData[feed]).priceData IN
         [timestamp |-> newest.packageTimestamp, values |-> [f \in {feed} |-> newest.value]]

CantonRounds(feed) == INSTANCE PriceRounds WITH round <- CantonRound(feed)
=============================================================================
