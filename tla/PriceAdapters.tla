---------------------------- MODULE PriceAdapters ----------------------------
(***************************************************************************)
(* One price adapter on one of the chains, from its deployment on.          *)
(***************************************************************************)
EXTENDS FeedAdapters, RoundAdapters, CantonAdapter

CONSTANTS Chains, MaxClock

vars == <<chain, clock, prices, repeated, roundVars, tonVars, cantonVars>>

\* Types, and no price outlives the round that wrote it: feed_ids are the feeds that
\* have one.
TypeOK ==
  /\ chain \in Chains /\ clock \in Nat
  /\ prices \in [Feeds -> PriceData \cup {NoPrice}] /\ repeated \subseteq Feeds
  /\ values \in [Feeds -> Nat] /\ feed_ids = {feed \in Feeds : values[feed] # NO_VALUE}
  /\ timestamp \in Nat /\ round_number \in Nat /\ last_update \in Nat \cup {NEVER}
  /\ feeds \in [Feeds -> [price : Nat, timestamp : Nat]]
  /\ requests \in [Feeds -> 0 .. MaxMessages]
  /\ answers \in [Feeds -> Seq([price : Nat, timestamp : Nat])]
  /\ feedData \in [Feeds -> Seq(PillRecord)] /\ pills \subseteq Pill /\ pillFactory \in BOOLEAN
  /\ ownerCalls \in 0 .. MaxOwnerCalls

Init ==
  /\ chain \in Chains
  /\ clock = 1
  /\ FeedAdapterInit
  /\ RoundAdapterInit
  /\ CantonInit

Tick ==
  /\ clock < MaxClock
  /\ clock' = clock + 1
  /\ UNCHANGED <<chain, prices, repeated, roundVars, tonVars, cantonVars>>

Next ==
  \/ FeedAdapterNext /\ UNCHANGED <<chain, clock, roundVars, tonVars, cantonVars>>
  \/ RoundAdapterNext /\ UNCHANGED <<chain, clock, prices, repeated, cantonVars>>
  \/ CantonNext /\ UNCHANGED <<chain, clock, prices, repeated, roundVars, tonVars>>
  \/ Tick

Spec == Init /\ [][Next]_vars

-----------------------------------------------------------------------------
\* The adapters on Radix, Solana, Stylus and Aptos implement PriceFeeds: each with its
\* own verification, own unit of time and own idea of a feed that was never written.  On
\* Aptos a faulty signer can repeat a feed in a package and so outvote the others: such
\* a price is later than the one it replaces like any other, but nothing is claimed of
\* its value (repeated; AptosValue with payload.move:201-217).
ImplementsPriceFeeds == PF!Spec

\* A step of the rounds that each feed's contract on TON and record on Canton are.
EachFeedLater ==
  \A feed \in Feeds : /\ [FeedRounds(feed)!Next]_(FeedRound(feed))
                       /\ [CantonRounds(feed)!Next]_(CantonRound(feed))

\* The adapters on Casper, Fuel, Starknet and TON implement PriceRounds: no price of
\* an older round shows under the timestamp of a newer one, and no round is undone,
\* though packages of different times make up a round and feeds come and go.  A feed's
\* contract on TON and a feed of the adapter on Canton are rounds of their own: what
\* they answer never goes back, however the fetches of the readers overlap with each
\* other and with the manager's rounds, and whatever time the updaters claim.
ImplementsPriceRounds ==
  /\ Rounds!Spec
  /\ [][EachFeedLater]_<<feeds, feedData>>

\* On Canton a write archives only pills that two newer prices of their feed superseded
\* before it, however factories come and go, pills are unlinked and the times of the
\* updaters jump.  Between the writes pills go because they are stale and for no other
\* reason, and a pill that the adapter links to is there unless it is stale.  So a write,
\* which fails over a linked pill that is gone, does so only after the owner's script
\* archived that pill as a stale one.
PillsKept ==
  /\ [][\A pill \in pills \ pills' :
          \/ feedData' = feedData /\ IsStale(pill)
          \/ \E i \in 3 .. Len(feedData[pill.feed]) :
               pill = PillOf(pill.feed, feedData[pill.feed][i])]_vars
  /\ [](\A feed \in Feeds : \A i \in DOMAIN feedData[feed] :
          feedData[feed][i].linked =>
            LET pill == PillOf(feed, feedData[feed][i]) IN pill \in pills \/ IsStale(pill))

\* canton-connector/daml/adapter/README.md:287: "The adapter always keeps the 2 newest pills
\* per feed regardless of age".  Those of its two newest records that it links to are on
\* the ledger.
NewestPillsKept ==
  \A feed \in Feeds : \A i \in DOMAIN feedData[feed] :
    i <= 2 /\ feedData[feed][i].linked => PillOf(feed, feedData[feed][i]) \in pills
=============================================================================
