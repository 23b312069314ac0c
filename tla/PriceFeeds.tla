----------------------------- MODULE PriceFeeds -----------------------------
(***************************************************************************)
(* What an on-chain price adapter promises the readers of its feeds,       *)
(* whatever the chain: a published price only ever gives way to a later one *)
(* (by package and by write time), and the price of a feed that is vouched   *)
(* for lies among the values that honest signers signed for it and its      *)
(* timestamp.  On all chains but Aptos that is every feed at any time.      *)
(***************************************************************************)
EXTENDS Integers

CONSTANTS
  Feeds,
  Quote,      \* Quote[feed][timestamp]: the values honest signers signed
  NoPrice

VARIABLES
  prices, clock,
  vouched     \* the feeds whose prices are honest

\* A value that honest values lie on both sides of.
Honest(feed, price) ==
  \E lo, hi \in Quote[feed][price.timestamp] : lo <= price.value /\ price.value <= hi

Later(old, new) ==
  \/ old = NoPrice
  \/ old.timestamp < new.timestamp /\ old.write_timestamp < new.write_timestamp

\* A contract may start with the prices that its predecessor left in the storage.
Init ==
  /\ clock \in Nat
  /\ DOMAIN prices = Feeds
  /\ \A feed \in Feeds : prices[feed] # NoPrice =>
       /\ feed \in vouched => Honest(feed, prices[feed])
       /\ prices[feed].write_timestamp <= clock

Published(feed, price) ==
  /\ price # NoPrice
  /\ feed \in vouched' => Honest(feed, price)
  /\ Later(prices[feed], price)
  /\ price.write_timestamp = clock

\* A price that stays is not vouched for later on.
Kept(feed) == prices'[feed] = prices[feed] /\ (feed \in vouched' => feed \in vouched)

\* Any number of feeds are published in one transaction; time passes between them.
Next ==
  \/ /\ \A feed \in Feeds : Kept(feed) \/ Published(feed, prices'[feed])
     /\ UNCHANGED clock
  \/ clock' > clock /\ UNCHANGED <<prices, vouched>>

Spec == Init /\ [][Next]_<<prices, clock, vouched>>
=============================================================================
