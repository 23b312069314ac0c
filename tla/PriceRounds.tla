----------------------------- MODULE PriceRounds -----------------------------
(***************************************************************************)
(* What an adapter that keeps one timestamp for all of its feeds promises:  *)
(* a round of prices only gives way to a later round, as a whole, and each  *)
(* price of a round lies among values that honest signers signed for its    *)
(* feed at the round's time or after it.                                   *)
(***************************************************************************)
EXTENDS Integers

CONSTANTS
  Feeds,
  Times,
  Quote       \* Quote[feed][timestamp]: the values honest signers signed

VARIABLE round      \* [timestamp, values]; values holds the feeds of the round

HonestSince(feed, value, timestamp) ==
  \E t, u \in {time \in Times : time >= timestamp} :
    \E lo \in Quote[feed][t], hi \in Quote[feed][u] : lo <= value /\ value <= hi

Empty == [timestamp |-> 0, values |-> [feed \in {} |-> 0]]

Init == round = Empty

Next ==
  /\ round'.timestamp > round.timestamp
  /\ DOMAIN round'.values \subseteq Feeds
  /\ \A feed \in DOMAIN round'.values :
       HonestSince(feed, round'.values[feed], round'.timestamp)

Spec == Init /\ [][Next]_round
=============================================================================
