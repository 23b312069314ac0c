-------------------------- MODULE MCPriceAdapters --------------------------
(***************************************************************************)
(* Two feeds, three honest signers, a faulty one and a stranger.            *)
(***************************************************************************)
EXTENDS PriceAdapters

CONSTANTS a, b, c, bad, stranger, BTC, ETH

MCConfig ==
  [signers |-> {a, b, c, bad}, signer_count_threshold |-> 3,
   max_timestamp_delay_ms |-> 3, max_timestamp_ahead_ms |-> 1,
   min_interval_between_updates_ms |-> 2]

\* BTC's values differ between honest signers, and every time has values of its own.
MCQuote ==
  [feed \in Feeds |-> [t \in Times |->
     IF feed = BTC THEN {10 * t + 1, 10 * t + 2, 10 * t + 3} ELSE {10 * t}]]

Value(signer, feed, t) ==
  IF feed = ETH THEN 10 * t
  ELSE 10 * t + (IF signer = a THEN 1 ELSE IF signer = b THEN 2 ELSE 3)

Of(feed, value) == [feed |-> feed, value |-> value]
Pack(signer, t, points) == [signer |-> signer, timestamp |-> t, points |-> points]
Of1(signer, feed, t) == Pack(signer, t, <<Of(feed, Value(signer, feed, t))>>)
Of2(signer, t) ==
  Pack(signer, t, <<Of(BTC, Value(signer, BTC, t)), Of(ETH, Value(signer, ETH, t))>>)

\* What gateways deliver: all feeds in a package or one feed in each, of one time or of
\* several, complete or not, with a stranger's package, or with a faulty node's value, once
\* or as often as it takes to be the median of all values.
PayloadsAt(t) ==
  LET u == IF t + 1 \in Times THEN t + 1 ELSE t
  IN {<<Of2(a, t), Of2(b, t), Of2(c, t)>>,
      <<Of2(a, u), Of2(b, t), Of2(c, u)>>,
      <<Of2(a, t), Of2(b, t), Of1(c, BTC, t), Of1(c, ETH, t)>>,
      <<Of1(a, BTC, u), Of1(b, BTC, u), Of1(c, BTC, u), Of1(stranger, BTC, t)>>,
      <<Of1(a, BTC, t), Of1(b, BTC, u), Of1(c, BTC, t), Of1(a, BTC, u)>>,
      <<Of1(a, ETH, t), Of1(b, ETH, t), Of1(c, ETH, t),
        Of1(a, BTC, t), Of1(b, BTC, u), Of1(c, BTC, u)>>,
      <<Of1(a, BTC, t), Pack(bad, t, <<Of(BTC, 999), Of(BTC, 999), Of(BTC, 999)>>),
        Of1(c, BTC, t)>>,
      <<Of1(a, BTC, t), Of1(b, BTC, t), Of1(c, BTC, t), Pack(bad, u, <<Of(BTC, 999)>>)>>}

\* On Canton, where the order of the writes and the claimed times matter most: complete
\* payloads, one in which BTC has the faulty node's value, one in which that node
\* contradicts itself, one in which a stranger does, and one of two times, which is refused.
MCCantonPayloads ==
  {<<Of2(a, t), Of2(b, t), Of2(c, t)>> : t \in Times \ {1, 2}} \cup
  {<<Of1(a, BTC, 2), Pack(bad, 2, <<Of(BTC, 1)>>), Of1(c, BTC, 2)>>,
   <<Of2(a, 4), Of2(b, 4), Of2(c, 4),
     Pack(bad, 4, <<Of(BTC, 999)>>), Pack(bad, 4, <<Of(BTC, 1)>>)>>,
   <<Of2(a, 5), Of2(b, 5), Of2(c, 5), Pack(stranger, 5, <<Of(BTC, 1), Of(BTC, 2)>>)>>,
   <<Of2(a, 4), Of2(b, 3), Of2(c, 4)>>}

MCPayloads == UNION {PayloadsAt(t) : t \in Times} \cup MCCantonPayloads
=============================================================================
