-------------------------- MODULE MCSuiPriceAdapter --------------------------
(***************************************************************************)
(* Three honest signers, a faulty one and a stranger to every config, and   *)
(* payloads chosen to strain each check of the contract.                   *)
(***************************************************************************)
EXTENDS SuiPriceAdapter

CONSTANTS a, b, c, bad, stranger, BTC, ETH, relayer, anyone

MCConfigs ==
  LET Config(signers, threshold, delay, ahead, trusted, interval) ==
        [signers |-> signers, signer_count_threshold |-> threshold,
         max_timestamp_delay_ms |-> delay, max_timestamp_ahead_ms |-> ahead,
         trusted_updaters |-> trusted, min_interval_between_updates_ms |-> interval]
  IN {Config({a, b, c, bad}, 3, 1, 1, {relayer}, 1),
      Config({a, b, bad}, 3, 2, 0, {}, 0),
      Config({a, b, c}, 1, 0, 2, {}, 2),
      Config({a, b, c, bad}, 3, U64, 0, {}, 0),       \* its sums overflow
      Config({a, b}, 3, 1, 1, {}, 0)}                 \* CheckConfig refuses it

MCQuote ==
  [feed \in Feeds |-> [t \in Times |->
     IF t = 0 THEN {} ELSE IF feed = BTC THEN {3, 4, 5} ELSE {2}]]

\* Of the first version's objects one is empty and one has a price, ahead of the clock.
MCTables ==
  LET None == [feed \in Feeds |-> NoPrice]
  IN {None, [None EXCEPT ![BTC] = [value |-> 4, timestamp |-> 1, write_timestamp |-> 0]]}

Of(feed, value) == [feed |-> feed, value |-> value]
By(signer, t, points) == [signer |-> signer, timestamp |-> t, points |-> points]

PayloadsAt(t) ==
  LET A == By(a, t, <<Of(BTC, 3)>>)
      B == By(b, t, <<Of(BTC, 4)>>)
      C == By(c, t, <<Of(BTC, 5)>>)
      Both(s, v, w) == By(s, t, <<Of(ETH, w), Of(BTC, v)>>)
      Bads == {By(bad, t, points) : points \in
                 {<<Of(BTC, 1)>>, <<Of(BTC, 7)>>, <<Of(BTC, 0)>>, <<Of(BTC, 8)>>,
                  <<Of(BTC, 7), Of(BTC, 7), Of(BTC, 7)>>,
                  <<Of(ETH, 0), Of(BTC, 4)>>, <<Of(ETH, 7), Of(ETH, 7)>>}}
  IN {<<A, B, x>> : x \in Bads} \cup {<<x, A, C>> : x \in Bads}
     \cup {<<A, B, C, x>> : x \in Bads} \cup {<<x, x, A>> : x \in Bads}
     \cup {<<A, B, C>>, <<C>>, <<A, B, By(stranger, t, <<Of(BTC, 7)>>)>>,
           <<Both(a, 3, 2), Both(b, 4, 2), Both(c, 5, 2)>>,
           <<Both(a, 3, 2), B, C>>,
           <<By(a, t, <<Of(BTC, 0)>>), B, By(bad, t, <<Of(BTC, 7)>>)>>,
           <<Both(a, 3, 0), B, C, By(bad, t, <<Of(BTC, 7)>>)>>,
           <<Both(a, 3, 0), B, C>>}
     \cup {<<A, By(b, t + 1, <<Of(BTC, 4)>>), C>>}

MCPayloads ==
  LET zeroTime == By(bad, 0, <<Of(BTC, 7)>>) IN
    UNION {PayloadsAt(t) : t \in 1 .. MaxTime}
    \cup {<< >>, <<zeroTime>>, <<zeroTime, zeroTime, zeroTime>>}
=============================================================================
