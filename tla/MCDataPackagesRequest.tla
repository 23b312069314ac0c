----------------------- MODULE MCDataPackagesRequest -----------------------
EXTENDS DataPackagesRequest, TLC

CONSTANTS A, B, s1, s2, s3, g1

MCFeedOrder == <<A, B>>

Ask(feeds, count) ==
  [feeds |-> feeds, all |-> feeds = {}, count |-> count, signers |-> {s1, s2},
   skipVerification |-> FALSE, maxDeviation |-> 0, at |-> 0,
   ignoreMissing |-> FALSE, stored |-> TRUE, staged |-> TRUE]

MCRequests ==
  {Ask({A}, 2), Ask({B}, 1), Ask({A, B}, 2),
   [Ask({A}, 1) EXCEPT !.staged = FALSE, !.stored = FALSE],
   [Ask({A}, 1) EXCEPT !.maxDeviation = 1],
   [Ask({A}, 2) EXCEPT !.at = 1],
   [Ask({}, 1) EXCEPT !.maxDeviation = 1, !.skipVerification = TRUE,
                      !.ignoreMissing = TRUE, !.staged = FALSE]}

Signed(signers, t) == [i \in DOMAIN signers |-> [signer |-> signers[i], timestamp |-> t]]

\* For each feed: packages of both signers, of one, of one and an unknown one, of two
\* moments, or none that can be read.
Deliveries(t) ==
  {A :> Signed(<<s1, s2>>, t) @@ B :> Signed(<<s2>>, t),
   A :> Signed(<<s1, s3>>, t) @@ B :> Signed(<<s1, s2>>, t),
   A :> Signed(<<s1>>, t) \o Signed(<<s2>>, t + 1) @@ B :> <<>>}

\* key[1] = {} asks for all packages.
MCServed ==
  [key \in {Key(p) : p \in MCRequests} |->
    [time \in 1 .. MaxTime |->
      LET feeds == IF key[1] = {} THEN Feeds ELSE key[1]
          times == IF key[2] > 0 THEN {key[2]} ELSE {time, time - 1} \ {0}
      IN {Restrict(r, feeds \cap DOMAIN r) : r \in UNION {Deliveries(t) : t \in times}}]]
=============================================================================
