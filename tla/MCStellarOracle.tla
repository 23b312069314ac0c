--------------------------- MODULE MCStellarOracle ---------------------------
(***************************************************************************)
(* Two feeds with up to two assets, decimals below, at and above the        *)
(* default, two package timestamps in every second of the ledger, and a     *)
(* history of two entries.  ETH's prices overflow once they are scaled.     *)
(***************************************************************************)
EXTENDS StellarOracle

CONSTANTS BTC, ETH, xlm, usd

MCQuote == [feed \in Feeds |-> [t \in Times |-> IF feed = BTC THEN {t} ELSE {9}]]
=============================================================================
