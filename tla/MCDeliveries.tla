---------------------------- MODULE MCDeliveries ----------------------------
(***************************************************************************)
(* Two attempts on Stellar and on Solana, and a bundle of two feeds with its *)
(* fallback; on Move two calls for the same data.                           *)
(***************************************************************************)
EXTENDS Deliveries

CONSTANTS p, q

MCConnectors == {"stellar", "solana", "jito", "move"}

MCBatchCount == [c \in Connectors |-> IF c = "jito" THEN 2 ELSE IF c = "move" THEN 0 ELSE 1]

\* An update of Stellar that takes two transactions.
MCTwoBatches == [c \in Connectors |-> 2]

MCMaxParallelTxCount == [c \in Connectors |-> IF c = "stellar" THEN 1 ELSE 100]

MCMaxTxSendAttempts == [c \in Connectors |-> IF c = "jito" THEN 1 ELSE 2]

MCIdentifier == [c \in Callers |-> "BTC"]
=============================================================================
