----------------------------- MODULE TxDelivery -----------------------------
(***************************************************************************)
(* multichain-kit/src: one update of a price contract by MultiTxDeliveryMan *)
(* (Stellar, Solana) or by FallbackMultiTxDeliveryMan (Solana with Jito).    *)
(*                                                                         *)
(* The feeds are split into batches; the delivery of a batch makes attempts *)
(* one after another, each cut off by a timeout, which stops the waiting    *)
(* and not the operation: an operation given up goes on sending, and what   *)
(* it sent may execute later.  On Stellar the operations of an update share *)
(* a context, which remembers the hash of the transaction sent last.        *)
(***************************************************************************)
EXTENDS Naturals, FiniteSets

CONSTANTS
  Connectors,
  BatchCount,                   \* BatchCount[connector]: the batches of an update
  MaxParallelTxCount,           \* of each connector's delivery man
  MaxTxSendAttempts,            \* of each connector's configuration
  AlternativeSenderMaxAttempts, \* the attempts of a Jito bundle
  MaxClock,                     \* bounds the payloads' timestamps
  MaxDelay,                     \* the age at which a contract refuses a payload
  NONE

ASSUME DeliveryAssumption ==
  /\ Connectors \subseteq {"stellar", "solana", "jito", "move"}
  /\ BatchCount \in [Connectors -> Nat]
  /\ MaxParallelTxCount \in [Connectors -> Nat \ {0}]
  /\ MaxTxSendAttempts \in [Connectors -> Nat \ {0}]
  /\ AlternativeSenderMaxAttempts \in Nat \ {0}
  /\ \A c \in Connectors : AlternativeSenderMaxAttempts <= MaxTxSendAttempts[c]
  /\ MaxClock \in Nat /\ MaxDelay \in Nat

VARIABLES
  connector,   \* where the update goes
  clock,       \* the newest timestamp data packages have
  delivery,    \* of each batch: where TxDeliveryMan.submit is
  operation,   \* of each batch and attempt: where updater.update is
  tx,          \* the transaction an operation sent, as the chain knows it
  baseTxHash,  \* StellarOperationContext
  price        \* the timestamp of each batch's prices in the contract

deliveryVars == <<connector, clock, delivery, operation, tx, baseTxHash, price>>

Batches == 1 .. BatchCount[connector]
Bundle == 0     \* the delivery of all batches in one Jito bundle
Deliveries == Batches \cup {Bundle}
Attempts == 0 .. MaxTxSendAttempts[connector] - 1
Covered(d) == IF d = Bundle THEN Batches ELSE {d}
MaxAttempts(d) ==
  IF d = Bundle THEN AlternativeSenderMaxAttempts ELSE MaxTxSendAttempts[connector]

Hashes == [batch : Deliveries, attempt : Attempts]
HashOf(d, i) == [batch |-> d, attempt |-> i]

DeliveryTypeOK ==
  /\ connector \in Connectors
  /\ clock \in Nat
  /\ delivery \in [Deliveries -> [state : {"idle", "trying", "ok", "error"},
                                  attempt : Attempts]]
  /\ operation \in [Deliveries -> [Attempts ->
       [state : {"none", "preparing", "sending", "waiting", "ok", "error"},
        timestamp : Nat, waitingHash : Hashes \cup {NONE}]]]
  /\ tx \in [Deliveries -> [Attempts ->
       {"none", "pending", "executed", "stale", "late", "failed"}]]
  /\ baseTxHash \in Hashes \cup {NONE}
  /\ price \in [Batches -> Nat]

DeliveryInit ==
  /\ connector \in Connectors
  /\ clock = 1
  /\ delivery = [d \in Deliveries |-> [state |-> "idle", attempt |-> 0]]
  /\ operation = [d \in Deliveries |-> [i \in Attempts |->
       [state |-> "none", timestamp |-> 0, waitingHash |-> NONE]]]
  /\ tx = [d \in Deliveries |-> [i \in Attempts |-> "none"]]
  /\ baseTxHash = NONE
  /\ price = [b \in Batches |-> 0]

-----------------------------------------------------------------------------
(* TxDeliveryMan and its subclasses                                        *)

Settled(d) == delivery[d].state \in {"ok", "error"}
Chunk(b) == (b - 1) \div MaxParallelTxCount[connector]

\* The deliveries batchPromises starts next: a chunk of batches when the chunks before
\* it have settled.  With Jito the bundle goes first, and the batches only if it fails.
Due ==
  IF connector = "jito" /\ delivery[Bundle].state # "error"
  THEN {d \in {Bundle} : delivery[d].state = "idle"}
  ELSE {d \in Batches : /\ delivery[d].state = "idle"
                        /\ \A e \in Batches : Chunk(e) < Chunk(d) => Settled(e)}

Begin ==
  /\ Due # {}
  /\ delivery' = [d \in Deliveries |->
       IF d \in Due THEN [state |-> "trying", attempt |-> 0] ELSE delivery[d]]
  /\ operation' = [d \in Deliveries |->
       IF d \in Due THEN [operation[d] EXCEPT ![0].state = "preparing"] ELSE operation[d]]
  /\ UNCHANGED <<connector, clock, tx, baseTxHash, price>>

\* findFirstAsyncApply, when attempt i of delivery d did not succeed.
AfterAttempt(d, i) ==
  IF i + 1 < MaxAttempts(d) THEN [state |-> "trying", attempt |-> i + 1]
                            ELSE [state |-> "error", attempt |-> i]

\* The operations ops, with the one of the next attempt called.
WithNext(ops, d, i) ==
  IF i + 1 < MaxAttempts(d) THEN [ops EXCEPT ![d][i + 1].state = "preparing"] ELSE ops

Awaited(d, i) == delivery[d].state = "trying" /\ delivery[d].attempt = i

\* The operation of attempt i returns a result; only if its attempt still waits for it
\* does the delivery go on.
Return(d, i, result) ==
  LET ops == [operation EXCEPT ![d][i].state = result] IN
  CASE ~Awaited(d, i) -> operation' = ops /\ UNCHANGED delivery
    [] Awaited(d, i) /\ result = "ok" ->
         /\ operation' = ops
         /\ delivery' = [delivery EXCEPT ![d].state = "ok"]
    [] OTHER ->
         /\ operation' = WithNext(ops, d, i)
         /\ delivery' = [delivery EXCEPT ![d] = AfterAttempt(d, i)]

\* Mutant of TimedOut: the last attempt waits without a timeout.
TimedOutButLast(d) ==
  /\ delivery[d].state = "trying"
  /\ delivery[d].attempt + 1 < MaxAttempts(d)
  /\ operation' = WithNext(operation, d, delivery[d].attempt)
  /\ delivery' = [delivery EXCEPT ![d] = AfterAttempt(d, delivery[d].attempt)]
  /\ UNCHANGED <<connector, clock, tx, baseTxHash, price>>

\* RedstoneCommon.timeout rejects; the operation itself is not stopped.
TimedOut(d) ==
  /\ delivery[d].state = "trying"
  /\ operation' = WithNext(operation, d, delivery[d].attempt)
  /\ delivery' = [delivery EXCEPT ![d] = AfterAttempt(d, delivery[d].attempt)]
  /\ UNCHANGED <<connector, clock, tx, baseTxHash, price>>

-----------------------------------------------------------------------------
(* The updaters                                                            *)

\* The payload is made: from packages just fetched, or from a cache behind them.
Prepare(d, i) ==
  /\ operation[d][i].state = "preparing"
  /\ \E t \in {clock - 1, clock} \cap Nat :
       operation' = [operation EXCEPT ![d][i].state = "sending", ![d][i].timestamp = t]
  /\ UNCHANGED <<connector, clock, delivery, tx, baseTxHash, price>>

\* The payload cannot be made, or the transaction is not simulated or signed.
FailToPrepare(d, i) ==
  /\ operation[d][i].state = "preparing"
  /\ Return(d, i, "error")
  /\ UNCHANGED <<connector, clock, tx, baseTxHash, price>>

\* A Stellar node takes no second transaction of an account while one is pending.
AccountFree == \A d \in Deliveries, i \in Attempts : tx[d][i] # "pending"
Sendable == connector = "stellar" => AccountFree

WaitFor(d, i, hash) ==
  operation' = [operation EXCEPT ![d][i].state = "waiting", ![d][i].waitingHash = hash]

\* The transaction is accepted; on Stellar its hash becomes the context's.
Send(d, i) ==
  /\ operation[d][i].state = "sending"
  /\ Sendable
  /\ tx' = [tx EXCEPT ![d][i] = "pending"]
  /\ WaitFor(d, i, HashOf(d, i))
  /\ baseTxHash' = IF connector = "stellar" THEN HashOf(d, i) ELSE baseTxHash
  /\ UNCHANGED <<connector, clock, delivery, price>>

\* Mutant of TryAgainLater: the hash of the refused transaction is remembered.
TryAgainLaterRemembered(d, i) ==
  /\ connector = "stellar"
  /\ operation[d][i].state = "sending"
  /\ WaitFor(d, i, IF baseTxHash # NONE THEN baseTxHash ELSE HashOf(d, i))
  /\ baseTxHash' = operation'[d][i].waitingHash
  /\ UNCHANGED <<connector, clock, delivery, tx, price>>

\* TRY_AGAIN_LATER: the operation waits for the transaction of the context, if any.
TryAgainLater(d, i) ==
  /\ connector = "stellar"
  /\ operation[d][i].state = "sending"
  /\ WaitFor(d, i, IF baseTxHash # NONE THEN baseTxHash ELSE HashOf(d, i))
  /\ UNCHANGED <<connector, clock, delivery, tx, baseTxHash, price>>

\* The transaction is refused, or the call fails before or after the chain has it.
FailToSend(d, i) ==
  /\ operation[d][i].state = "sending"
  /\ \/ UNCHANGED tx
     \/ Sendable /\ tx' = [tx EXCEPT ![d][i] = "pending"]
  /\ Return(d, i, "error")
  /\ UNCHANGED <<connector, clock, baseTxHash, price>>

\* Mutant of Skippable: any error of the program is skipped.
SkippableAny(status) == connector # "stellar" /\ status \in {"stale", "late", "failed"}

\* SolanaRustSdkErrroHandler.canSkipError
Skippable(status) == connector # "stellar" /\ status \in {"stale", "late"}

\* The transaction waited for is seen: executed, or failed with an error to be skipped.
Confirm(d, i) ==
  /\ operation[d][i].state = "waiting"
  /\ LET hash == operation[d][i].waitingHash
         status == tx[hash.batch][hash.attempt]
     IN status = "executed" \/ Skippable(status)
  /\ Return(d, i, "ok")
  /\ UNCHANGED <<connector, clock, tx, baseTxHash, price>>

\* It is seen to have failed, or was not seen in the number of retries.
GiveUp(d, i) ==
  /\ operation[d][i].state = "waiting"
  /\ Return(d, i, "error")
  /\ UNCHANGED <<connector, clock, tx, baseTxHash, price>>

-----------------------------------------------------------------------------
(* The chain                                                               *)

Newer(d, t) == \A b \in Covered(d) : price[b] < t
Late(t) == t + MaxDelay < clock

\* A pending transaction executes, in any order, some time or never.  Stellar's
\* contract skips prices that are not newer; Solana's program fails on them; a bundle
\* is dropped as a whole.
Execute(d, i) ==
  /\ tx[d][i] = "pending"
  /\ LET t == operation[d][i].timestamp IN
       \/ /\ ~Late(t) /\ (connector = "stellar" \/ Newer(d, t))
          /\ tx' = [tx EXCEPT ![d][i] = "executed"]
          /\ price' = [b \in Batches |->
               IF b \in Covered(d) /\ price[b] < t THEN t ELSE price[b]]
       \/ /\ d # Bundle
          /\ \/ Late(t) /\ tx' = [tx EXCEPT ![d][i] = "late"]
             \/ connector # "stellar" /\ ~Newer(d, t) /\ tx' = [tx EXCEPT ![d][i] = "stale"]
             \/ tx' = [tx EXCEPT ![d][i] = "failed"]
          /\ UNCHANGED price
  /\ UNCHANGED <<connector, clock, delivery, operation, baseTxHash>>

\* Newer data packages appear.
Advance ==
  /\ clock < MaxClock
  /\ clock' = clock + 1
  /\ UNCHANGED <<connector, delivery, operation, tx, baseTxHash, price>>

DeliveryNext ==
  \/ Begin
  \/ \E d \in Deliveries : TimedOut(d)
  \/ \E d \in Deliveries, i \in Attempts :
       \/ Prepare(d, i) \/ FailToPrepare(d, i)
       \/ Send(d, i) \/ TryAgainLater(d, i) \/ FailToSend(d, i)
       \/ Confirm(d, i) \/ GiveUp(d, i)
       \/ Execute(d, i)
  \/ Advance

-----------------------------------------------------------------------------
\* The context holds no hash but that of a transaction the network took: waiting for
\* it is waiting for something that can happen.
ContextOfSent ==
  baseTxHash # NONE => tx[baseTxHash.batch][baseTxHash.attempt] # "none"

\* Batch d's prices are on chain because of a transaction sent for it: it executed, or
\* was skipped since prices as new were there, or since it came late.
Written(d) ==
  \E i \in Attempts :
    /\ tx[d][i] = "executed" \/ Skippable(tx[d][i])
    /\ \/ tx[d][i] = "late"
       \/ \A b \in Covered(d) : price[b] >= operation[d][i].timestamp

\* A delivery reported as successful has written its own batch.
BatchesWritten ==
  \A d \in Deliveries : delivery[d].state = "ok" => Written(d)

\* The update has its answer: of the bundle, or of its batches' deliveries.
Answered ==
  \/ connector = "jito" /\ delivery[Bundle].state = "ok"
  \/ \A b \in Batches : Settled(b)
=============================================================================
