----------------------------- MODULE Deliveries -----------------------------
(***************************************************************************)
(* One process of a relayer that delivers prices to one kind of chain: an   *)
(* update by the delivery men of multichain-kit, or calls of Move's own.     *)
(***************************************************************************)
EXTENDS TxDelivery, MoveDelivery

vars == <<deliveryVars, moveVars>>

\* Types; and nothing is waited for that cannot happen: the context names transactions
\* the network took, and Move's manager no number the account has not reached.
TypeOK ==
  /\ DeliveryTypeOK /\ ContextOfSent
  /\ MoveTypeOK /\ SequenceNumberReached

\* With the connector "move" there is no update to deliver in batches.
OnMove == connector = "move"

Init == DeliveryInit /\ MoveInit

Next ==
  \/ ~OnMove /\ DeliveryNext /\ UNCHANGED moveVars
  \/ OnMove /\ MoveNext /\ UNCHANGED deliveryVars

\* The program goes on and its timers fire.  No operation of an update need ever end;
\* the calls of Move's client do, with an error if need be.
Fairness ==
  /\ WF_vars(~OnMove /\ Begin /\ UNCHANGED moveVars)
  /\ \A d \in UNION {0 .. BatchCount[c] : c \in Connectors} :
       WF_vars(~OnMove /\ d \in Deliveries /\ TimedOut(d) /\ UNCHANGED moveVars)
  /\ \A c \in Callers : WF_vars(OnMove /\ CallerStep(c) /\ UNCHANGED deliveryVars)
  /\ WF_vars(OnMove /\ SettleOther /\ UNCHANGED deliveryVars)

Spec == Init /\ [][Next]_vars /\ Fairness

-----------------------------------------------------------------------------
\* What is reported as delivered is on chain, by a transaction of its own: of a batch
\* of an update, though its answer may come from any attempt and operations given up
\* go on beside it; of a call to Move's manager, whatever calls took turns in the queue.
DeliveredMeansWritten == BatchesWritten /\ ResolvedMeansCommitted

\* Every update is answered, though the operations of its attempts may hang for ever;
\* every call to Move's manager settles, unless a call for the same data, which may be
\* the retry of an older one, took its place in the queue.
EveryCallerAnswered ==
  /\ ~OnMove ~> (OnMove \/ Answered)
  /\ EveryCallAnswered
=============================================================================
