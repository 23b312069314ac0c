---------------------------- MODULE MoveDelivery ----------------------------
(***************************************************************************)
(* move-connector/src/MoveTxDeliveryMan.ts: concurrent calls of             *)
(* sendTransaction on one manager, whose iterations run one at a time on    *)
(* the OperationQueue of the account, which other managers share.           *)
(*                                                                         *)
(* A call enqueues its first iteration, and each further one after the last *)
(* has failed.  Calls for the same data have the same identifier: while one *)
(* runs another is refused, and one that waits is replaced by the next to   *)
(* come, a retry of an older call included.                                 *)
(***************************************************************************)
EXTENDS Naturals, Sequences

CONSTANTS
  Callers,              \* the calls of sendTransaction
  Identifier,           \* data.identifier of each
  MoveTxSendAttempts,   \* config.maxTxSendAttempts
  MaxSequenceNumber,    \* bounds what the account may have sent
  Other, OtherIdentifier, \* the operations of other managers of the account
  NoCaller

Iterations == 0 .. MoveTxSendAttempts - 1

ASSUME MoveAssumption ==
  /\ MoveTxSendAttempts \in Nat \ {0}
  /\ MaxSequenceNumber \in Nat \ {0}
  /\ NoCaller \notin Callers \cup {Other} /\ Other \notin Callers

VARIABLES
  caller,          \* of each call: where it is and what its promise or error told
  sequenceNumber,  \* this.sequenceNumber, 0 before it is known
  accountNext,     \* the number the chain accepts next from the account
  sent,            \* of each call and iteration: the transaction, as the chain knows it
  queue, isProcessing, activeOperations, awaited, latest

queueVars == <<queue, isProcessing, activeOperations, awaited, latest>>
moveVars == <<caller, sequenceNumber, accountNext, sent, queueVars>>

Identifiers == {Identifier[c] : c \in Callers} \cup {OtherIdentifier}
SameId(oldId, newId, strict) == oldId = newId

Q == INSTANCE OperationQueue WITH
       Ids <- Identifiers, Operations <- Callers \cup {Other}, NoOperation <- NoCaller,
       Conforms <- SameId, Purging <- FALSE

CallerStates ==
  {"idle", "refreshing", "enqueueing", "queued", "running", "sending", "waiting",
   "failed", "tooOld", "superseded", "ok", "error"}

\* number: what the iteration sends with, 0 for none; failInfo: the number of the
\* transaction an error tells of, or 0.
MoveTypeOK ==
  /\ caller \in [Callers -> [state : CallerStates, iteration : Iterations,
                             number : Nat, failInfo : Nat]]
  /\ sequenceNumber \in Nat /\ accountNext \in Nat \ {0}
  /\ sent \in [Callers -> [Iterations ->
       [state : {"none", "pending", "committed", "aborted"}, number : Nat]]]
  /\ Q!TypeOK

MoveInit ==
  /\ caller = [c \in Callers |->
       [state |-> "idle", iteration |-> 0, number |-> 0, failInfo |-> 0]]
  /\ sequenceNumber = 0
  /\ accountNext = 1
  /\ sent = [c \in Callers |-> [i \in Iterations |-> [state |-> "none", number |-> 0]]]
  /\ Q!Init

At(c, state) == caller[c].state = state
To(c, state) == caller' = [caller EXCEPT ![c].state = state]
Outcome(c, state, failInfo) ==
  [state |-> state, iteration |-> caller[c].iteration, number |-> 0, failInfo |-> failInfo]
Tx(c) == sent[c][caller[c].iteration]

-----------------------------------------------------------------------------
(* sendTransaction                                                         *)

Call(c) ==
  /\ At(c, "idle")
  /\ To(c, IF sequenceNumber = 0 THEN "refreshing" ELSE "enqueueing")
  /\ UNCHANGED <<sequenceNumber, accountNext, sent, queueVars>>

\* The call after an iteration that failed: the loop's next turn, or its end.
AfterIteration(c) ==
  IF caller[c].iteration + 1 < MoveTxSendAttempts
  THEN [state |-> "enqueueing", iteration |-> caller[c].iteration + 1,
        number |-> 0, failInfo |-> 0]
  ELSE Outcome(c, "error", 0)

\* Mutant of SetNextSequenceNumber: the number after the next.
SetNextSequenceNumberTwice(n) == sequenceNumber' = n + 2

SetNextSequenceNumber(n) == sequenceNumber' = n + 1

\* refreshSequenceNumber: a node, which may lag behind, tells the account's number.
Refresh(c) ==
  /\ At(c, "refreshing") \/ At(c, "tooOld")
  /\ sequenceNumber' \in 1 .. accountNext
  /\ caller' = [caller EXCEPT ![c] =
       IF At(c, "tooOld") THEN AfterIteration(c) ELSE [@ EXCEPT !.state = "enqueueing"]]
  /\ UNCHANGED <<accountNext, sent, queueVars>>

\* The error of a refresh is not caught: the call is rejected.
FailToRefresh(c) ==
  /\ At(c, "refreshing") \/ At(c, "tooOld")
  /\ To(c, "error")
  /\ UNCHANGED <<sequenceNumber, accountNext, sent, queueVars>>

\* processTransactionError, but for the error that makes it refresh.
ProcessTransactionError(c) ==
  /\ At(c, "failed")
  /\ IF caller[c].failInfo # 0 THEN SetNextSequenceNumber(caller[c].failInfo)
                               ELSE UNCHANGED sequenceNumber
  /\ caller' = [caller EXCEPT ![c] = AfterIteration(c)]
  /\ UNCHANGED <<accountNext, sent, queueVars>>

-----------------------------------------------------------------------------
(* performIteration                                                        *)

\* The calls, after the queue has shifted an entry: its operation runs.
Running(calls) ==
  [c \in Callers |->
     IF calls[c].state = "queued" /\ \E e \in awaited' : e.operation = c
     THEN [calls[c] EXCEPT !.state = "running"] ELSE calls[c]]

\* enqueue appends an entry.
Enqueue(c) ==
  /\ At(c, "enqueueing")
  /\ Q!Push(Identifier[c], c, FALSE)
  /\ caller' = Running([caller EXCEPT ![c].state = "queued"])
  /\ UNCHANGED <<sequenceNumber, accountNext, sent>>

\* enqueue finds an entry of the identifier, which becomes this call's: the promise of
\* the call that waited there never settles.
Supersede(c) ==
  /\ At(c, "enqueueing")
  /\ Q!Replace(Identifier[c], c)
  /\ caller' = [d \in Callers |->
       CASE d = c -> [caller[d] EXCEPT !.state = "queued"]
         [] \E i \in DOMAIN queue : queue[i] = [id |-> Identifier[c], operation |-> d] ->
              [caller[d] EXCEPT !.state = "superseded"]
         [] OTHER -> caller[d]]
  /\ UNCHANGED <<sequenceNumber, accountNext, sent>>

\* enqueue answers false, the identifier is running: the iteration has failed.
BeRefused(c) ==
  /\ At(c, "enqueueing")
  /\ Q!Refuse(Identifier[c], FALSE)
  /\ To(c, "failed")
  /\ UNCHANGED <<sequenceNumber, accountNext, sent>>

\* The operation of call c ends with the promise of its iteration settled, and the
\* queue calls the next one.
End(c, state, failInfo) ==
  /\ \E e \in awaited : e.operation = c /\ Q!Settle(e)
  /\ caller' = Running([caller EXCEPT ![c] = Outcome(c, state, failInfo)])

\* tryCallFunction with the data at hand: a retry takes the manager's own number.
PrepareTransaction(c) ==
  /\ At(c, "running")
  /\ caller' = [caller EXCEPT
       ![c].state = "sending",
       ![c].number = IF caller[c].iteration > 0 THEN sequenceNumber ELSE 0]
  /\ UNCHANGED <<sequenceNumber, accountNext, sent, queueVars>>

\* The numbers it may be sent with: without one, a node is asked while it is built.
Numbers(c) == IF caller[c].number # 0 THEN {caller[c].number} ELSE 1 .. accountNext

Submitted(c, n) ==
  /\ n >= accountNext
  /\ sent' = [sent EXCEPT ![c][caller[c].iteration] = [state |-> "pending", number |-> n]]

Submit(c) ==
  /\ At(c, "sending")
  /\ \E n \in Numbers(c) : Submitted(c, n)
  /\ To(c, "waiting")
  /\ UNCHANGED <<sequenceNumber, accountNext, queueVars>>

\* SEQUENCE_NUMBER_TOO_OLD
FailTooOld(c) ==
  /\ At(c, "sending")
  /\ \E n \in Numbers(c) : n < accountNext
  /\ End(c, "tooOld", 0)
  /\ UNCHANGED <<sequenceNumber, accountNext, sent>>

\* Any other error: of the data provider, of the gas price, of the node, whether or
\* not it has taken the transaction, and of the wait for it.
Fail(c) ==
  /\ \/ At(c, "running") /\ UNCHANGED sent
     \/ At(c, "sending") /\ (UNCHANGED sent \/ \E n \in Numbers(c) : Submitted(c, n))
     \/ At(c, "waiting") /\ UNCHANGED sent
  /\ End(c, "failed", 0)
  /\ UNCHANGED <<sequenceNumber, accountNext>>

\* The transaction is seen committed: processCommittedTransaction, and the promise.
Resolve(c) ==
  /\ At(c, "waiting") /\ Tx(c).state = "committed"
  /\ SetNextSequenceNumber(Tx(c).number)
  /\ End(c, "ok", 0)
  /\ UNCHANGED <<accountNext, sent>>

\* It is seen to have failed in the virtual machine; the error holds the transaction.
FailInfo(c) ==
  /\ At(c, "waiting") /\ Tx(c).state = "aborted"
  /\ End(c, "failed", Tx(c).number)
  /\ UNCHANGED <<sequenceNumber, accountNext, sent>>

-----------------------------------------------------------------------------
(* The other managers and the chain                                        *)

EnqueueOther ==
  /\ Q!Push(OtherIdentifier, Other, FALSE)
  /\ caller' = Running(caller)
  /\ UNCHANGED <<sequenceNumber, accountNext, sent>>

SettleOther ==
  /\ \E e \in awaited : e.operation = Other /\ Q!Settle(e)
  /\ caller' = Running(caller)
  /\ UNCHANGED <<sequenceNumber, accountNext, sent>>

\* A transaction with the account's next number is committed, successful or not.
Commit(c, i) ==
  /\ accountNext < MaxSequenceNumber
  /\ sent[c][i].state = "pending" /\ sent[c][i].number = accountNext
  /\ accountNext' = accountNext + 1
  /\ \E state \in {"committed", "aborted"} : sent' = [sent EXCEPT ![c][i].state = state]
  /\ UNCHANGED <<caller, sequenceNumber, queueVars>>

\* A transaction the account has sent from elsewhere is committed.
CommitOther ==
  /\ accountNext < MaxSequenceNumber
  /\ accountNext' = accountNext + 1
  /\ UNCHANGED <<caller, sequenceNumber, sent, queueVars>>

\* What the program does for a call that was made.
CallerStep(c) ==
  \/ Refresh(c) \/ FailToRefresh(c) \/ ProcessTransactionError(c)
  \/ Enqueue(c) \/ Supersede(c) \/ BeRefused(c)
  \/ PrepareTransaction(c) \/ Submit(c) \/ FailTooOld(c) \/ Fail(c) \/ Resolve(c) \/ FailInfo(c)

MoveNext ==
  \/ \E c \in Callers : Call(c) \/ CallerStep(c)
  \/ \E c \in Callers, i \in Iterations : Commit(c, i)
  \/ EnqueueOther \/ SettleOther \/ CommitOther

-----------------------------------------------------------------------------
\* The manager never believes in a number the account has not reached: a transaction
\* sent with it would wait for others that nobody sends.
SequenceNumberReached == sequenceNumber <= accountNext

\* A call that returns a hash has had a transaction of its own committed, whatever
\* calls took turns in the queue.
ResolvedMeansCommitted ==
  \A c \in Callers : At(c, "ok") => \E i \in Iterations : sent[c][i].state = "committed"

\* Every call settles, unless a call for the same data took its place in the queue.
EveryCallAnswered ==
  \A c \in Callers :
    (~At(c, "idle")) ~> (caller[c].state \in {"ok", "error", "superseded"})
=============================================================================
