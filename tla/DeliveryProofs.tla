--------------------------- MODULE DeliveryProofs ---------------------------
(***************************************************************************)
(* What is reported as delivered is on chain, for every number of attempts, *)
(* batches and callers, as long as an update of Stellar takes one           *)
(* transaction.                                                             *)
(***************************************************************************)
EXTENDS Deliveries, SequenceTheorems, TLAPS

\* On Stellar an update fits in one transaction: without it the property fails, since
\* the batches of an update share one context.
SingleBatch == "stellar" \in Connectors => BatchCount["stellar"] = 1

Op(d, i) == operation[d][i]

\* Operations are called by their attempts, in turn.
CalledInTurn ==
  \A d \in Deliveries, i \in Attempts :
    Op(d, i).state # "none" => delivery[d].state # "idle" /\ i <= delivery[d].attempt

\* Before its transaction is sent an operation has none.
Unsent ==
  \A d \in Deliveries, i \in Attempts :
    Op(d, i).state \in {"none", "preparing", "sending"} => tx[d][i] = "none"

\* h is a transaction an operation of delivery d may wait for.
OwnHash(h, d) == h \in Hashes /\ (SingleBatch => h.batch = d)

\* An operation waits for a transaction of its own batch.
WaitsForOwnBatch ==
  \A d \in Deliveries, i \in Attempts :
    Op(d, i).state = "waiting" => OwnHash(Op(d, i).waitingHash, d)

\* Only Stellar has a context, and only Jito a bundle.
ContextAndBundle ==
  /\ baseTxHash # NONE => baseTxHash \in Hashes /\ baseTxHash.batch # Bundle
  /\ delivery[Bundle].state # "idle" => connector = "jito"

\* An executed transaction has written prices as new as its own, and one refused as
\* stale has found them.
ExecutedMeansWritten ==
  \A d \in Deliveries, i \in Attempts :
    tx[d][i] \in {"executed", "stale"} =>
      \A b \in Covered(d) : price[b] >= Op(d, i).timestamp

DeliveryInv ==
  /\ DeliveryTypeOK
  /\ CalledInTurn /\ Unsent /\ WaitsForOwnBatch /\ ContextAndBundle /\ ExecutedMeansWritten
  /\ ContextOfSent
  /\ SingleBatch => BatchesWritten

-----------------------------------------------------------------------------
(* What every step of a delivery has in common                             *)

OperationProgress(d, i) ==
  \/ Op(d, i)' = Op(d, i)
  \/ /\ Op(d, i).state = "none" /\ Op(d, i)'.state = "preparing"
  \/ /\ Op(d, i).state = "preparing" /\ Op(d, i)'.state = "sending"
  \/ /\ Op(d, i)'.state \in {"waiting", "ok", "error"}
     /\ Op(d, i)'.timestamp = Op(d, i).timestamp

TxProgress(d, i) ==
  \/ tx'[d][i] = tx[d][i]
  \/ /\ tx[d][i] = "none" /\ tx'[d][i] = "pending"
     /\ Op(d, i)'.state \notin {"none", "preparing", "sending"}
  \/ /\ tx[d][i] = "pending" /\ Op(d, i)' = Op(d, i)
     /\ tx'[d][i] # "none"
     /\ tx'[d][i] \in {"executed", "stale"} =>
          \A b \in Covered(d) : price'[b] >= Op(d, i).timestamp

Progress ==
  /\ connector' = connector
  /\ DeliveryTypeOK'
  /\ \A b \in Batches : price'[b] >= price[b]
  /\ \A d \in Deliveries, i \in Attempts : OperationProgress(d, i) /\ TxProgress(d, i)
  /\ CalledInTurn' /\ WaitsForOwnBatch' /\ ContextAndBundle'
  /\ baseTxHash' = baseTxHash \/ ContextOfSent'
  /\ SingleBatch =>
       \A d \in Deliveries :
         delivery'[d].state = "ok" => delivery[d].state = "ok" \/ Written(d)

\* The sets the types are made of depend on the connector only, which stays.
LEMMA SameConnector ==
  ASSUME connector' = connector
  PROVE  /\ Batches' = Batches /\ Deliveries' = Deliveries
         /\ Attempts' = Attempts /\ Hashes' = Hashes
         /\ \A d : Covered(d)' = Covered(d)
         /\ \A s : Skippable(s)' = Skippable(s)
  BY DEF Batches, Deliveries, Attempts, Hashes, Covered, Skippable

\* Attempts are numbered from 0; a delivery makes no more than are configured.
LEMMA AttemptNumbers ==
  ASSUME DeliveryTypeOK, NEW d \in Deliveries, NEW i \in Attempts
  PROVE  /\ 0 \in Attempts /\ i \in Nat
         /\ i + 1 < MaxAttempts(d) => i + 1 \in Attempts
  <1>1. MaxTxSendAttempts[connector] \in Nat \ {0}
    BY DeliveryAssumption DEF DeliveryTypeOK
  <1>2. AlternativeSenderMaxAttempts <= MaxTxSendAttempts[connector]
    BY DeliveryAssumption DEF DeliveryTypeOK
  <1>3. AlternativeSenderMaxAttempts \in Nat
    BY DeliveryAssumption
  <1> QED BY <1>1, <1>2, <1>3 DEF Attempts, MaxAttempts

\* What was written stays written.
LEMMA WrittenStays ==
  ASSUME DeliveryInv, Progress, NEW d \in Deliveries, Written(d)
  PROVE  Written(d)'
  <1>1. /\ Attempts' = Attempts /\ Batches' = Batches /\ Covered(d)' = Covered(d)
        /\ \A s : Skippable(s)' = Skippable(s)
    BY SameConnector DEF Progress
  <1>2. PICK i \in Attempts :
          /\ tx[d][i] = "executed" \/ Skippable(tx[d][i])
          /\ \/ tx[d][i] = "late"
             \/ \A b \in Covered(d) : price[b] >= Op(d, i).timestamp
    BY DEF Written, Op
  <1>3. tx[d][i] \in {"executed", "stale", "late"}
    BY <1>2 DEF Skippable
  <1>4. tx'[d][i] = tx[d][i]
    BY <1>3 DEF Progress, TxProgress
  <1>5. Op(d, i).state \notin {"none", "preparing", "sending"}
    BY <1>3 DEF DeliveryInv, Unsent
  <1>6. Op(d, i)'.timestamp = Op(d, i).timestamp
    BY <1>5 DEF Progress, OperationProgress
  <1>7. Covered(d) \subseteq Batches
    BY DEF Covered, Deliveries
  <1>8. \A b \in Covered(d) :
          /\ price[b] \in Nat /\ price'[b] \in Nat /\ price'[b] >= price[b]
    BY <1>1, <1>7 DEF DeliveryInv, DeliveryTypeOK, Progress
  <1>9. Op(d, i).timestamp \in Nat
    BY DEF DeliveryInv, DeliveryTypeOK, Op
  <1>10. tx'[d][i] = "late" \/ \A b \in Covered(d) : price'[b] >= Op(d, i)'.timestamp
    BY <1>2, <1>4, <1>6, <1>8, <1>9
  <1> QED BY <1>1, <1>2, <1>4, <1>10 DEF Written, Op

\* Every step that makes progress keeps the invariant.
LEMMA ProgressKeepsInv ==
  ASSUME DeliveryInv, Progress
  PROVE  DeliveryInv'
  <1>1. /\ Attempts' = Attempts /\ Batches' = Batches /\ Deliveries' = Deliveries
        /\ \A d : Covered(d)' = Covered(d)
    BY SameConnector DEF Progress
  <1>2. Unsent'
    BY <1>1 DEF DeliveryInv, Unsent, Progress, OperationProgress, TxProgress
  <1>3. ExecutedMeansWritten'
    <2> SUFFICES ASSUME NEW d \in Deliveries, NEW i \in Attempts,
                        tx'[d][i] \in {"executed", "stale"},
                        NEW b \in Covered(d)
                 PROVE  price'[b] >= Op(d, i)'.timestamp
      BY <1>1 DEF ExecutedMeansWritten
    <2>1. CASE tx'[d][i] = tx[d][i]
      <3>1. b \in Batches
        BY DEF Covered, Deliveries
      <3>2. price'[b] \in Nat /\ price[b] \in Nat /\ price'[b] >= price[b]
        BY <3>1, <1>1 DEF DeliveryInv, DeliveryTypeOK, Progress
      <3>3. Op(d, i).state \notin {"none", "preparing", "sending"}
        BY <2>1 DEF DeliveryInv, Unsent
      <3>4. Op(d, i)'.timestamp = Op(d, i).timestamp
        BY <3>3 DEF Progress, OperationProgress
      <3>5. Op(d, i).timestamp \in Nat
        BY DEF DeliveryInv, DeliveryTypeOK, Op
      <3>6. price[b] >= Op(d, i).timestamp
        BY <2>1 DEF DeliveryInv, ExecutedMeansWritten
      <3> QED BY <3>2, <3>4, <3>5, <3>6
    <2>2. CASE tx'[d][i] # tx[d][i]
      <3>1. /\ Op(d, i)' = Op(d, i)
            /\ \A c \in Covered(d) : price'[c] >= Op(d, i).timestamp
        BY <2>2 DEF Progress, TxProgress
      <3> QED BY <3>1
    <2> QED BY <2>1, <2>2
  <1>4. SingleBatch => BatchesWritten'
    BY <1>1, WrittenStays DEF DeliveryInv, BatchesWritten, Progress
  <1>5. ContextOfSent'
    <2>1. CASE baseTxHash' = baseTxHash /\ baseTxHash # NONE
      <3>1. /\ baseTxHash.batch \in Deliveries /\ baseTxHash.attempt \in Attempts
            /\ tx[baseTxHash.batch][baseTxHash.attempt] # "none"
        BY <2>1 DEF DeliveryInv, ContextAndBundle, ContextOfSent, Hashes
      <3>2. tx'[baseTxHash.batch][baseTxHash.attempt] # "none"
        BY <3>1 DEF Progress, TxProgress
      <3> QED BY <2>1, <3>2 DEF ContextOfSent
    <2>2. CASE baseTxHash' = baseTxHash /\ baseTxHash = NONE
      BY <2>2 DEF ContextOfSent
    <2> QED BY <2>1, <2>2 DEF Progress
  <1> QED BY <1>2, <1>3, <1>4, <1>5 DEF DeliveryInv, Progress

-----------------------------------------------------------------------------
(* Each step makes progress                                                *)

\* An operation is a record of its state, its timestamp and what it waits for.
LEMMA OperationWithState ==
  ASSUME NEW H,
         NEW o \in [state : {"none", "preparing", "sending", "waiting", "ok", "error"},
                    timestamp : Nat, waitingHash : H],
         NEW s \in {"none", "preparing", "sending", "waiting", "ok", "error"}
  PROVE  /\ [o EXCEPT !.state = s] \in
              [state : {"none", "preparing", "sending", "waiting", "ok", "error"},
               timestamp : Nat, waitingHash : H]
         /\ [o EXCEPT !.state = s].state = s
         /\ [o EXCEPT !.state = s].timestamp = o.timestamp
  OBVIOUS

\* The actions that change nothing but deliveries, operations and, perhaps, tx.
Kept == UNCHANGED <<connector, baseTxHash, price>> /\ clock' \in Nat

\* What the start of attempts and the return of operations have in common: they start
\* operations in turn or end them.
ControlOnly ==
  /\ delivery' \in [Deliveries -> [state : {"idle", "trying", "ok", "error"},
                                   attempt : Attempts]]
  /\ operation' \in [Deliveries -> [Attempts ->
       [state : {"none", "preparing", "sending", "waiting", "ok", "error"},
        timestamp : Nat, waitingHash : Hashes \cup {NONE}]]]
  /\ \A d \in Deliveries, i \in Attempts :
       /\ \/ Op(d, i)' = Op(d, i)
          \/ Op(d, i).state = "none" /\ Op(d, i)'.state = "preparing"
          \/ /\ Op(d, i)'.state \in {"ok", "error"}
             /\ Op(d, i)'.timestamp = Op(d, i).timestamp
       /\ Op(d, i)'.state # "none" => delivery'[d].state # "idle" /\ i <= delivery'[d].attempt
  /\ delivery'[Bundle].state # "idle" => connector = "jito"

\* A transaction that is sent.
LEMMA PendingTyped ==
  ASSUME DeliveryInv, NEW d \in Deliveries, NEW i \in Attempts,
         tx' = tx \/ tx' = [tx EXCEPT ![d][i] = "pending"]
  PROVE  tx' \in [Deliveries -> [Attempts ->
           {"none", "pending", "executed", "stale", "late", "failed"}]]
  <1>1. tx \in [Deliveries -> [Attempts ->
           {"none", "pending", "executed", "stale", "late", "failed"}]]
    BY DEF DeliveryInv, DeliveryTypeOK
  <1>2. [tx[d] EXCEPT ![i] = "pending"] \in [Attempts ->
           {"none", "pending", "executed", "stale", "late", "failed"}]
    BY <1>1
  <1> QED BY <1>1, <1>2

\* The control's steps make progress, with a transaction left behind or without.
LEMMA ControlProgress ==
  ASSUME DeliveryInv, Kept, ControlOnly,
         tx' \in [Deliveries -> [Attempts ->
           {"none", "pending", "executed", "stale", "late", "failed"}]],
         \A d \in Deliveries, i \in Attempts : TxProgress(d, i),
         SingleBatch =>
           \A d \in Deliveries :
             delivery'[d].state = "ok" => delivery[d].state = "ok" \/ Written(d)
  PROVE  Progress
  <1>1. /\ connector' = connector
        /\ Attempts' = Attempts /\ Batches' = Batches /\ Deliveries' = Deliveries
        /\ Hashes' = Hashes
    BY SameConnector DEF Kept
  <1>2. DeliveryTypeOK'
    BY <1>1 DEF DeliveryInv, DeliveryTypeOK, Kept, ControlOnly
  <1>3. \A b \in Batches : price'[b] >= price[b]
    BY DEF Kept, DeliveryInv, DeliveryTypeOK
  <1>4. CalledInTurn'
    BY <1>1 DEF ControlOnly, CalledInTurn
  <1>5. WaitsForOwnBatch'
    <2> SUFFICES ASSUME NEW d \in Deliveries, NEW i \in Attempts, Op(d, i)'.state = "waiting"
                 PROVE  OwnHash(Op(d, i)'.waitingHash, d)
      BY <1>1 DEF WaitsForOwnBatch, OwnHash
    <2>1. Op(d, i)' = Op(d, i)
      BY DEF ControlOnly
    <2> QED BY <2>1 DEF DeliveryInv, WaitsForOwnBatch
  <1>6. ContextAndBundle'
    BY <1>1 DEF Kept, ControlOnly, DeliveryInv, ContextAndBundle, Bundle
  <1>7. \A d \in Deliveries, i \in Attempts : OperationProgress(d, i)
    BY DEF ControlOnly, OperationProgress
  <1> QED BY <1>1, <1>2, <1>3, <1>4, <1>5, <1>6, <1>7 DEF Progress, Kept

\* The next attempt calls an operation that was not called before.
LEMMA NextAttempt ==
  ASSUME DeliveryInv, NEW d \in Deliveries, NEW i \in Attempts, Awaited(d, i),
         i + 1 < MaxAttempts(d)
  PROVE  i + 1 \in Attempts /\ Op(d, i + 1).state = "none"
  <1>1. i + 1 \in Attempts /\ i \in Nat
    BY AttemptNumbers DEF DeliveryInv
  <1>2. ~(i + 1 <= delivery[d].attempt)
    BY <1>1 DEF Awaited
  <1> QED BY <1>1, <1>2 DEF DeliveryInv, CalledInTurn

\* A step to the next attempt or to the end, over operations of which one may have ended.
LEMMA FailedAttempt ==
  ASSUME DeliveryInv, NEW d \in Deliveries, NEW i \in Attempts, Awaited(d, i),
         NEW ops,
         \/ ops = operation
         \/ Op(d, i).state # "none" /\ ops = [operation EXCEPT ![d][i].state = "error"],
         operation' = WithNext(ops, d, i),
         delivery' = [delivery EXCEPT ![d] = AfterAttempt(d, i)]
  PROVE  ControlOnly /\ \A e \in Deliveries : delivery'[e].state = "ok" => delivery[e].state = "ok"
  <1> DEFINE States == {"none", "preparing", "sending", "waiting", "ok", "error"}
             OpSet == [state : States, timestamp : Nat, waitingHash : Hashes \cup {NONE}]
  <1>1. /\ operation \in [Deliveries -> [Attempts -> OpSet]]
        /\ delivery \in [Deliveries -> [state : {"idle", "trying", "ok", "error"},
                                        attempt : Attempts]]
    BY DEF DeliveryInv, DeliveryTypeOK
  <1>2. ops \in [Deliveries -> [Attempts -> OpSet]]
    <2>1. [operation[d][i] EXCEPT !.state = "error"] \in OpSet
      <3>1. operation[d][i] \in OpSet
        BY <1>1
      <3> QED BY ONLY <3>1, OperationWithState
    <2>2. [operation[d] EXCEPT ![i] = [operation[d][i] EXCEPT !.state = "error"]]
            \in [Attempts -> OpSet]
      BY <1>1, <2>1
    <2>3. [operation EXCEPT ![d][i].state = "error"] \in [Deliveries -> [Attempts -> OpSet]]
      BY <1>1, <2>2
    <2> QED BY <1>1, <2>3
  <1>3. /\ AfterAttempt(d, i) \in [state : {"trying", "error"}, attempt : Attempts]
        /\ AfterAttempt(d, i).attempt >= i
        /\ i + 1 < MaxAttempts(d) => AfterAttempt(d, i).attempt = i + 1
    BY AttemptNumbers DEF AfterAttempt, DeliveryInv
  <1>4. delivery' \in [Deliveries -> [state : {"idle", "trying", "ok", "error"},
                                      attempt : Attempts]]
    BY <1>1, <1>3
  <1>5. operation' \in [Deliveries -> [Attempts -> OpSet]]
    <2>1. CASE i + 1 < MaxAttempts(d)
      <3>1. i + 1 \in Attempts
        BY <2>1, NextAttempt
      <3> DEFINE next == i + 1
      <3>2. operation' = [ops EXCEPT ![d][next].state = "preparing"]
        BY <2>1 DEF WithNext
      <3> HIDE DEF next
      <3>3. next \in Attempts
        BY <3>1 DEF next
      <3>4. [ops[d][next] EXCEPT !.state = "preparing"] \in OpSet
        <4>1. ops[d][next] \in OpSet
          BY <1>2, <3>3
        <4> QED BY ONLY <4>1, OperationWithState
      <3>5. [ops[d] EXCEPT ![next] = [ops[d][next] EXCEPT !.state = "preparing"]]
              \in [Attempts -> OpSet]
        BY <1>2, <3>3, <3>4
      <3> QED BY <1>2, <3>2, <3>5
    <2>2. CASE ~(i + 1 < MaxAttempts(d))
      BY <1>2, <2>2 DEF WithNext
    <2> QED BY <2>1, <2>2
  <1>6. ASSUME NEW e \in Deliveries, NEW j \in Attempts
        PROVE  /\ \/ ops[e][j] = Op(e, j)
                  \/ /\ e = d /\ j = i /\ Op(e, j).state # "none"
                     /\ ops[e][j].state = "error"
                     /\ ops[e][j].timestamp = Op(e, j).timestamp
    BY <1>1 DEF Op
  <1>7. ASSUME NEW e \in Deliveries, NEW j \in Attempts
        PROVE  \/ Op(e, j)' = ops[e][j]
               \/ /\ e = d /\ i + 1 < MaxAttempts(d) /\ j = i + 1
                  /\ Op(e, j)'.state = "preparing"
    BY <1>2, NextAttempt DEF Op, WithNext
  <1>8. ASSUME NEW e \in Deliveries, NEW j \in Attempts
        PROVE  /\ \/ Op(e, j)' = Op(e, j)
                  \/ Op(e, j).state = "none" /\ Op(e, j)'.state = "preparing"
                  \/ /\ Op(e, j)'.state \in {"ok", "error"}
                     /\ Op(e, j)'.timestamp = Op(e, j).timestamp
    BY <1>6, <1>7, NextAttempt
  <1>9. ASSUME NEW e \in Deliveries, NEW j \in Attempts, Op(e, j)'.state # "none"
        PROVE  delivery'[e].state # "idle" /\ j <= delivery'[e].attempt
    <2>1. CASE e # d
      <3>1. delivery'[e] = delivery[e] /\ Op(e, j)' = Op(e, j)
        BY <1>1, <1>6, <1>7, <2>1
      <3> QED BY <3>1, <1>9 DEF DeliveryInv, CalledInTurn
    <2>2. CASE e = d
      <3>1. delivery'[d] = AfterAttempt(d, i)
        BY <1>1
      <3>2. CASE i + 1 < MaxAttempts(d) /\ j = i + 1
        BY <3>1, <3>2, <2>2, <1>3, AttemptNumbers DEF DeliveryInv
      <3>3. CASE ~(i + 1 < MaxAttempts(d) /\ j = i + 1)
        <4>1. Op(d, j).state # "none"
          BY <1>9, <1>6, <1>7, <2>2, <3>3
        <4>2. j <= i
          BY <4>1 DEF DeliveryInv, CalledInTurn, Awaited
        <4>3. j \in Nat /\ i \in Nat /\ AfterAttempt(d, i).attempt \in Nat
          BY <1>3, AttemptNumbers DEF DeliveryInv
        <4> QED BY <2>2, <3>1, <4>2, <4>3, <1>3
      <3> QED BY <3>2, <3>3
    <2> QED BY <2>1, <2>2
  <1>10. delivery'[Bundle].state # "idle" => connector = "jito"
    <2>1. delivery[d].state # "idle"
      BY DEF Awaited
    <2>2. Bundle \in Deliveries
      BY DEF Deliveries
    <2> QED BY <1>1, <2>1, <2>2 DEF DeliveryInv, ContextAndBundle
  <1>11. \A e \in Deliveries : delivery'[e].state = "ok" => delivery[e].state = "ok"
    BY <1>1, <1>3
  <1> QED BY <1>4, <1>5, <1>8, <1>9, <1>10, <1>11 DEF ControlOnly

\* An operation that returns ends, and decides its delivery only if it is awaited.
LEMMA Returned ==
  ASSUME DeliveryInv, NEW d \in Deliveries, NEW i \in Attempts,
         NEW result \in {"ok", "error"}, Op(d, i).state # "none", Return(d, i, result)
  PROVE  /\ ControlOnly
         /\ Op(d, i)'.state = result
         /\ \A e \in Deliveries :
              delivery'[e].state = "ok" =>
                delivery[e].state = "ok" \/ (e = d /\ result = "ok")
  <1> DEFINE ops == [operation EXCEPT ![d][i].state = result]
             OpSet == [state : {"none", "preparing", "sending", "waiting", "ok", "error"},
                       timestamp : Nat, waitingHash : Hashes \cup {NONE}]
             DeliverySet == [state : {"idle", "trying", "ok", "error"}, attempt : Attempts]
  <1>1. /\ operation \in [Deliveries -> [Attempts -> OpSet]]
        /\ delivery \in [Deliveries -> DeliverySet]
    BY DEF DeliveryInv, DeliveryTypeOK
  <1>2. /\ operation[d][i] \in OpSet
        /\ operation[d] \in [Attempts -> OpSet]
    BY <1>1
  <1>3. /\ [operation[d][i] EXCEPT !.state = result] \in OpSet
        /\ [operation[d][i] EXCEPT !.state = result].state = result
        /\ [operation[d][i] EXCEPT !.state = result].timestamp = operation[d][i].timestamp
    BY ONLY <1>2, OperationWithState
  <1>4. [operation[d] EXCEPT ![i] = [operation[d][i] EXCEPT !.state = result]]
          \in [Attempts -> OpSet]
    BY <1>2, <1>3
  <1>5. ops \in [Deliveries -> [Attempts -> OpSet]]
    BY <1>1, <1>4
  <1>6. ASSUME NEW e \in Deliveries, NEW j \in Attempts
        PROVE  /\ (e # d \/ j # i) => ops[e][j] = Op(e, j)
               /\ e = d /\ j = i =>
                    ops[e][j].state = result /\ ops[e][j].timestamp = Op(e, j).timestamp
    BY <1>1, <1>3 DEF Op
  <1>7. CASE ~Awaited(d, i) \/ result = "ok"
    <2>1. /\ operation' = ops
          /\ delivery' \in [Deliveries -> DeliverySet]
          /\ \A e \in Deliveries :
               /\ delivery'[e].attempt = delivery[e].attempt
               /\ \/ delivery'[e].state = delivery[e].state
                  \/ e = d /\ result = "ok" /\ delivery'[e].state = "ok"
      <3>1. CASE ~Awaited(d, i)
        BY <1>1, <3>1 DEF Return
      <3>2. CASE Awaited(d, i) /\ result = "ok"
        <4>1. operation' = ops /\ delivery' = [delivery EXCEPT ![d].state = "ok"]
          BY <3>2 DEF Return
        <4>2. [delivery[d] EXCEPT !.state = "ok"] \in DeliverySet
          BY <1>1
        <4> QED BY <1>1, <3>2, <4>1, <4>2
      <3> QED BY <1>7, <3>1, <3>2
    <2>2. \A e \in Deliveries, j \in Attempts :
            Op(e, j)'.state # "none" => Op(e, j).state # "none"
      BY <1>6, <2>1 DEF Op
    <2>3. \A e \in Deliveries, j \in Attempts :
            Op(e, j)'.state # "none" => delivery'[e].state # "idle" /\ j <= delivery'[e].attempt
      BY <2>1, <2>2 DEF DeliveryInv, CalledInTurn
    <2>4. delivery'[Bundle].state # "idle" => connector = "jito"
      <3>1. Bundle \in Deliveries
        BY DEF Deliveries
      <3>2. delivery[d].state # "idle"
        BY DEF DeliveryInv, CalledInTurn
      <3> QED BY <2>1, <3>1, <3>2 DEF DeliveryInv, ContextAndBundle
    <2> QED BY <1>5, <1>6, <2>1, <2>3, <2>4 DEF ControlOnly, Op
  <1>8. CASE Awaited(d, i) /\ result = "error"
    <2>1. /\ operation' = WithNext(ops, d, i)
          /\ delivery' = [delivery EXCEPT ![d] = AfterAttempt(d, i)]
      BY <1>8 DEF Return
    <2>2. ops = [operation EXCEPT ![d][i].state = "error"]
      BY <1>8
    <2>3. ControlOnly /\ \A e \in Deliveries : delivery'[e].state = "ok" => delivery[e].state = "ok"
      <3> HIDE DEF ops
      <3> QED BY <1>8, <2>1, <2>2, FailedAttempt
    <2>4. Op(d, i)'.state = "error"
      <3>1. ops[d][i].state = "error"
        BY <1>6, <1>8
      <3>2. i # i + 1
        BY AttemptNumbers DEF DeliveryInv
      <3> HIDE DEF ops
      <3>3. operation'[d][i] = ops[d][i]
        BY <1>5, <2>1, <3>2, NextAttempt DEF WithNext
      <3> QED BY <3>1, <3>3 DEF Op
    <2> QED BY <1>8, <2>3, <2>4
  <1> QED BY <1>7, <1>8

\* The start of the deliveries that are due.
LEMMA BeginProgress ==
  ASSUME DeliveryInv, Begin
  PROVE  Progress
  <1> DEFINE OpSet == [state : {"none", "preparing", "sending", "waiting", "ok", "error"},
                       timestamp : Nat, waitingHash : Hashes \cup {NONE}]
             DeliverySet == [state : {"idle", "trying", "ok", "error"}, attempt : Attempts]
  <1>1. /\ operation \in [Deliveries -> [Attempts -> OpSet]]
        /\ delivery \in [Deliveries -> DeliverySet]
    BY DEF DeliveryInv, DeliveryTypeOK
  <1>2. ASSUME NEW d \in Due
        PROVE  d \in Deliveries /\ delivery[d].state = "idle" /\ (d = Bundle => connector = "jito")
    BY DEF Due, Deliveries, Batches, Bundle
  <1>3. 0 \in Attempts /\ \A i \in Attempts : i \in Nat
    <2>1. MaxTxSendAttempts[connector] \in Nat \ {0}
      BY DeliveryAssumption DEF DeliveryInv, DeliveryTypeOK
    <2> QED BY <2>1 DEF Attempts
  <1>4. delivery' \in [Deliveries -> DeliverySet]
    BY <1>1, <1>3 DEF Begin
  <1>5. ASSUME NEW d \in Deliveries
        PROVE  [operation[d] EXCEPT ![0].state = "preparing"] \in [Attempts -> OpSet]
    <2>1. operation[d][0] \in OpSet
      BY <1>1, <1>3
    <2>2. [operation[d][0] EXCEPT !.state = "preparing"] \in OpSet
      BY ONLY <2>1, OperationWithState
    <2> QED BY <1>1, <1>3, <2>2
  <1>6. operation' \in [Deliveries -> [Attempts -> OpSet]]
    BY <1>1, <1>5 DEF Begin
  <1>7. ASSUME NEW d \in Deliveries, NEW i \in Attempts
        PROVE  \/ Op(d, i)' = Op(d, i) /\ (d \in Due => i # 0)
               \/ d \in Due /\ i = 0 /\ Op(d, i)'.state = "preparing"
    <2>1. CASE d \in Due
      <3>1. operation'[d] = [operation[d] EXCEPT ![0].state = "preparing"]
        BY <2>1 DEF Begin
      <3> QED BY <1>1, <1>3, <2>1, <3>1 DEF Op
    <2>2. CASE d \notin Due
      BY <2>2 DEF Op, Begin
    <2> QED BY <2>1, <2>2
  <1>8. \A d \in Due, i \in Attempts : Op(d, i).state = "none"
    BY <1>2 DEF DeliveryInv, CalledInTurn
  <1>9. ASSUME NEW d \in Deliveries, NEW i \in Attempts, Op(d, i)'.state # "none"
        PROVE  delivery'[d].state # "idle" /\ i <= delivery'[d].attempt
    <2>1. CASE d \in Due
      <3>1. i = 0
        BY <1>7, <1>8, <1>9, <2>1
      <3> QED BY <2>1, <3>1 DEF Begin
    <2>2. CASE d \notin Due
      <3>1. delivery'[d] = delivery[d] /\ Op(d, i)' = Op(d, i)
        BY <2>2, <1>7 DEF Begin
      <3> QED BY <1>9, <3>1 DEF DeliveryInv, CalledInTurn
    <2> QED BY <2>1, <2>2
  <1>10. delivery'[Bundle].state # "idle" => connector = "jito"
    BY <1>2 DEF Begin, Deliveries, DeliveryInv, ContextAndBundle
  <1>11. ControlOnly
    <2>1. \A d \in Deliveries, i \in Attempts :
            Op(d, i)' = Op(d, i) \/ (Op(d, i).state = "none" /\ Op(d, i)'.state = "preparing")
      BY <1>7, <1>8
    <2> QED BY <1>4, <1>6, <1>9, <1>10, <2>1 DEF ControlOnly
  <1>12. \A d \in Deliveries : delivery'[d].state = "ok" => delivery[d].state = "ok"
    BY DEF Begin
  <1>13. Kept /\ tx' = tx
    BY DEF Begin, Kept, DeliveryInv, DeliveryTypeOK
  <1>14. \A d \in Deliveries, i \in Attempts : TxProgress(d, i)
    BY <1>13 DEF TxProgress
  <1> QED BY <1>11, <1>12, <1>13, <1>14, ControlProgress DEF DeliveryInv, DeliveryTypeOK

\* A timeout.
LEMMA TimedOutProgress ==
  ASSUME DeliveryInv, NEW d \in Deliveries, TimedOut(d)
  PROVE  Progress
  <1> DEFINE i == delivery[d].attempt
  <1>1. i \in Attempts
    BY DEF DeliveryInv, DeliveryTypeOK
  <1>2. Awaited(d, i)
    BY DEF TimedOut, Awaited
  <1>3. /\ operation' = WithNext(operation, d, i)
        /\ delivery' = [delivery EXCEPT ![d] = AfterAttempt(d, i)]
        /\ Kept /\ tx' = tx
    BY DEF TimedOut, Kept, DeliveryInv, DeliveryTypeOK
  <1> HIDE DEF i
  <1>4. ControlOnly /\ \A e \in Deliveries : delivery'[e].state = "ok" => delivery[e].state = "ok"
    BY <1>1, <1>2, <1>3, FailedAttempt
  <1>5. \A e \in Deliveries, j \in Attempts : TxProgress(e, j)
    BY <1>3 DEF TxProgress
  <1> QED BY <1>3, <1>4, <1>5, ControlProgress DEF DeliveryInv, DeliveryTypeOK

\* An operation that fails, with or without a transaction left behind.
LEMMA FailureProgress ==
  ASSUME DeliveryInv, NEW d \in Deliveries, NEW i \in Attempts,
         FailToPrepare(d, i) \/ FailToSend(d, i) \/ GiveUp(d, i)
  PROVE  Progress
  <1>1. Op(d, i).state # "none" /\ Return(d, i, "error") /\ Kept
    BY DEF FailToPrepare, FailToSend, GiveUp, Op, Kept, DeliveryInv, DeliveryTypeOK
  <1>2. /\ ControlOnly
        /\ Op(d, i)'.state = "error"
        /\ \A e \in Deliveries : delivery'[e].state = "ok" => delivery[e].state = "ok"
    BY <1>1, Returned
  <1>3. \/ tx' = tx
        \/ tx[d][i] = "none" /\ tx' = [tx EXCEPT ![d][i] = "pending"]
    BY DEF FailToPrepare, FailToSend, GiveUp, Op, DeliveryInv, Unsent
  <1>4. tx' \in [Deliveries -> [Attempts ->
           {"none", "pending", "executed", "stale", "late", "failed"}]]
    BY <1>3, PendingTyped
  <1>5. ASSUME NEW e \in Deliveries, NEW j \in Attempts
        PROVE  \/ tx'[e][j] = tx[e][j]
               \/ e = d /\ j = i /\ tx[e][j] = "none" /\ tx'[e][j] = "pending"
    BY <1>3 DEF DeliveryInv, DeliveryTypeOK
  <1>6. \A e \in Deliveries, j \in Attempts : TxProgress(e, j)
    BY <1>2, <1>5 DEF TxProgress
  <1> QED BY <1>1, <1>2, <1>4, <1>6, ControlProgress

\* A confirmation: the transaction seen is of the operation's own batch.
LEMMA ConfirmProgress ==
  ASSUME DeliveryInv, NEW d \in Deliveries, NEW i \in Attempts, Confirm(d, i)
  PROVE  Progress
  <1> DEFINE hash == Op(d, i).waitingHash
             status == tx[hash.batch][hash.attempt]
  <1>1. /\ Op(d, i).state = "waiting" /\ Return(d, i, "ok") /\ Kept /\ tx' = tx
        /\ status = "executed" \/ Skippable(status)
    BY DEF Confirm, Op, Kept, DeliveryInv, DeliveryTypeOK
  <1>2. /\ ControlOnly
        /\ \A e \in Deliveries :
             delivery'[e].state = "ok" => delivery[e].state = "ok" \/ e = d
    BY <1>1, Returned
  <1>3. OwnHash(hash, d)
    BY <1>1 DEF DeliveryInv, WaitsForOwnBatch
  <1>5. SingleBatch => Written(d)
    <2> SUFFICES ASSUME SingleBatch PROVE Written(d)
      OBVIOUS
    <2>0. hash.attempt \in Attempts /\ status = tx[d][hash.attempt]
      BY <1>3 DEF OwnHash, Hashes
    <2> HIDE DEF hash
    <2>1. CASE status = "late"
      BY <1>1, <2>0, <2>1 DEF Written
    <2>2. CASE status # "late"
      <3>1. status \in {"executed", "stale"}
        BY <1>1, <2>2 DEF Skippable
      <3>2. \A b \in Covered(d) : price[b] >= operation[d][hash.attempt].timestamp
        BY <2>0, <3>1 DEF DeliveryInv, ExecutedMeansWritten, Op
      <3> QED BY <1>1, <2>0, <3>2 DEF Written
    <2> QED BY <2>1, <2>2
  <1>6. \A e \in Deliveries, j \in Attempts : TxProgress(e, j)
    BY <1>1 DEF TxProgress
  <1> QED BY <1>1, <1>2, <1>5, <1>6, ControlProgress DEF DeliveryInv, DeliveryTypeOK

\* An operation that goes on, alone: its payload is made, or it starts to wait.
LEMMA OperationStep ==
  ASSUME DeliveryInv, NEW d \in Deliveries, NEW i \in Attempts,
         Op(d, i).state # "none",
         NEW record \in [state : {"sending", "waiting"}, timestamp : Nat,
                         waitingHash : Hashes \cup {NONE}],
         operation' = [operation EXCEPT ![d][i] = record],
         \/ Op(d, i).state = "preparing" /\ record.state = "sending"
         \/ record.state = "waiting" /\ record.timestamp = Op(d, i).timestamp,
         record.state = "waiting" => OwnHash(record.waitingHash, d),
         UNCHANGED <<connector, clock, delivery, price>>,
         tx' = tx \/ (/\ tx[d][i] = "none" /\ record.state = "waiting"
                      /\ tx' = [tx EXCEPT ![d][i] = "pending"]),
         baseTxHash' \in Hashes \cup {NONE},
         baseTxHash' # NONE => baseTxHash' \in Hashes /\ baseTxHash'.batch # Bundle,
         baseTxHash' = baseTxHash \/ ContextOfSent'
  PROVE  Progress
  <1>1. /\ Attempts' = Attempts /\ Batches' = Batches /\ Deliveries' = Deliveries
        /\ Hashes' = Hashes
    BY SameConnector
  <1>2. operation' \in [Deliveries -> [Attempts ->
       [state : {"none", "preparing", "sending", "waiting", "ok", "error"},
        timestamp : Nat, waitingHash : Hashes \cup {NONE}]]]
    BY DEF DeliveryInv, DeliveryTypeOK
  <1>3. DeliveryTypeOK'
    <2>1. tx' \in [Deliveries -> [Attempts ->
            {"none", "pending", "executed", "stale", "late", "failed"}]]
      BY PendingTyped
    <2> QED BY <1>1, <1>2, <2>1 DEF DeliveryInv, DeliveryTypeOK
  <1>4. ASSUME NEW e \in Deliveries, NEW j \in Attempts
        PROVE  \/ Op(e, j)' = Op(e, j) /\ tx'[e][j] = tx[e][j]
               \/ /\ e = d /\ j = i /\ Op(e, j)' = record
                  /\ \/ tx'[e][j] = tx[e][j]
                     \/ /\ tx[e][j] = "none" /\ tx'[e][j] = "pending"
                        /\ record.state = "waiting"
    BY DEF DeliveryInv, DeliveryTypeOK, Op
  <1>5. \A e \in Deliveries, j \in Attempts : OperationProgress(e, j) /\ TxProgress(e, j)
    BY <1>4 DEF OperationProgress, TxProgress
  <1>6. CalledInTurn'
    BY <1>1, <1>4 DEF DeliveryInv, CalledInTurn
  <1>7. WaitsForOwnBatch'
    <2> SUFFICES ASSUME NEW e \in Deliveries, NEW j \in Attempts, Op(e, j)'.state = "waiting"
                 PROVE  OwnHash(Op(e, j)'.waitingHash, e)
      BY <1>1 DEF WaitsForOwnBatch, OwnHash
    <2> QED BY <1>4 DEF DeliveryInv, WaitsForOwnBatch
  <1>8. ContextAndBundle'
    BY <1>1 DEF DeliveryInv, ContextAndBundle, Bundle
  <1>9. \A b \in Batches : price'[b] >= price[b]
    BY DEF DeliveryInv, DeliveryTypeOK
  <1> QED BY <1>3, <1>5, <1>6, <1>7, <1>8, <1>9 DEF Progress

\* The making of the payload.
LEMMA PrepareProgress ==
  ASSUME DeliveryInv, NEW d \in Deliveries, NEW i \in Attempts, Prepare(d, i)
  PROVE  Progress
  <1>1. PICK t \in Nat :
          operation' = [operation EXCEPT ![d][i].state = "sending", ![d][i].timestamp = t]
    BY DEF Prepare
  <1> DEFINE record == [operation[d][i] EXCEPT !.state = "sending", !.timestamp = t]
  <1>2. /\ operation[d][i] \in
              [state : {"none", "preparing", "sending", "waiting", "ok", "error"},
               timestamp : Nat, waitingHash : Hashes \cup {NONE}]
        /\ operation \in [Deliveries -> [Attempts ->
             [state : {"none", "preparing", "sending", "waiting", "ok", "error"},
              timestamp : Nat, waitingHash : Hashes \cup {NONE}]]]
    BY DEF DeliveryInv, DeliveryTypeOK
  <1>3. /\ record \in [state : {"sending", "waiting"}, timestamp : Nat,
                       waitingHash : Hashes \cup {NONE}]
        /\ record.state = "sending"
    BY <1>2
  <1>4. operation' = [operation EXCEPT ![d][i] = record]
    BY <1>1, <1>2
  <1>5. /\ Op(d, i).state = "preparing"
        /\ UNCHANGED <<connector, clock, delivery, tx, baseTxHash, price>>
    BY DEF Prepare, Op
  <1>6. /\ baseTxHash \in Hashes \cup {NONE}
        /\ baseTxHash # NONE => baseTxHash \in Hashes /\ baseTxHash.batch # Bundle
    BY DEF DeliveryInv, DeliveryTypeOK, ContextAndBundle
  <1> HIDE DEF record
  <1> QED BY <1>3, <1>4, <1>5, <1>6, OperationStep

\* A transaction of the operation's own that the network takes.
LEMMA SendProgress ==
  ASSUME DeliveryInv, NEW d \in Deliveries, NEW i \in Attempts, Send(d, i)
  PROVE  Progress
  <1> DEFINE record == [operation[d][i] EXCEPT !.state = "waiting", !.waitingHash = HashOf(d, i)]
  <1>1. /\ operation[d][i] \in
              [state : {"none", "preparing", "sending", "waiting", "ok", "error"},
               timestamp : Nat, waitingHash : Hashes \cup {NONE}]
        /\ operation \in [Deliveries -> [Attempts ->
             [state : {"none", "preparing", "sending", "waiting", "ok", "error"},
              timestamp : Nat, waitingHash : Hashes \cup {NONE}]]]
    BY DEF DeliveryInv, DeliveryTypeOK
  <1>2. HashOf(d, i) \in Hashes /\ HashOf(d, i).batch = d /\ HashOf(d, i).attempt = i
    BY DEF HashOf, Hashes
  <1>3. /\ record \in [state : {"sending", "waiting"}, timestamp : Nat,
                       waitingHash : Hashes \cup {NONE}]
        /\ record.state = "waiting" /\ record.timestamp = Op(d, i).timestamp
        /\ record.waitingHash = HashOf(d, i)
    BY <1>1, <1>2 DEF Op
  <1>4. operation' = [operation EXCEPT ![d][i] = record]
    BY <1>1 DEF Send, WaitFor
  <1>5. /\ Op(d, i).state = "sending"
        /\ UNCHANGED <<connector, clock, delivery, price>>
        /\ tx' = [tx EXCEPT ![d][i] = "pending"]
        /\ tx[d][i] = "none"
    BY DEF Send, Op, DeliveryInv, Unsent
  <1>6. connector = "stellar" => d # Bundle
    BY <1>5 DEF DeliveryInv, CalledInTurn, ContextAndBundle
  <1>7. /\ baseTxHash' \in Hashes \cup {NONE}
        /\ baseTxHash' # NONE => baseTxHash' \in Hashes /\ baseTxHash'.batch # Bundle
    BY <1>2, <1>6 DEF Send, DeliveryInv, DeliveryTypeOK, ContextAndBundle
  <1>8. baseTxHash' = baseTxHash \/ ContextOfSent'
    <2>1. tx'[d][i] = "pending"
      BY <1>5 DEF DeliveryInv, DeliveryTypeOK
    <2> QED BY <1>2, <2>1 DEF Send, ContextOfSent, HashOf
  <1>9. OwnHash(record.waitingHash, d)
    BY <1>2, <1>3 DEF OwnHash
  <1> HIDE DEF record
  <1> QED BY <1>3, <1>4, <1>5, <1>7, <1>8, <1>9, OperationStep

\* A transaction told TRY_AGAIN_LATER: the context's is of the same batch, since on
\* Stellar there is only one.
LEMMA TryAgainLaterProgress ==
  ASSUME DeliveryInv, NEW d \in Deliveries, NEW i \in Attempts, TryAgainLater(d, i)
  PROVE  Progress
  <1> DEFINE hash == IF baseTxHash # NONE THEN baseTxHash ELSE HashOf(d, i)
             record == [operation[d][i] EXCEPT !.state = "waiting", !.waitingHash = hash]
  <1>1. /\ operation[d][i] \in
              [state : {"none", "preparing", "sending", "waiting", "ok", "error"},
               timestamp : Nat, waitingHash : Hashes \cup {NONE}]
        /\ operation \in [Deliveries -> [Attempts ->
             [state : {"none", "preparing", "sending", "waiting", "ok", "error"},
              timestamp : Nat, waitingHash : Hashes \cup {NONE}]]]
    BY DEF DeliveryInv, DeliveryTypeOK
  <1>2. /\ connector = "stellar" /\ Op(d, i).state = "sending"
        /\ UNCHANGED <<connector, clock, delivery, tx, baseTxHash, price>>
    BY DEF TryAgainLater, Op
  <1>3. d # Bundle
    BY <1>2 DEF DeliveryInv, CalledInTurn, ContextAndBundle
  <1>4. SingleBatch => Batches = {1}
    <2> SUFFICES ASSUME SingleBatch PROVE Batches = {1}
      OBVIOUS
    <2>1. BatchCount[connector] = 1
      BY <1>2 DEF SingleBatch, DeliveryInv, DeliveryTypeOK
    <2> QED BY <2>1 DEF Batches
  <1>5. hash \in Hashes /\ OwnHash(hash, d)
    <2>1. HashOf(d, i) \in Hashes /\ HashOf(d, i).batch = d
      BY DEF HashOf, Hashes
    <2>2. SingleBatch => d = 1
      BY <1>3, <1>4 DEF Deliveries
    <2>3. baseTxHash # NONE =>
            baseTxHash \in Hashes /\ (SingleBatch => baseTxHash.batch = 1)
      BY <1>4 DEF DeliveryInv, ContextAndBundle, Hashes, Deliveries
    <2> QED BY <2>1, <2>2, <2>3 DEF OwnHash
  <1>6. operation' = [operation EXCEPT ![d][i].state = "waiting", ![d][i].waitingHash = hash]
    BY DEF TryAgainLater, WaitFor
  <1> HIDE DEF hash
  <1>7. /\ record \in [state : {"sending", "waiting"}, timestamp : Nat,
                       waitingHash : Hashes \cup {NONE}]
        /\ record.state = "waiting" /\ record.timestamp = Op(d, i).timestamp
        /\ record.waitingHash = hash
    BY <1>1, <1>5 DEF Op
  <1>8. operation' = [operation EXCEPT ![d][i] = record]
    BY <1>1, <1>6
  <1>9. /\ baseTxHash \in Hashes \cup {NONE}
        /\ baseTxHash # NONE => baseTxHash \in Hashes /\ baseTxHash.batch # Bundle
    BY DEF DeliveryInv, DeliveryTypeOK, ContextAndBundle
  <1> HIDE DEF record
  <1> QED BY <1>2, <1>5, <1>7, <1>8, <1>9, OperationStep

\* A step of the chain: prices only grow, and what executes has written its own.
LEMMA ExecuteProgress ==
  ASSUME DeliveryInv, NEW d \in Deliveries, NEW i \in Attempts, Execute(d, i)
  PROVE  Progress
  <1> DEFINE t == operation[d][i].timestamp
             States == {"none", "pending", "executed", "stale", "late", "failed"}
  <1>1. /\ tx \in [Deliveries -> [Attempts -> States]]
        /\ price \in [Batches -> Nat] /\ t \in Nat
    BY DEF DeliveryInv, DeliveryTypeOK
  <1>2. Covered(d) \subseteq Batches
    BY DEF Covered, Deliveries
  <1>3. /\ UNCHANGED <<connector, clock, delivery, operation, baseTxHash>>
        /\ tx[d][i] = "pending"
    BY DEF Execute
  <1>4. PICK status \in {"executed", "stale", "late", "failed"} :
          /\ tx' = [tx EXCEPT ![d][i] = status]
          /\ \/ /\ status = "executed"
                /\ price' = [b \in Batches |->
                     IF b \in Covered(d) /\ price[b] < t THEN t ELSE price[b]]
             \/ /\ status # "executed" /\ price' = price
                /\ status = "stale" => d # Bundle /\ ~Newer(d, t)
    BY DEF Execute
  <1>5. /\ price' \in [Batches -> Nat]
        /\ \A b \in Batches : price'[b] >= price[b]
    BY <1>1, <1>4
  <1>6. status \in {"executed", "stale"} => \A b \in Covered(d) : price'[b] >= t
    <2>1. CASE status = "executed"
      BY <1>1, <1>2, <1>4, <2>1
    <2>2. CASE status = "stale"
      <3>1. Covered(d) = {d} /\ ~Newer(d, t) /\ price' = price
        BY <1>4, <2>2 DEF Covered
      <3>2. ~(price[d] < t)
        BY <3>1 DEF Newer
      <3> HIDE DEF t
      <3> QED BY <1>1, <1>2, <3>1, <3>2
    <2> QED BY <2>1, <2>2
  <1>7. tx' \in [Deliveries -> [Attempts -> States]]
    <2>1. [tx[d] EXCEPT ![i] = status] \in [Attempts -> States]
      BY <1>1
    <2> QED BY <1>1, <1>4, <2>1
  <1>8. /\ Attempts' = Attempts /\ Batches' = Batches /\ Deliveries' = Deliveries
        /\ Hashes' = Hashes
    BY <1>3, SameConnector
  <1>9. DeliveryTypeOK'
    BY <1>3, <1>5, <1>7, <1>8 DEF DeliveryInv, DeliveryTypeOK
  <1>10. ASSUME NEW e \in Deliveries, NEW j \in Attempts
         PROVE  OperationProgress(e, j) /\ TxProgress(e, j)
    <2>1. Op(e, j)' = Op(e, j)
      BY <1>3 DEF Op
    <2>2. \/ tx'[e][j] = tx[e][j]
          \/ e = d /\ j = i /\ tx'[e][j] = status
      BY <1>1, <1>4
    <2>3. Op(d, i).timestamp = t
      BY DEF Op
    <2> HIDE DEF t
    <2> QED BY <1>3, <1>6, <2>1, <2>2, <2>3 DEF OperationProgress, TxProgress
  <1>11. CalledInTurn' /\ WaitsForOwnBatch' /\ ContextAndBundle'
    BY <1>3, <1>8 DEF DeliveryInv, CalledInTurn, WaitsForOwnBatch, OwnHash, ContextAndBundle, Op, Bundle
  <1> QED BY <1>3, <1>5, <1>9, <1>10, <1>11 DEF Progress

\* Newer data packages, or nothing of a delivery.
LEMMA AdvanceProgress ==
  ASSUME DeliveryInv, Advance \/ UNCHANGED deliveryVars
  PROVE  Progress
  <1>1. /\ UNCHANGED <<connector, delivery, operation, tx, baseTxHash, price>>
        /\ clock' \in Nat
    BY DEF Advance, deliveryVars, DeliveryInv, DeliveryTypeOK
  <1>2. ControlOnly
    BY <1>1 DEF ControlOnly, Op, DeliveryInv, DeliveryTypeOK, CalledInTurn, ContextAndBundle
  <1>3. Kept /\ \A d \in Deliveries, i \in Attempts : TxProgress(d, i)
    BY <1>1 DEF Kept, TxProgress
  <1>4. tx' \in [Deliveries -> [Attempts ->
           {"none", "pending", "executed", "stale", "late", "failed"}]]
    BY <1>1 DEF DeliveryInv, DeliveryTypeOK
  <1> QED BY <1>1, <1>2, <1>3, <1>4, ControlProgress

\* The initial state.
LEMMA DeliveryInitially == DeliveryInit => DeliveryInv
  <1> SUFFICES ASSUME DeliveryInit PROVE DeliveryInv
    OBVIOUS
  <1>1. 0 \in Attempts
    <2>1. MaxTxSendAttempts[connector] \in Nat \ {0}
      BY DeliveryAssumption DEF DeliveryInit
    <2> QED BY <2>1 DEF Attempts
  <1>2. DeliveryTypeOK
    BY <1>1 DEF DeliveryInit, DeliveryTypeOK
  <1>3. CalledInTurn /\ Unsent /\ WaitsForOwnBatch /\ ExecutedMeansWritten
    BY DEF DeliveryInit, CalledInTurn, Unsent, WaitsForOwnBatch, ExecutedMeansWritten, Op
  <1>4. ContextAndBundle
    BY DEF DeliveryInit, ContextAndBundle, Deliveries
  <1>5. ContextOfSent /\ BatchesWritten
    BY DEF DeliveryInit, ContextOfSent, BatchesWritten
  <1> QED BY <1>2, <1>3, <1>4, <1>5 DEF DeliveryInv

\* Every step of a delivery keeps the invariant.
LEMMA DeliveryStep == DeliveryInv /\ DeliveryNext => DeliveryInv'
  <1> SUFFICES ASSUME DeliveryInv, DeliveryNext PROVE Progress
    BY ProgressKeepsInv
  <1>1. CASE Begin
    BY <1>1, BeginProgress
  <1>2. CASE \E d \in Deliveries : TimedOut(d)
    BY <1>2, TimedOutProgress
  <1>3. ASSUME NEW d \in Deliveries, NEW i \in Attempts, Prepare(d, i)
        PROVE  Progress
    BY <1>3, PrepareProgress
  <1>4. ASSUME NEW d \in Deliveries, NEW i \in Attempts,
               FailToPrepare(d, i) \/ FailToSend(d, i) \/ GiveUp(d, i)
        PROVE  Progress
    BY <1>4, FailureProgress
  <1>5. ASSUME NEW d \in Deliveries, NEW i \in Attempts, Send(d, i)
        PROVE  Progress
    BY <1>5, SendProgress
  <1>6. ASSUME NEW d \in Deliveries, NEW i \in Attempts, TryAgainLater(d, i)
        PROVE  Progress
    BY <1>6, TryAgainLaterProgress
  <1>7. ASSUME NEW d \in Deliveries, NEW i \in Attempts, Confirm(d, i)
        PROVE  Progress
    BY <1>7, ConfirmProgress
  <1>8. ASSUME NEW d \in Deliveries, NEW i \in Attempts, Execute(d, i)
        PROVE  Progress
    BY <1>8, ExecuteProgress
  <1>9. CASE Advance
    BY <1>9, AdvanceProgress
  <1> QED BY <1>1, <1>2, <1>3, <1>4, <1>5, <1>6, <1>7, <1>8, <1>9 DEF DeliveryNext

-----------------------------------------------------------------------------
(* Calls of Move's manager                                                 *)

CallerSet == [state : CallerStates, iteration : Iterations, number : Nat, failInfo : Nat]
TxSet == [state : {"none", "pending", "committed", "aborted"}, number : Nat]

CallsTyped ==
  /\ caller \in [Callers -> CallerSet]
  /\ sequenceNumber \in Nat /\ accountNext \in Nat \ {0}
  /\ sent \in [Callers -> [Iterations -> TxSet]]

\* The account has passed the number of every transaction that was committed, and so
\* what an error tells of.
NumbersPassed ==
  /\ \A c \in Callers, i \in Iterations :
       sent[c][i].state \in {"committed", "aborted"} => sent[c][i].number < accountNext
  /\ \A c \in Callers : caller[c].failInfo < accountNext

MoveInv == CallsTyped /\ NumbersPassed /\ SequenceNumberReached /\ ResolvedMeansCommitted

\* What every step of the calls has in common: calls end well only by a transaction
\* seen committed, and numbers only grow.
LEMMA CallsProgress ==
  ASSUME MoveInv,
         NEW calls \in [Callers -> CallerSet],
         caller' = calls \/ caller' = Running(calls),
         sent' \in [Callers -> [Iterations -> TxSet]],
         accountNext' \in Nat, accountNext' >= accountNext,
         sequenceNumber' \in Nat, sequenceNumber' <= accountNext',
         \A c \in Callers : calls[c].failInfo < accountNext',
         \A c \in Callers : calls[c].state = "ok" =>
           /\ caller[c].state = "ok" \/ Tx(c).state = "committed"
           /\ \A i \in Iterations :
                sent[c][i].state = "committed" => sent'[c][i].state = "committed",
         \A c \in Callers, i \in Iterations :
           \/ sent'[c][i] = sent[c][i]
           \/ sent'[c][i].state = "pending"
           \/ sent'[c][i].number < accountNext'
  PROVE  MoveInv'
  <1>1. /\ caller \in [Callers -> CallerSet] /\ accountNext \in Nat \ {0}
        /\ sent \in [Callers -> [Iterations -> TxSet]]
    BY DEF MoveInv, CallsTyped
  <1>2. /\ caller' \in [Callers -> CallerSet]
        /\ \A c \in Callers : /\ caller'[c].failInfo = calls[c].failInfo
                              /\ caller'[c].state = "ok" => calls[c].state = "ok"
    <2>1. CASE caller' = calls
      BY <2>1
    <2>2. CASE caller' = Running(calls)
      <3>1. ASSUME NEW c \in Callers
            PROVE  /\ [calls[c] EXCEPT !.state = "running"] \in CallerSet
                   /\ [calls[c] EXCEPT !.state = "running"].failInfo = calls[c].failInfo
                   /\ [calls[c] EXCEPT !.state = "running"].state = "running"
        BY DEF CallerSet, CallerStates
      <3> QED BY <2>2, <3>1 DEF Running
    <2> QED BY <2>1, <2>2
  <1>3. CallsTyped'
    BY <1>1, <1>2 DEF CallsTyped, CallerSet, TxSet, Iterations
  <1>4. NumbersPassed'
    <2>1. ASSUME NEW c \in Callers, NEW i \in Iterations,
                 sent'[c][i].state \in {"committed", "aborted"}
          PROVE  sent'[c][i].number < accountNext'
      <3>1. CASE sent'[c][i] = sent[c][i]
        <4>1. sent[c][i].number \in Nat /\ sent[c][i].number < accountNext
          BY <1>1, <2>1, <3>1 DEF MoveInv, NumbersPassed, TxSet
        <4> QED BY <1>1, <3>1, <4>1
      <3> QED BY <2>1, <3>1
    <2> QED BY <1>2, <2>1 DEF NumbersPassed, Iterations
  <1>5. SequenceNumberReached'
    BY DEF SequenceNumberReached
  <1>6. ResolvedMeansCommitted'
    <2> SUFFICES ASSUME NEW c \in Callers, caller'[c].state = "ok"
                 PROVE  \E i \in Iterations : sent'[c][i].state = "committed"
      BY DEF ResolvedMeansCommitted, At, Iterations
    <2>1. \E i \in Iterations : sent[c][i].state = "committed"
      <3>1. CASE caller[c].state = "ok"
        BY <3>1 DEF MoveInv, ResolvedMeansCommitted, At
      <3>2. CASE Tx(c).state = "committed"
        <4>1. caller[c].iteration \in Iterations
          BY <1>1 DEF CallerSet
        <4> QED BY <3>2, <4>1 DEF Tx
      <3> QED BY <1>2, <3>1, <3>2
    <2> QED BY <1>2, <2>1
  <1> QED BY <1>3, <1>4, <1>5, <1>6 DEF MoveInv

\* A step of one call, which may send a transaction and let another call's operation run.
LEMMA CallerProgress ==
  ASSUME MoveInv, NEW c \in Callers, NEW r \in CallerSet, NEW calls,
         calls = [caller EXCEPT ![c] = r],
         caller' = calls \/ caller' = Running(calls),
         r.failInfo < accountNext,
         r.state = "ok" => Tx(c).state = "committed",
         \/ sent' = sent
         \/ /\ r.state # "ok"
            /\ \E n \in Nat : sent' = [sent EXCEPT ![c][caller[c].iteration] =
                                         [state |-> "pending", number |-> n]],
         accountNext' = accountNext,
         sequenceNumber' \in Nat, sequenceNumber' <= accountNext
  PROVE  MoveInv'
  <1>1. /\ caller \in [Callers -> CallerSet] /\ accountNext \in Nat
        /\ sent \in [Callers -> [Iterations -> TxSet]]
    BY DEF MoveInv, CallsTyped
  <1>2. calls \in [Callers -> CallerSet]
    BY <1>1
  <1>3. \A d \in Callers : calls[d].failInfo < accountNext
    BY <1>1 DEF MoveInv, NumbersPassed
  <1>4. /\ sent' \in [Callers -> [Iterations -> TxSet]]
        /\ \A d \in Callers, i \in Iterations :
             \/ sent'[d][i] = sent[d][i]
             \/ d = c /\ sent'[d][i].state = "pending" /\ r.state # "ok"
    <2>1. CASE sent' = sent
      BY <1>1, <2>1
    <2>2. CASE sent' # sent
      <3>1. PICK n \in Nat : sent' = [sent EXCEPT ![c][caller[c].iteration] =
                                        [state |-> "pending", number |-> n]]
        BY <2>2
      <3>2. r.state # "ok"
        BY <2>2
      <3> DEFINE new == [state |-> "pending", number |-> n]
                 i == caller[c].iteration
      <3>3. new \in TxSet /\ new.state = "pending"
        BY DEF TxSet
      <3>4. i \in Iterations
        BY <1>1 DEF CallerSet
      <3>5. sent' = [sent EXCEPT ![c][i] = new]
        BY <3>1
      <3> HIDE DEF new, i
      <3>6. [sent[c] EXCEPT ![i] = new] \in [Iterations -> TxSet]
        BY <1>1, <3>3, <3>4
      <3> QED BY <1>1, <3>2, <3>3, <3>4, <3>5, <3>6
    <2> QED BY <2>1, <2>2
  <1>5. ASSUME NEW d \in Callers, calls[d].state = "ok"
        PROVE  /\ caller[d].state = "ok" \/ Tx(d).state = "committed"
               /\ \A i \in Iterations :
                    sent[d][i].state = "committed" => sent'[d][i].state = "committed"
    <2>1. CASE d = c
      BY <1>1, <1>4, <1>5, <2>1
    <2>2. CASE d # c
      BY <1>1, <1>4, <1>5, <2>2
    <2> QED BY <2>1, <2>2
  <1>6. accountNext' >= accountNext
    BY <1>1
  <1>7. \A d \in Callers : calls[d].failInfo < accountNext'
    BY <1>3
  <1>8. \A d \in Callers, i \in Iterations :
          \/ sent'[d][i] = sent[d][i]
          \/ sent'[d][i].state = "pending"
          \/ sent'[d][i].number < accountNext'
    BY <1>4
  <1>9. sequenceNumber' <= accountNext' /\ accountNext' \in Nat
    BY <1>1
  <1>10. sent' \in [Callers -> [Iterations -> TxSet]]
    BY <1>4
  <1> QED BY <1>2, <1>5, <1>6, <1>7, <1>8, <1>9, <1>10, CallsProgress

\* A call's record with another state.
LEMMA CallerWithState ==
  ASSUME MoveInv, NEW c \in Callers, NEW state \in CallerStates
  PROVE  /\ [caller[c] EXCEPT !.state = state] \in CallerSet
         /\ [caller[c] EXCEPT !.state = state].state = state
         /\ [caller[c] EXCEPT !.state = state].failInfo < accountNext
  <1>1. caller[c] \in CallerSet /\ caller[c].failInfo < accountNext
    BY DEF MoveInv, CallsTyped, NumbersPassed
  <1> QED BY <1>1 DEF CallerSet

\* What an iteration leaves behind.
LEMMA OutcomeRecord ==
  ASSUME MoveInv, NEW c \in Callers, NEW state \in CallerStates, NEW failInfo \in Nat
  PROVE  /\ Outcome(c, state, failInfo) \in CallerSet
         /\ Outcome(c, state, failInfo).state = state
         /\ Outcome(c, state, failInfo).failInfo = failInfo
  <1>1. caller[c] \in CallerSet
    BY DEF MoveInv, CallsTyped
  <1> QED BY <1>1 DEF CallerSet, Outcome

\* The loop's next turn, or its end.
LEMMA AfterIterationRecord ==
  ASSUME MoveInv, NEW c \in Callers
  PROVE  /\ AfterIteration(c) \in CallerSet
         /\ AfterIteration(c).state # "ok" /\ AfterIteration(c).failInfo = 0
  <1>1. caller[c] \in CallerSet
    BY DEF MoveInv, CallsTyped
  <1>2. caller[c].iteration \in Nat /\ MoveTxSendAttempts \in Nat
    BY <1>1, MoveAssumption DEF CallerSet, Iterations
  <1>3. CASE caller[c].iteration + 1 < MoveTxSendAttempts
    <2>1. caller[c].iteration + 1 \in Iterations
      BY <1>2, <1>3 DEF Iterations
    <2> QED BY <1>3, <2>1 DEF AfterIteration, CallerSet, CallerStates
  <1>4. CASE ~(caller[c].iteration + 1 < MoveTxSendAttempts)
    BY <1>1, <1>4 DEF AfterIteration, Outcome, CallerSet, CallerStates
  <1> QED BY <1>3, <1>4

\* The steps of a call keep the invariant.
LEMMA CallStep ==
  ASSUME MoveInv, NEW c \in Callers, Call(c) \/ CallerStep(c)
  PROVE  MoveInv'
  <1>1. /\ caller \in [Callers -> CallerSet]
        /\ sequenceNumber \in Nat /\ accountNext \in Nat \ {0}
        /\ sent \in [Callers -> [Iterations -> TxSet]]
        /\ sequenceNumber <= accountNext
    BY DEF MoveInv, CallsTyped, SequenceNumberReached
  <1>2. /\ Tx(c) \in TxSet
        /\ Tx(c).state \in {"committed", "aborted"} => Tx(c).number < accountNext
    BY <1>1 DEF Tx, CallerSet, MoveInv, NumbersPassed
  <1>3. \A state \in CallerStates :
          [caller EXCEPT ![c].state = state] = [caller EXCEPT ![c] = [caller[c] EXCEPT !.state = state]]
    BY <1>1
  <1>4. ASSUME NEW state \in CallerStates \ {"ok"},
               caller' = [caller EXCEPT ![c].state = state]
                 \/ caller' = Running([caller EXCEPT ![c].state = state]),
               UNCHANGED <<sequenceNumber, accountNext, sent>>
        PROVE  MoveInv'
    <2> DEFINE r == [caller[c] EXCEPT !.state = state]
    <2>1. r \in CallerSet /\ r.state # "ok" /\ r.failInfo < accountNext
      BY CallerWithState
    <2>2. caller' = [caller EXCEPT ![c] = r] \/ caller' = Running([caller EXCEPT ![c] = r])
      BY <1>3, <1>4
    <2> HIDE DEF r
    <2> QED BY <1>1, <1>4, <2>1, <2>2, CallerProgress
  <1>5. ASSUME NEW state \in CallerStates, NEW failInfo \in Nat, End(c, state, failInfo),
               failInfo < accountNext, state = "ok" => Tx(c).state = "committed",
               \/ sent' = sent
               \/ /\ state # "ok"
                  /\ \E n \in Nat : sent' = [sent EXCEPT ![c][caller[c].iteration] =
                                               [state |-> "pending", number |-> n]],
               accountNext' = accountNext,
               sequenceNumber' \in Nat, sequenceNumber' <= accountNext
        PROVE  MoveInv'
    <2> DEFINE r == Outcome(c, state, failInfo)
    <2>1. r \in CallerSet /\ r.state = state /\ r.failInfo = failInfo
      BY OutcomeRecord
    <2>2. caller' = Running([caller EXCEPT ![c] = r])
      BY <1>5 DEF End
    <2> HIDE DEF r
    <2> QED BY <1>5, <2>1, <2>2, CallerProgress
  <1>6. ASSUME caller' = [caller EXCEPT ![c] = AfterIteration(c)],
               UNCHANGED <<accountNext, sent>>,
               sequenceNumber' \in Nat, sequenceNumber' <= accountNext
        PROVE  MoveInv'
    <2>1. /\ AfterIteration(c) \in CallerSet
          /\ AfterIteration(c).state # "ok" /\ AfterIteration(c).failInfo < accountNext
      BY <1>1, AfterIterationRecord
    <2> QED BY <1>1, <1>6, <2>1, CallerProgress
  <1>7. ASSUME NEW n, Submitted(c, n), n \in Numbers(c)
        PROVE  n \in Nat /\ sent' = [sent EXCEPT ![c][caller[c].iteration] =
                                       [state |-> "pending", number |-> n]]
    BY <1>1, <1>7 DEF Submitted, Numbers, CallerSet
  <1>8. CASE Call(c)
    <2>1. PICK state \in {"refreshing", "enqueueing"} : To(c, state)
      BY <1>8 DEF Call
    <2> QED BY <1>4, <1>8, <2>1 DEF Call, To, CallerStates
  <1>9. CASE Refresh(c)
    <2>1. sequenceNumber' \in Nat /\ sequenceNumber' <= accountNext
      BY <1>1, <1>9 DEF Refresh
    <2>2. CASE At(c, "tooOld")
      BY <1>6, <1>9, <2>1, <2>2 DEF Refresh
    <2>3. CASE ~At(c, "tooOld")
      <3> DEFINE r == [caller[c] EXCEPT !.state = "enqueueing"]
      <3>1. r \in CallerSet /\ r.state # "ok" /\ r.failInfo < accountNext
        BY CallerWithState DEF CallerStates
      <3>2. caller' = [caller EXCEPT ![c] = r] /\ UNCHANGED <<accountNext, sent>>
        BY <1>1, <1>9, <2>3 DEF Refresh
      <3> HIDE DEF r
      <3> QED BY <2>1, <3>1, <3>2, CallerProgress
    <2> QED BY <2>2, <2>3
  <1>10. CASE FailToRefresh(c) \/ BeRefused(c)
    BY <1>4, <1>10 DEF FailToRefresh, BeRefused, To, CallerStates
  <1>11. CASE ProcessTransactionError(c)
    <2>1. caller[c].failInfo \in Nat /\ caller[c].failInfo < accountNext
      BY <1>1 DEF MoveInv, NumbersPassed, CallerSet
    <2>2. sequenceNumber' \in Nat /\ sequenceNumber' <= accountNext
      BY <1>1, <1>11, <2>1 DEF ProcessTransactionError, SetNextSequenceNumber
    <2> QED BY <1>6, <1>11, <2>2 DEF ProcessTransactionError
  <1>12. CASE Enqueue(c)
    BY <1>4, <1>12 DEF Enqueue, CallerStates
  <1>13. CASE Supersede(c)
    <2>1. /\ caller' = [d \in Callers |-> caller'[d]]
          /\ \A d \in Callers :
               \/ caller'[d] = [caller[d] EXCEPT !.state = "queued"]
               \/ caller'[d] = [caller[d] EXCEPT !.state = "superseded"]
               \/ caller'[d] = caller[d]
      BY <1>13 DEF Supersede
    <2>2. ASSUME NEW d \in Callers, NEW state \in {"queued", "superseded"}
          PROVE  /\ [caller[d] EXCEPT !.state = state] \in CallerSet
                 /\ [caller[d] EXCEPT !.state = state].failInfo < accountNext
                 /\ [caller[d] EXCEPT !.state = state].state = state
      <3>1. state \in CallerStates
        BY DEF CallerStates
      <3> QED BY <3>1, CallerWithState
    <2>3. ASSUME NEW d \in Callers
          PROVE  /\ caller'[d] \in CallerSet
                 /\ caller'[d].failInfo < accountNext
                 /\ caller'[d].state = "ok" => caller[d].state = "ok"
      <3>1. caller[d] \in CallerSet /\ caller[d].failInfo < accountNext
        BY <1>1 DEF MoveInv, NumbersPassed
      <3> QED BY <2>1, <2>2, <3>1
    <2>5. caller' \in [Callers -> CallerSet]
      BY <2>1, <2>3
    <2>4. UNCHANGED <<sequenceNumber, accountNext, sent>>
      BY <1>13 DEF Supersede
    <2> QED BY <1>1, <2>3, <2>4, <2>5, CallsProgress
  <1>14. CASE PrepareTransaction(c)
    <2> DEFINE n == IF caller[c].iteration > 0 THEN sequenceNumber ELSE 0
               r == [caller[c] EXCEPT !.state = "sending", !.number = n]
    <2>1. n \in Nat
      BY <1>1
    <2>2. caller' = [caller EXCEPT ![c] = r]
      BY <1>1, <1>14 DEF PrepareTransaction
    <2> HIDE DEF n
    <2>3. caller[c] \in CallerSet /\ caller[c].failInfo < accountNext
      BY <1>1 DEF MoveInv, NumbersPassed
    <2>4. r \in CallerSet /\ r.state # "ok" /\ r.failInfo < accountNext
      BY <2>1, <2>3 DEF CallerSet, CallerStates
    <2>5. UNCHANGED <<sequenceNumber, accountNext, sent>>
      BY <1>14 DEF PrepareTransaction
    <2> HIDE DEF r
    <2> QED BY <1>1, <2>2, <2>4, <2>5, CallerProgress
  <1>15. CASE Submit(c)
    <2> DEFINE r == [caller[c] EXCEPT !.state = "waiting"]
    <2>1. r \in CallerSet /\ r.state # "ok" /\ r.failInfo < accountNext
      BY CallerWithState DEF CallerStates
    <2>2. caller' = [caller EXCEPT ![c] = r] /\ UNCHANGED <<sequenceNumber, accountNext>>
      BY <1>1, <1>15 DEF Submit, To
    <2>3. \E n \in Nat : sent' = [sent EXCEPT ![c][caller[c].iteration] =
                                    [state |-> "pending", number |-> n]]
      BY <1>7, <1>15 DEF Submit
    <2> HIDE DEF r
    <2> QED BY <1>1, <2>1, <2>2, <2>3, CallerProgress
  <1>16. CASE FailTooOld(c)
    BY <1>1, <1>5, <1>16 DEF FailTooOld, CallerStates
  <1>17. CASE Fail(c)
    <2>1. \/ sent' = sent
          \/ \E n \in Nat : sent' = [sent EXCEPT ![c][caller[c].iteration] =
                                       [state |-> "pending", number |-> n]]
      BY <1>7, <1>17 DEF Fail
    <2> QED BY <1>1, <1>5, <1>17, <2>1 DEF Fail, CallerStates
  <1>18. CASE Resolve(c)
    <2>1. sequenceNumber' \in Nat /\ sequenceNumber' <= accountNext
      <3>1. Tx(c).number \in Nat /\ Tx(c).number < accountNext
        BY <1>2, <1>18 DEF Resolve, TxSet
      <3> QED BY <1>1, <1>18, <3>1 DEF Resolve, SetNextSequenceNumber
    <2> QED BY <1>1, <1>5, <1>18, <2>1 DEF Resolve, CallerStates
  <1>19. CASE FailInfo(c)
    <2>1. Tx(c).number \in Nat /\ Tx(c).number < accountNext
      BY <1>2, <1>19 DEF FailInfo, TxSet
    <2> QED BY <1>1, <1>5, <1>19, <2>1 DEF FailInfo, CallerStates
  <1> QED BY <1>8, <1>9, <1>10, <1>11, <1>12, <1>13, <1>14, <1>15, <1>16, <1>17, <1>18, <1>19
          DEF CallerStep

\* The steps of other managers and of the chain keep the invariant.
LEMMA OthersStep ==
  ASSUME MoveInv,
         \/ EnqueueOther \/ SettleOther \/ CommitOther
         \/ \E c \in Callers, i \in Iterations : Commit(c, i)
  PROVE  MoveInv'
  <1>1. /\ caller \in [Callers -> CallerSet]
        /\ sequenceNumber \in Nat /\ accountNext \in Nat \ {0}
        /\ sent \in [Callers -> [Iterations -> TxSet]]
        /\ sequenceNumber <= accountNext
        /\ \A c \in Callers : caller[c].failInfo \in Nat /\ caller[c].failInfo < accountNext
    BY DEF MoveInv, CallsTyped, SequenceNumberReached, NumbersPassed, CallerSet
  <1>2. CASE EnqueueOther \/ SettleOther
    <2>1. caller' = Running(caller) /\ UNCHANGED <<sequenceNumber, accountNext, sent>>
      BY <1>2 DEF EnqueueOther, SettleOther
    <2> QED BY <1>1, <2>1, CallsProgress
  <1>3. CASE CommitOther
    <2>1. UNCHANGED <<caller, sequenceNumber, sent>> /\ accountNext' = accountNext + 1
      BY <1>3 DEF CommitOther
    <2>2. \A c \in Callers : caller[c].failInfo < accountNext'
      BY <1>1, <2>1
    <2>3. accountNext' \in Nat /\ accountNext' >= accountNext /\ sequenceNumber <= accountNext'
      BY <1>1, <2>1
    <2> QED BY <1>1, <2>1, <2>2, <2>3, CallsProgress
  <1>4. ASSUME NEW c \in Callers, NEW i \in Iterations, Commit(c, i)
        PROVE  MoveInv'
    <2>1. PICK state \in {"committed", "aborted"} : sent' = [sent EXCEPT ![c][i].state = state]
      BY <1>4 DEF Commit
    <2>2. /\ UNCHANGED <<caller, sequenceNumber>> /\ accountNext' = accountNext + 1
          /\ sent[c][i].state = "pending" /\ sent[c][i].number = accountNext
      BY <1>4 DEF Commit
    <2> DEFINE new == [sent[c][i] EXCEPT !.state = state]
    <2>3. new \in TxSet /\ new.state = state /\ new.number = accountNext
      <3>1. sent[c][i] \in TxSet
        BY <1>1
      <3> QED BY <2>2, <3>1 DEF TxSet
    <2>4. sent' = [sent EXCEPT ![c][i] = new]
      BY <1>1, <2>1
    <2> HIDE DEF new
    <2>5. [sent[c] EXCEPT ![i] = new] \in [Iterations -> TxSet]
      BY <1>1, <2>3
    <2>6. /\ sent' \in [Callers -> [Iterations -> TxSet]]
          /\ \A d \in Callers, j \in Iterations :
               sent'[d][j] = sent[d][j] \/ (d = c /\ j = i /\ sent'[d][j] = new)
      BY <1>1, <2>3, <2>4, <2>5
    <2>7. accountNext' \in Nat /\ accountNext' >= accountNext /\ sequenceNumber <= accountNext'
      BY <1>1, <2>2
    <2>8. \A d \in Callers : caller[d].failInfo < accountNext'
      BY <1>1, <2>2
    <2>9. \A d \in Callers, j \in Iterations :
            /\ sent'[d][j] = sent[d][j] \/ sent'[d][j].number < accountNext'
            /\ sent[d][j].state = "committed" => sent'[d][j].state = "committed"
      BY <1>1, <2>2, <2>3, <2>6
    <2> QED BY <1>1, <2>2, <2>6, <2>7, <2>8, <2>9, CallsProgress
  <1> QED BY <1>2, <1>3, <1>4

\* Arrays: without the head, and with another entry at one place.
LEMMA ArrayTyped ==
  ASSUME NEW S, NEW q \in Seq(S)
  PROVE  /\ q # << >> => Head(q) \in S /\ Tail(q) \in Seq(S)
         /\ \A e \in S : Append(q, e) \in Seq(S)
         /\ \A k, e : e \in S => [q EXCEPT ![k] = e] \in Seq(S)
  <1>1. q # << >> => Head(q) \in S /\ Tail(q) \in Seq(S)
    OBVIOUS
  <1>2. \A e \in S : Append(q, e) \in Seq(S)
    OBVIOUS
  <1>3. ASSUME NEW k, NEW e, e \in S
        PROVE  [q EXCEPT ![k] = e] \in Seq(S)
    <2>1. q \in [1 .. Len(q) -> S] /\ Len(q) \in Nat
      OBVIOUS
    <2>2. [q EXCEPT ![k] = e] \in [1 .. Len(q) -> S]
      BY <1>3, <2>1
    <2> QED BY <2>1, <2>2, SeqDef
  <1> QED BY <1>1, <1>2, <1>3

\* The queue's part of a step keeps the queue's types: its operations are calls.
LEMMA QueueTyped ==
  ASSUME Q!TypeOK, MoveNext
  PROVE  Q!TypeOK'
  <1> USE DEF Q!TypeOK
  <1>1. ASSUME NEW q \in Seq(Q!Entry), NEW active \in SUBSET Identifiers,
               NEW waiting \in SUBSET Q!Entry,
               Q!ProcessNext(q, active, waiting),
               latest' \in [Identifiers -> Callers \cup {Other} \cup {NoCaller}]
        PROVE  Q!TypeOK'
    <2>1. CASE q = << >>
      BY <1>1, <2>1 DEF Q!ProcessNext
    <2>2. CASE q # << >>
      <3>1. Head(q) \in Q!Entry /\ Tail(q) \in Seq(Q!Entry) /\ Head(q).id \in Identifiers
        BY <2>2, ArrayTyped DEF Q!Entry
      <3> QED BY <1>1, <2>2, <3>1 DEF Q!ProcessNext
    <2> QED BY <2>1, <2>2
  <1>2. ASSUME NEW x \in Identifiers, NEW o \in Callers \cup {Other}, Q!Push(x, o, FALSE)
        PROVE  Q!TypeOK'
    <2> DEFINE entry == [id |-> x, operation |-> o]
    <2>1. entry \in Q!Entry
      BY DEF Q!Entry
    <2> HIDE DEF entry
    <2>2. Append(queue, entry) \in Seq(Q!Entry)
      BY <2>1, ArrayTyped
    <2>3. latest' \in [Identifiers -> Callers \cup {Other} \cup {NoCaller}]
      BY <1>2 DEF Q!Push
    <2>4. Q!ProcessQueue(Append(queue, entry))
      BY <1>2 DEF Q!Push, entry
    <2> QED BY <1>1, <2>2, <2>3, <2>4 DEF Q!ProcessQueue
  <1>3. ASSUME NEW x \in Identifiers, NEW o \in Callers \cup {Other}, Q!Replace(x, o)
        PROVE  Q!TypeOK'
    <2> DEFINE entry == [id |-> x, operation |-> o]
               k == Q!First(Q!Conforming(x))
    <2>1. entry \in Q!Entry
      BY DEF Q!Entry
    <2>2. queue' = [queue EXCEPT ![k] = entry]
      BY <1>3 DEF Q!Replace, Q!Purge
    <2> HIDE DEF entry, k
    <2>3. queue' \in Seq(Q!Entry)
      BY <2>1, <2>2, ArrayTyped
    <2> QED BY <1>3, <2>3 DEF Q!Replace
  <1>4. ASSUME NEW e \in awaited, Q!Settle(e)
        PROVE  Q!TypeOK'
    BY <1>1, <1>4 DEF Q!Settle
  <1>5. CASE UNCHANGED queueVars
    BY <1>5 DEF queueVars
  <1>6. OtherIdentifier \in Identifiers /\ \A c \in Callers : Identifier[c] \in Identifiers
    BY DEF Identifiers
  <1>7. ASSUME NEW c \in Callers, Call(c) \/ CallerStep(c)
        PROVE  Q!TypeOK'
    <2>1. \/ UNCHANGED queueVars
          \/ Q!Push(Identifier[c], c, FALSE) \/ Q!Replace(Identifier[c], c)
          \/ Q!Refuse(Identifier[c], FALSE)
          \/ \E e \in awaited : Q!Settle(e)
      BY <1>7 DEF Call, CallerStep, Refresh, FailToRefresh, ProcessTransactionError, Enqueue,
           Supersede, BeRefused, PrepareTransaction, Submit, FailTooOld, Fail, Resolve, FailInfo, End
    <2>2. CASE Q!Refuse(Identifier[c], FALSE)
      BY <1>5, <2>2 DEF Q!Refuse, Q!vars, queueVars
    <2> QED BY <1>2, <1>3, <1>4, <1>5, <1>6, <2>1, <2>2
  <1>8. CASE EnqueueOther \/ SettleOther
    BY <1>2, <1>4, <1>6, <1>8 DEF EnqueueOther, SettleOther
  <1>9. CASE CommitOther \/ \E c \in Callers, i \in Iterations : Commit(c, i)
    BY <1>5, <1>9 DEF CommitOther, Commit
  <1> QED BY <1>7, <1>8, <1>9 DEF MoveNext

-----------------------------------------------------------------------------
(* The theorems                                                            *)

DeliveriesInv == DeliveryInv /\ MoveInv /\ Q!TypeOK

\* The invariant holds in every state.
LEMMA Invariant == Spec => []DeliveriesInv
  <1>1. Init => DeliveriesInv
    <2> SUFFICES ASSUME Init PROVE DeliveriesInv
      OBVIOUS
    <2>1. DeliveryInv
      BY DeliveryInitially DEF Init
    <2>2. Q!TypeOK
      <3>1. /\ queue = << >> /\ isProcessing = FALSE /\ activeOperations = {} /\ awaited = {}
            /\ latest = [x \in Identifiers |-> NoCaller]
        BY DEF Init, MoveInit, Q!Init
      <3>2. queue \in Seq(Q!Entry)
        BY <3>1, EmptySeq
      <3>3. latest \in [Identifiers -> Callers \cup {Other} \cup {NoCaller}]
        BY <3>1
      <3> QED BY <3>1, <3>2, <3>3 DEF Q!TypeOK
    <2>3. 0 \in Iterations
      BY MoveAssumption DEF Iterations
    <2>4. CallsTyped
      BY <2>3 DEF Init, MoveInit, CallsTyped, CallerSet, CallerStates, TxSet
    <2>5. NumbersPassed /\ SequenceNumberReached /\ ResolvedMeansCommitted
      BY DEF Init, MoveInit, NumbersPassed, SequenceNumberReached, ResolvedMeansCommitted, At
    <2> QED BY <2>1, <2>2, <2>4, <2>5 DEF DeliveriesInv, MoveInv
  <1>2. DeliveriesInv /\ [Next]_vars => DeliveriesInv'
    <2> SUFFICES ASSUME DeliveriesInv, [Next]_vars PROVE DeliveriesInv'
      OBVIOUS
    <2>1. ASSUME UNCHANGED moveVars PROVE MoveInv' /\ Q!TypeOK'
      BY <2>1 DEF DeliveriesInv, moveVars, queueVars, MoveInv, CallsTyped, NumbersPassed,
           SequenceNumberReached, ResolvedMeansCommitted, At, Q!TypeOK
    <2>2. ASSUME UNCHANGED deliveryVars PROVE DeliveryInv'
      BY <2>2, AdvanceProgress, ProgressKeepsInv DEF DeliveriesInv
    <2>3. CASE DeliveryNext /\ UNCHANGED moveVars
      BY <2>1, <2>3, DeliveryStep DEF DeliveriesInv
    <2>4. CASE MoveNext /\ UNCHANGED deliveryVars
      BY <2>2, <2>4, CallStep, OthersStep, QueueTyped DEF DeliveriesInv, MoveNext
    <2>5. CASE UNCHANGED vars
      BY <2>1, <2>2, <2>5 DEF vars, DeliveriesInv
    <2> QED BY <2>3, <2>4, <2>5 DEF Next
  <1> QED BY <1>1, <1>2, PTL DEF Spec

\* Types; and whatever is waited for can happen, in any schedule of attempts, timeouts,
\* lost answers and transactions from elsewhere: the hash an update of Stellar shares is
\* of a transaction the network took, and Move's manager never sends with a number the
\* account has not reached.
THEOREM TypeCorrect == Spec => []TypeOK
  <1>1. DeliveriesInv => TypeOK
    BY DEF DeliveriesInv, DeliveryInv, MoveInv, CallsTyped, CallerSet, TxSet, TypeOK, MoveTypeOK
  <1> QED BY <1>1, Invariant, PTL

\* What TxDeliveryMan, Jito's bundle and Move's manager report as delivered is on chain
\* by a transaction of its own, if an update of Stellar takes one transaction.
THEOREM DeliveredIsWritten ==
  ASSUME SingleBatch
  PROVE  Spec => []DeliveredMeansWritten
  <1>1. DeliveriesInv => DeliveredMeansWritten
    BY DEF DeliveriesInv, DeliveryInv, MoveInv, DeliveredMeansWritten
  <1> QED BY <1>1, Invariant, PTL
=============================================================================
