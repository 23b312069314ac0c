-------------------------- MODULE RequestCollector --------------------------
(***************************************************************************)
(* utils/src/Collector/RequestCollector.ts and CollectorRegistry.ts: calls  *)
(* of collectMany that come within a short interval are fetched together,   *)
(* and a key that is already being fetched is not fetched again.            *)
(*                                                                         *)
(* An action is a stretch of code between two awaits.  A collectMany call   *)
(* of caller c waits for register calls (the promises of registerCall);     *)
(* a register call waits for the consume call (consumeWaitingEntries) that   *)
(* took its entry.  The remote answers a key with the key itself, so that a *)
(* misplaced answer shows.                                                  *)
(***************************************************************************)
EXTENDS Subsequences, SequencesExt

CONSTANTS
  Keys, KeyLists,     \* keys, and the lists of keys the callers ask for
  Callers,            \* concurrent users of the collector
  Calls, Consumes,    \* bounds: register calls and consume calls alive at a time
  MaxBatchSize,       \* maxBatchSize
  HasFetchSingle,     \* does the subclass define fetchSingle?
  RetiresOnIdle,      \* does onIdle delete the collector from its registry?
  MayDispose,         \* may the owner call disposeAll?
  None

ASSUME BoundsAssumption ==
  /\ KeyLists \subseteq Seq(Keys) \ {<< >>}
  /\ Calls \subseteq Nat /\ IsFiniteSet(Calls)
  /\ Consumes \subseteq Nat /\ IsFiniteSet(Consumes)
  /\ None \notin Calls \cup Consumes \cup [call : Calls, index : Nat]
  /\ MaxBatchSize \in Nat \ {0}
  /\ {HasFetchSingle, RetiresOnIdle, MayDispose} \subseteq BOOLEAN

VARIABLES
  pending,               \* pending[k]: the register call that fetches k, and k's index
  waitingEntries,        \* register calls pushed and not consumed
  timer,                 \* is the timer set?
  batchSupported,
  activeRegisterCalls, activeConsumeCalls,
  call,                  \* register calls
  consume,               \* consume calls
  caller,                \* collectMany calls
  disposed               \* dispose() was called by the owner

collectorVars == <<pending, waitingEntries, timer, batchSupported, activeRegisterCalls,
                   activeConsumeCalls, call, consume, caller, disposed>>

FreeCall == [state |-> "free", keys |-> << >>, results |-> << >>, flush |-> None]
NewCall(state, keys, flush) ==
  [state |-> state, keys |-> keys, results |-> << >>, flush |-> flush]
NoConsume == [entries |-> << >>, chunks |-> << >>]
IdleCaller == [keys |-> << >>, via |-> << >>, own |-> None]

\* draining: awaits the flush of a full batch; drained: that flush has ended;
\* waiting: in waitingEntries; consumed: its keys are being fetched; resolved and
\* rejected: the entry is settled, its finally is still to run; fulfilled, failed: done.
CallStates == {"free", "draining", "drained", "waiting", "consumed",
               "resolved", "rejected", "fulfilled", "failed"}
Active == {"draining", "drained", "waiting", "consumed", "resolved", "rejected"}

CollectorTypeOK ==
  /\ pending \in [Keys -> {None} \cup [call : Calls, index : Nat]]
  /\ waitingEntries \in Seq(Calls)
  /\ {timer, batchSupported, disposed} \subseteq BOOLEAN
  /\ activeRegisterCalls \in Nat /\ activeConsumeCalls \in Nat
  /\ call \in [Calls -> [state : CallStates, keys : Seq(Keys), results : Seq(Keys),
                        flush : Consumes \cup {None}]]
  /\ consume \in [Consumes -> [entries : Seq(Calls), chunks : Seq({"batch", "singles", "done"})]]
  /\ caller \in [Callers -> [keys : Seq(Keys),
                             via : Seq([call : Calls, index : Nat]),
                             own : Calls \cup {None}]]

CollectorInit ==
  /\ pending = [k \in Keys |-> None]
  /\ waitingEntries = << >>
  /\ timer = FALSE
  /\ batchSupported = TRUE
  /\ activeRegisterCalls = 0 /\ activeConsumeCalls = 0
  /\ call = [r \in Calls |-> FreeCall]
  /\ consume = [s \in Consumes |-> NoConsume]
  /\ caller = [c \in Callers |-> IdleCaller]
  /\ disposed = FALSE

-----------------------------------------------------------------------------
KeysOf(entries, cs) == FlattenSeq([n \in DOMAIN entries |-> cs[entries[n]].keys])

\* A register call nobody can reach any more.
Garbage(r, cs, callers, pend) ==
  /\ cs[r].state \in {"fulfilled", "failed"}
  /\ \A c \in Callers : \A n \in DOMAIN callers[c].via : callers[c].via[n].call # r
  /\ \A k \in Keys : pend[k] # None => pend[k].call # r

Swept(cs, callers, pend) ==
  [r \in Calls |-> IF Garbage(r, cs, callers, pend) THEN FreeCall ELSE cs[r]]

\* fetchChunk of the n-th chunk: how it starts.
ChunkCount(keys) == (Len(keys) + MaxBatchSize - 1) \div MaxBatchSize
ChunkSize(keys, n) ==
  IF n < ChunkCount(keys) THEN MaxBatchSize ELSE Len(keys) - (n - 1) * MaxBatchSize
ChunkStart(keys, n) ==
  IF HasFetchSingle /\ (ChunkSize(keys, n) = 1 \/ ~batchSupported)
  THEN "singles" ELSE "batch"

FreeConsumes == {s \in Consumes : consume[s] = NoConsume}
NextConsume == CHOOSE s \in FreeConsumes : \A t \in FreeConsumes : s <= t

\* consumeWaitingEntries up to its await, on the register calls cs.
Consumed(s, cs) ==
  LET keys == KeysOf(waitingEntries, cs)
  IN  [consume EXCEPT ![s] =
        [entries |-> waitingEntries,
         chunks  |-> [n \in 1 .. ChunkCount(keys) |-> ChunkStart(keys, n)]]]

WithState(cs, rs, state) ==
  [r \in Calls |-> IF r \in rs THEN [cs[r] EXCEPT !.state = state] ELSE cs[r]]

\* maybeFireOnIdle, after the step set the counters to registers and consumes.
\* The registry then deletes the collector; the next call finds a new one.
FiresOnIdle(registers, consumes, waiting) ==
  RetiresOnIdle /\ registers = 0 /\ consumes = 0 /\ waiting = << >>

AfterIdle(registers, consumes, waiting, pend) ==
  /\ pending' = IF FiresOnIdle(registers, consumes, waiting)
                THEN [k \in Keys |-> None] ELSE pend
  /\ batchSupported' = (batchSupported \/ FiresOnIdle(registers, consumes, waiting))

-----------------------------------------------------------------------------
\* collectMany: registerCall for the keys not pending, then wait for all.
Remaining(keys) == Keep(keys, {n \in DOMAIN keys : pending[keys[n]] = None})

\* Would the keys overflow the batch that is waiting?
Overflows(keys) ==
  LET waitingKeysCount == Len(KeysOf(waitingEntries, call))
  IN  waitingKeysCount > 0 /\ Len(keys) + waitingKeysCount > MaxBatchSize

\* pending after forEach: a repeated key keeps its last index.
PendingWith(keys, r) ==
  [k \in Keys |->
     IF \E n \in DOMAIN keys : keys[n] = k
     THEN [call |-> r, index |-> CHOOSE n \in DOMAIN keys :
             keys[n] = k /\ \A m \in DOMAIN keys : keys[m] = k => m <= n]
     ELSE pending[k]]

Waits(c, keys, pend, own) ==
  caller' = [caller EXCEPT ![c] =
    [keys |-> keys, via |-> [n \in DOMAIN keys |-> pend[keys[n]]], own |-> own]]

Idle(c) == caller[c] = IdleCaller

\* Every key is on its way already.
CollectPending(c, keys) ==
  /\ Idle(c) /\ ~disposed
  /\ Remaining(keys) = << >>
  /\ Waits(c, keys, pending, None)
  /\ UNCHANGED <<pending, waitingEntries, timer, batchSupported, activeRegisterCalls,
                 activeConsumeCalls, call, consume, disposed>>

FreeCalls == {r \in Calls : call[r].state = "free"}
NextCall == CHOOSE r \in FreeCalls : \A q \in FreeCalls : r <= q

\* registerCall without overflow: push the entry, arm the timer (??=).
CollectRegistering(c, keys) ==
  LET rest == Remaining(keys)
      r    == NextCall
  IN  /\ Idle(c) /\ ~disposed
      /\ rest # << >> /\ FreeCalls # {}
      /\ ~Overflows(rest)
      /\ call' = [call EXCEPT ![r] = NewCall("waiting", rest, None)]
      /\ waitingEntries' = Append(waitingEntries, r)
      /\ timer' = TRUE
      /\ activeRegisterCalls' = activeRegisterCalls + 1
      /\ pending' = PendingWith(rest, r)
      /\ Waits(c, keys, PendingWith(rest, r), r)
      /\ UNCHANGED <<batchSupported, activeConsumeCalls, consume, disposed>>

\* registerCall with overflow: the waiting entries are consumed at once and the
\* call awaits the end of that flush before it pushes its own entry.
CollectFlushing(c, keys) ==
  LET rest == Remaining(keys)
      r    == NextCall
  IN  /\ Idle(c) /\ ~disposed
      /\ rest # << >> /\ FreeCalls # {}
      /\ Overflows(rest)
      /\ FreeConsumes # {}
      /\ consume' = Consumed(NextConsume, call)
      /\ call' = [WithState(call, Range(waitingEntries), "consumed") EXCEPT ![r] =
                    NewCall("draining", rest, NextConsume)]
      /\ waitingEntries' = << >>
      /\ timer' = FALSE
      /\ activeRegisterCalls' = activeRegisterCalls + 1
      /\ activeConsumeCalls' = activeConsumeCalls + 1
      /\ pending' = PendingWith(rest, r)
      /\ Waits(c, keys, PendingWith(rest, r), r)
      /\ UNCHANGED <<batchSupported, disposed>>

-----------------------------------------------------------------------------
\* Continuations that are ready run before the next timer or network callback.
States(c) == {call[caller[c].via[n].call].state : n \in DOMAIN caller[c].via}
MaySettle(c) == ~Idle(c) /\ ("failed" \in States(c) \/ States(c) = {"fulfilled"})

ContinuationsDone ==
  /\ \A r \in Calls : call[r].state \notin {"drained", "resolved", "rejected"}
  /\ \A c \in Callers : ~MaySettle(c)

\* The timer fires: consumeWaitingEntries up to its await.
TimerFires ==
  /\ timer /\ ContinuationsDone
  /\ FreeConsumes # {}
  /\ consume' = Consumed(NextConsume, call)
  /\ call' = WithState(call, Range(waitingEntries), "consumed")
  /\ waitingEntries' = << >>
  /\ timer' = FALSE
  /\ activeConsumeCalls' = activeConsumeCalls + 1
  /\ UNCHANGED <<pending, batchSupported, activeRegisterCalls, caller, disposed>>

\* Mutant of RegisterPushes: the entry is pushed and no timer is set for it.
RegisterPushesNoTimer(r) ==
  /\ call[r].state = "drained"
  /\ call' = [call EXCEPT ![r].state = "waiting"]
  /\ waitingEntries' = Append(waitingEntries, r)
  /\ UNCHANGED <<pending, timer, batchSupported, activeRegisterCalls,
                 activeConsumeCalls, consume, caller, disposed>>

\* registerCall after the flush it awaited: push, with no second look at the size.
RegisterPushes(r) ==
  /\ call[r].state = "drained"
  /\ call' = [call EXCEPT ![r].state = "waiting"]
  /\ waitingEntries' = Append(waitingEntries, r)
  /\ timer' = TRUE
  /\ UNCHANGED <<pending, batchSupported, activeRegisterCalls, activeConsumeCalls,
                 consume, caller, disposed>>

\* Mutant of Slice: the offset of the entry is left out.
SliceNoOffset(entries, n, all) == SubSeq(all, 1, Len(call[entries[n]].keys))

\* The consume call s has its answers: its entries are resolved, each with its
\* slice of all the results in order, or all rejected; a register call that
\* awaited the flush may go on.
Slice(entries, n, all) ==
  LET offset == Len(KeysOf(SubSeq(entries, 1, n - 1), call))
  IN  SubSeq(all, offset + 1, offset + Len(call[entries[n]].keys))

Settled(s, success) ==
  LET entries == consume[s].entries
      all     == KeysOf(entries, call)
      Position(r) == CHOOSE n \in DOMAIN entries : entries[n] = r
  IN  [r \in Calls |->
         CASE r \in Range(entries) ->
                IF success
                THEN [call[r] EXCEPT !.state = "resolved",
                                     !.results = Slice(entries, Position(r), all)]
                ELSE [call[r] EXCEPT !.state = "rejected"]
           [] call[r].state = "draining" /\ call[r].flush = s ->
                [call[r] EXCEPT !.state = "drained", !.flush = None]
           [] OTHER -> call[r]]

\* The record of a consume call whose chunks are now cs; one that is over matters
\* only while a chunk of it may still find that batches are not supported.
ConsumeWith(s, entries, cs) ==
  [consume EXCEPT ![s] =
     IF entries = << >> /\ ~(HasFetchSingle /\ "batch" \in Range(cs)) THEN NoConsume
     ELSE [entries |-> entries, chunks |-> cs]]

Running(s) == consume[s].entries # << >>

ConsumeEnds(s, cs, success) ==
  /\ call' = Settled(s, success)
  /\ consume' = ConsumeWith(s, << >>, cs)
  /\ activeConsumeCalls' = activeConsumeCalls - 1
  /\ AfterIdle(activeRegisterCalls, activeConsumeCalls - 1, waitingEntries, pending)

\* A chunk is answered; the last one ends the consume call.
ChunkFetched(s, n) ==
  LET cs == [consume[s].chunks EXCEPT ![n] = "done"]
  IN  /\ consume[s].chunks[n] # "done" /\ ContinuationsDone
      /\ IF Running(s) /\ Range(cs) = {"done"}
         THEN ConsumeEnds(s, cs, TRUE)
         ELSE /\ consume' = ConsumeWith(s, consume[s].entries, cs)
              /\ UNCHANGED <<call, activeConsumeCalls, pending, batchSupported>>
      /\ UNCHANGED <<waitingEntries, timer, activeRegisterCalls, caller, disposed>>

\* A chunk fails: Promise.all rejects on the first one, the others run on.  It may
\* fail at once (a delegate that is gone), before other continuations.
ChunkFails(s, n) ==
  LET cs == [consume[s].chunks EXCEPT ![n] = "done"]
  IN  /\ consume[s].chunks[n] # "done"
      /\ IF Running(s)
         THEN ConsumeEnds(s, cs, FALSE)
         ELSE /\ consume' = ConsumeWith(s, << >>, cs)
              /\ UNCHANGED <<call, activeConsumeCalls, pending, batchSupported>>
      /\ UNCHANGED <<waitingEntries, timer, activeRegisterCalls, caller, disposed>>

\* fetchBatch says batches are not supported: the chunk falls back to fetchSingle
\* and so do all later ones.
ChunkUnsupported(s, n) ==
  /\ HasFetchSingle
  /\ consume[s].chunks[n] = "batch" /\ ContinuationsDone
  /\ batchSupported' = FALSE
  /\ consume' = [consume EXCEPT ![s].chunks[n] = "singles"]
  /\ UNCHANGED <<pending, waitingEntries, timer, activeRegisterCalls,
                 activeConsumeCalls, call, caller, disposed>>

\* Mutant of RegisterReturns: a rejected call is not counted out.
RegisterReturnsNoFinally(r) ==
  LET left == IF call[r].state = "resolved" THEN 1 ELSE 0
  IN  /\ call[r].state \in {"resolved", "rejected"}
      /\ activeRegisterCalls' = activeRegisterCalls - left
      /\ AfterIdle(activeRegisterCalls - left, activeConsumeCalls, waitingEntries, pending)
      /\ call' = Swept([call EXCEPT ![r].state = IF left = 1 THEN "fulfilled" ELSE "failed"],
                       caller, pending')
      /\ UNCHANGED <<waitingEntries, timer, activeConsumeCalls, consume, caller, disposed>>

\* Mutant of RegisterReturns: the call is counted out twice.
RegisterReturnsTwice(r) ==
  /\ call[r].state \in {"resolved", "rejected"}
  /\ activeRegisterCalls' = activeRegisterCalls - 2
  /\ AfterIdle(activeRegisterCalls - 2, activeConsumeCalls, waitingEntries, pending)
  /\ call' = Swept([call EXCEPT ![r].state =
                     IF call[r].state = "resolved" THEN "fulfilled" ELSE "failed"],
                   caller, pending')
  /\ UNCHANGED <<waitingEntries, timer, activeConsumeCalls, consume, caller, disposed>>

\* registerCall's finally, once its entry is settled.
RegisterReturns(r) ==
  /\ call[r].state \in {"resolved", "rejected"}
  /\ activeRegisterCalls' = activeRegisterCalls - 1
  /\ AfterIdle(activeRegisterCalls - 1, activeConsumeCalls, waitingEntries, pending)
  /\ call' = Swept([call EXCEPT ![r].state =
                     IF call[r].state = "resolved" THEN "fulfilled" ELSE "failed"],
                   caller, pending')
  /\ UNCHANGED <<waitingEntries, timer, activeConsumeCalls, consume, caller, disposed>>

\* collectMany's Promise.all settles; the finally forgets the keys of its own
\* register call, and of no other.
Forgetting(own) ==
  [k \in Keys |-> IF pending[k] # None /\ pending[k].call = own
                  THEN None ELSE pending[k]]

\* Mutant of CallerSettles: pending is cleaned up only on success.
CallerSettlesNoFinally(c) ==
  /\ MaySettle(c)
  /\ pending' = IF States(c) = {"fulfilled"} THEN Forgetting(caller[c].own) ELSE pending
  /\ caller' = [caller EXCEPT ![c] = IdleCaller]
  /\ call' = Swept(call, caller', pending')
  /\ UNCHANGED <<waitingEntries, timer, batchSupported, activeRegisterCalls,
                 activeConsumeCalls, consume, disposed>>

CallerSettles(c) ==
  /\ MaySettle(c)
  /\ pending' = Forgetting(caller[c].own)
  /\ caller' = [caller EXCEPT ![c] = IdleCaller]
  /\ call' = Swept(call, caller', pending')
  /\ UNCHANGED <<waitingEntries, timer, batchSupported, activeRegisterCalls,
                 activeConsumeCalls, consume, disposed>>

\* dispose, called by the owner through disposeAll.
Dispose ==
  /\ MayDispose /\ ~disposed
  /\ timer' = FALSE
  /\ call' = WithState(call, Range(waitingEntries), "rejected")
  /\ waitingEntries' = << >>
  /\ pending' = [k \in Keys |-> None]
  /\ disposed' = TRUE
  /\ UNCHANGED <<batchSupported, activeRegisterCalls, activeConsumeCalls, consume, caller>>

\* CollectorRegistry.get after disposeAll, once the old collector has wound up.
NewCollector ==
  /\ disposed
  /\ \A c \in Callers : Idle(c)
  /\ \A r \in Calls : call[r] = FreeCall
  /\ \A s \in Consumes : consume[s] = NoConsume
  /\ disposed' = FALSE
  /\ batchSupported' = TRUE
  /\ UNCHANGED <<pending, waitingEntries, timer, activeRegisterCalls,
                 activeConsumeCalls, call, consume, caller>>

Collect(c) ==
  \E keys \in KeyLists :
    CollectPending(c, keys) \/ CollectRegistering(c, keys) \/ CollectFlushing(c, keys)

ChunkSettles(s, n) == ChunkFetched(s, n) \/ ChunkFails(s, n)

CollectorNext ==
  \/ \E c \in Callers : Collect(c) \/ CallerSettles(c)
  \/ TimerFires
  \/ \E r \in Calls : RegisterPushes(r) \/ RegisterReturns(r)
  \/ \E s \in Consumes : \E n \in DOMAIN consume[s].chunks :
       ChunkSettles(s, n) \/ ChunkUnsupported(s, n)
  \/ Dispose
  \/ NewCollector

\* Continuations run; every fetch settles one way or the other; the event loop gets
\* its turn (strong fairness: callers do not spin on answers that are at hand, which
\* would keep timers and network callbacks away for ever).  Nobody has to call.
CollectorFairness ==
  /\ SF_collectorVars(TimerFires)
  /\ \A r \in Calls : WF_collectorVars(RegisterPushes(r) \/ RegisterReturns(r))
  /\ \A c \in Callers : WF_collectorVars(CallerSettles(c))
  /\ \A s \in Consumes :
       SF_collectorVars(\E n \in DOMAIN consume[s].chunks : ChunkSettles(s, n))

CollectorSpec == CollectorInit /\ [][CollectorNext]_collectorVars /\ CollectorFairness

-----------------------------------------------------------------------------
\* Nothing is left waiting: the timer is set exactly while entries wait, and pending
\* only holds keys whose owner's collectMany is still in progress, so that it cannot
\* answer for a key for ever.
NothingForgotten ==
  /\ timer <=> waitingEntries # << >>
  /\ \A k \in Keys : pending[k] # None =>
       \E c \in Callers : caller[c].own = pending[k].call

\* Across batching, chunking, slicing and the index kept in pending, each caller
\* is answered, position by position, about the keys it asked for.
AnswersMatch ==
  /\ \A r \in Calls :
       call[r].state \in {"resolved", "fulfilled"} => call[r].results = call[r].keys
  /\ \A c \in Callers : \A n \in DOMAIN caller[c].via :
       LET via == caller[c].via[n]
       IN  /\ via.index \in DOMAIN call[via.call].keys
           /\ call[via.call].keys[via.index] = caller[c].keys[n]

\* What is in progress is known: the counters that decide onIdle count it in every
\* interleaving of flushes and register calls, and a key is not fetched twice at a time
\* for two callers that both still wait.
FetchesAccounted ==
  /\ activeRegisterCalls = Cardinality({r \in Calls : call[r].state \in Active})
  /\ activeConsumeCalls = Cardinality({s \in Consumes : Running(s)})
  /\ ~disposed =>
       \A c, d \in Callers :
         c # d /\ caller[c].own # None /\ caller[d].own # None
           /\ call[caller[c].own].state \in Active /\ call[caller[d].own].state \in Active
         => Range(call[caller[c].own].keys) \cap Range(call[caller[d].own].keys) = {}

\* Every collectMany settles: through overflow, failure, fallback and dispose.
EveryCallerAnswered == \A c \in Callers : ~Idle(c) ~> Idle(c)
=============================================================================
