------------------------ MODULE DataPackagesRequest ------------------------
(***************************************************************************)
(* sdk/src: requestDataPackages (request-data-packages.ts) over the fetches *)
(* that concurrent requests share (fetch-data-packages.ts) and the storage. *)
(*                                                                         *)
(* Callers pass the same gateways and the same storage. A gateway's answer, *)
(* or its timeout, is a task of its own, so what follows from it, up to the *)
(* callers' results, is one step.                                           *)
(***************************************************************************)
EXTENDS DataPackagesResponses

CONSTANTS
  Callers,
  Gateways, FirstGateway,   \* authenticatedGateways, and the one listed first
  Requests,                 \* the parameters of the callers
  MaxTime,                  \* the bound on the clock
  Served                    \* Served[key][time]: what a gateway may answer

VARIABLES
  caller,     \* each caller's request and how it stands
  fetch,      \* pendingPromises: the running fetch of each key
  storage,    \* timestamp -> [response, params]
  now         \* Date.now()

vars == <<caller, fetch, storage, now>>

\* The key of fetchDataPackagesDedup: the gateways are the same for all.
Key(p) == <<p.feeds, p.at>>

Keys == {Key(p) : p \in Requests}

ASSUME RequestAssumption ==
  /\ Requests \subseteq ParamsType
  /\ \A p \in Requests :
       /\ p.all = (p.feeds = {})
       /\ p.signers # {}
  /\ \A key \in Keys, t \in 1 .. MaxTime : \A r \in Served[key][t] : IsResponse(r)
  /\ FirstGateway \in Gateways /\ IsFiniteSet(Gateways)
  /\ MaxTime \in Nat \ {0}

Statuses == {"idle", "waiting", "answered", "rejected"}

IsFetch(f) ==
  /\ f.params \in ParamsType /\ f.callers \in (SUBSET Callers) \ {{}}
  /\ f.targets \in (SUBSET Gateways) \ {{}} /\ f.rest \subseteq Gateways \ f.targets
  /\ f.pending \subseteq f.targets /\ f.pending # {}
  /\ \A i \in DOMAIN f.collected : IsResponse(f.collected[i])
  /\ f.failed \subseteq Gateways /\ f.failed \cap f.pending = {}
  /\ Len(f.collected) + Cardinality(f.failed \cap f.targets) + Cardinality(f.pending)
       = Cardinality(f.targets)
  /\ f.timedOut \in BOOLEAN
  /\ f.timedOut => f.collected = <<>>

\* The conjuncts of a fetch say what it still waits for: an answer of a gateway, and,
\* once it has waited long enough for all of them, the first answer it accepts.
TypeOK ==
  /\ \A c \in Callers :
       /\ caller[c].status \in Statuses
       /\ caller[c].status # "idle" => caller[c].params \in Requests
       /\ caller[c].status = "answered" => IsResponse(caller[c].answer)
       /\ caller[c].status = "waiting" <=>
            \E key \in DOMAIN fetch : c \in fetch[key].callers
  /\ \A key \in DOMAIN fetch : key \in Keys /\ IsFetch(fetch[key])
  /\ \A t \in DOMAIN storage :
       /\ IsResponse(storage[t].response) /\ ~IsEmpty(storage[t].response)
       /\ storage[t].params \in ParamsType
  /\ now \in 1 .. MaxTime

Init ==
  /\ caller = [c \in Callers |-> [status |-> "idle"]]
  /\ fetch = [key \in {} |-> None]
  /\ storage = [t \in {} |-> None]
  /\ now = 1

-----------------------------------------------------------------------------

\* getTheMostRecentDataPackages over the given targets. With a timestamp in the past
\* the first response is taken.
Stage(p, callers, targets, rest, failed) ==
  [params |-> p, callers |-> callers, targets |-> targets, rest |-> rest,
   pending |-> targets, failed |-> failed, collected |-> <<>>,
   timedOut |-> p.at > 0]

\* Mutant of FirstStage: the other gateways are never asked.
FirstStageOnly(p, c) ==
  Stage(p, {c}, IF p.staged THEN {FirstGateway} ELSE Gateways, {}, {})

\* fetchStaged: the first gateway alone, unless that is disabled or it is the only one.
FirstStage(p, c) ==
  IF p.staged
  THEN Stage(p, {c}, {FirstGateway}, Gateways \ {FirstGateway}, {})
  ELSE Stage(p, {c}, Gateways, {}, {})

\* fetchDataPackagesDedup: join the pending fetch of the key, or start it. What the
\* fetch does follows the parameters of the caller that started it.
Join(c, p) ==
  fetch' = [key \in DOMAIN fetch \cup {Key(p)} |->
              IF key # Key(p) THEN fetch[key]
              ELSE IF key \in DOMAIN fetch THEN [fetch[key] EXCEPT !.callers = @ \cup {c}]
              ELSE FirstStage(p, c)]

\* Mutant of Result: the response is trusted to have been filtered.
ResultUnfiltered(p, r) ==
  [status |-> "answered", params |-> p,
   answer |-> Restrict(r, Requested(p, r) \cap DOMAIN r)]

\* The outcome of a request that has its response r.
Result(p, r) ==
  IF Accepts(p, r, now)
  THEN [status |-> "answered", params |-> p, answer |-> Selected(p, r, now)]
  ELSE [status |-> "rejected", params |-> p]

Waiting(p) == [status |-> "waiting", params |-> p]

\* requestDataPackages: from the storage when its response passes the filter.
RequestStored(c, p) ==
  LET kept == Purged(storage, now)
      cached == StorageGet(kept, p, now)
  IN /\ p.stored
     /\ storage' = kept
     /\ \/ /\ cached # None /\ Accepts(p, cached, now)
           /\ caller' = [caller EXCEPT ![c] = Result(p, cached)]
           /\ UNCHANGED fetch
        \/ /\ cached # None /\ ~Accepts(p, cached, now)
           /\ Join(c, [p EXCEPT !.stored = FALSE])
           /\ caller' = [caller EXCEPT ![c] = Waiting(p)]
        \/ /\ cached = None
           /\ Join(c, p)
           /\ caller' = [caller EXCEPT ![c] = Waiting(p)]

RequestFetched(c, p) ==
  /\ ~p.stored
  /\ Join(c, p)
  /\ caller' = [caller EXCEPT ![c] = Waiting(p)]
  /\ UNCHANGED storage

Request(c) ==
  /\ caller[c].status = "idle"
  /\ \E p \in Requests : RequestStored(c, p) \/ RequestFetched(c, p)
  /\ UNCHANGED now

-----------------------------------------------------------------------------

\* The response with the greatest timestamp, the first of them; {} when none has one.
Newest(collected) ==
  LET newer == {i \in DOMAIN collected :
                  /\ TimestampOf(collected[i]) > 0
                  /\ \A j \in DOMAIN collected :
                       TimestampOf(collected[j]) <= TimestampOf(collected[i])}
  IN IF newer = {} THEN NoFeeds
     ELSE collected[CHOOSE i \in newer : \A j \in newer : i <= j]

AllFailed(f) == f.targets \subseteq f.failed

\* Mutant of IsResolved: all gateways are waited for.
IsResolvedByAll(f) == ~AllFailed(f) /\ f.pending = {}

\* Mutant of IsResolved: errors are not counted.
IsResolvedUnlessError(f) ==
  /\ ~AllFailed(f)
  /\ \/ Len(f.collected) = Cardinality(f.targets)
     \/ f.timedOut /\ f.collected # <<>>

IsResolved(f) ==
  /\ ~AllFailed(f)
  /\ \/ f.pending = {}
     \/ f.timedOut /\ f.collected # <<>>

Finish(key, f, results) ==
  /\ fetch' = Restrict(fetch, DOMAIN fetch \ {key})
  /\ caller' = [c \in Callers |-> IF c \in f.callers THEN results[c] ELSE caller[c]]

\* checkResults of a fetch that has become f, and what its callers do next: each
\* filters the response with its own parameters.
Resolve(key, f) ==
  LET response == Newest(f.collected) IN
  /\ IsResolved(f)
  /\ Finish(key, f, [c \in f.callers |-> Result(caller[c].params, response)])
  /\ storage' = IF f.params.stored
                THEN StorageSet(Purged(storage, now), response, f.params)
                ELSE storage

Retry(key, f) ==
  /\ AllFailed(f) /\ f.rest # {}
  /\ fetch' = [fetch EXCEPT ![key] =
                 Stage(f.params, f.callers, f.rest, {}, f.failed)]
  /\ UNCHANGED <<caller, storage>>

Reject(key, f) ==
  /\ AllFailed(f) /\ f.rest = {}
  /\ Finish(key, f,
            [c \in f.callers |-> [status |-> "rejected", params |-> caller[c].params]])
  /\ UNCHANGED storage

KeepWaiting(key, f) ==
  /\ ~AllFailed(f) /\ ~IsResolved(f)
  /\ fetch' = [fetch EXCEPT ![key] = f]
  /\ UNCHANGED <<caller, storage>>

CheckResults(key, checked) ==
  \E f \in {checked} :
    Resolve(key, f) \/ Retry(key, f) \/ Reject(key, f) \/ KeepWaiting(key, f)

\* A gateway answers, or fails or times out. The response is kept as it is, if the
\* parameters of the fetch accept it.
Collected(f, gateway, r) ==
  IF Accepts(f.params, r, now)
  THEN [f EXCEPT !.pending = @ \ {gateway}, !.collected = Append(@, r)]
  ELSE [f EXCEPT !.pending = @ \ {gateway}, !.failed = @ \cup {gateway}]

Failed(f, gateway) ==
  [f EXCEPT !.pending = @ \ {gateway}, !.failed = @ \cup {gateway}]

GatewayAnswers(key) ==
  /\ key \in DOMAIN fetch
  /\ \E gateway \in fetch[key].pending :
       \E r \in Served[key][now] :
         CheckResults(key, Collected(fetch[key], gateway, r))
  /\ UNCHANGED now

GatewayFails(key) ==
  /\ key \in DOMAIN fetch
  /\ \E gateway \in fetch[key].pending :
       CheckResults(key, Failed(fetch[key], gateway))
  /\ UNCHANGED now

\* waitForAllGatewaysTimeMs passes.
StopWaitingForAll(key) ==
  /\ key \in DOMAIN fetch /\ ~fetch[key].timedOut
  /\ CheckResults(key, [fetch[key] EXCEPT !.timedOut = TRUE])
  /\ UNCHANGED now

Tick ==
  /\ now < MaxTime
  /\ now' = now + 1
  /\ UNCHANGED <<caller, fetch, storage>>

Next ==
  \/ \E c \in Callers : Request(c)
  \/ \E key \in Keys : GatewayAnswers(key) \/ GatewayFails(key) \/ StopWaitingForAll(key)
  \/ Tick

\* Every HTTP request ends: Fetcher.get has a timeout.
Fairness == \A key \in Keys : WF_vars(GatewayFails(key) \/ GatewayAnswers(key))

Spec == Init /\ [][Next]_vars /\ Fairness
-----------------------------------------------------------------------------

\* What a caller is given is what it asked for, whoever started the fetch and wherever
\* the response came from: packages of its signers, enough of them and of one
\* timestamp for every feed, none too old at that moment, and every feed it insists on
\* (filterAndSelectDataPackages on the shared and on the stored response).
AnswerConforms(c) ==
  LET p == caller'[c].params
      answer == caller'[c].answer
  IN /\ ~p.ignoreMissing /\ ~p.all => DOMAIN answer = p.feeds
     /\ ~p.all => DOMAIN answer \subseteq p.feeds
     /\ \A feed \in DOMAIN answer :
          /\ Len(answer[feed]) >= p.count
          /\ Cardinality({answer[feed][i].timestamp : i \in DOMAIN answer[feed]}) = 1
          /\ \A i \in DOMAIN answer[feed] :
               /\ p.skipVerification \/ answer[feed][i].signer \in p.signers
               /\ p.maxDeviation > 0 =>
                    now - answer[feed][i].timestamp <= p.maxDeviation

AnswersConform ==
  [][\A c \in Callers :
       caller'[c].status = "answered" /\ caller[c].status # "answered" => AnswerConforms(c)]_vars

\* A caller whose own parameters a fetch follows, and who sets no limit to the age of
\* packages, is turned away only when every gateway has been asked and none has
\* delivered what it accepts (the stages of fetchStaged and checkResults).
RejectedUnserved ==
  [][\A key \in DOMAIN fetch : \A c \in fetch[key].callers :
       /\ caller'[c].status = "rejected"
       /\ Normalized(caller[c].params) = Normalized(fetch[key].params)
       /\ caller[c].params.maxDeviation = 0
       => /\ fetch[key].collected = <<>>
          /\ Cardinality(fetch[key].pending) = 1
          /\ Gateways \ fetch[key].failed = fetch[key].pending]_vars

\* Every request comes to an end, also one that joined the fetch of another caller.
EveryRequestSettled ==
  \A c \in Callers : caller[c].status = "waiting" ~> caller[c].status \in {"answered", "rejected"}

\* A request for more signers than the responses in the storage were fetched for gets
\* none of them (test/DataPackagesResponseStorage.test.ts:247, "should return undefined
\* when requesting with higher uniqueSignersCount"): what the storage hands out for a
\* feed that has any are as many packages as the request's uniqueSignersCount.
HigherCountNotServed ==
  \A p \in Requests :
    LET cached == StorageGet(Purged(storage, now), p, now) IN
    cached # None =>
      \A feed \in DOMAIN cached : cached[feed] # <<>> => Len(cached[feed]) >= p.count
=============================================================================
