--------------------------- MODULE CuratedRpcList ---------------------------
(***************************************************************************)
(* utils/src/curated-list/CuratedRpcList.ts and the delegate that puts it   *)
(* between the executors and the providers,                                *)
(* utils/src/multi-executor/QuarantinedListFnDelegate.ts: providers that    *)
(* fail too often are quarantined, and freed one by one.                   *)
(*                                                                         *)
(* A provider's error rate is over the calls since its last evaluation.     *)
(* quarantineCounter only weighs the random choice of the provider to free: *)
(* any quarantined provider may be chosen.                                 *)
(***************************************************************************)
EXTENDS Integers, FiniteSets, FiniteSetsExt

CONSTANTS
  Rpcs,                  \* rpcIdentifiers
  MinimalProvidersCount,
  RateNum, RateDen,      \* maxErrorRate
  MaxCalls               \* bound: calls in flight or not evaluated

ASSUME ListAssumption ==
  /\ IsFiniteSet(Rpcs) /\ Rpcs # {}
  /\ MinimalProvidersCount \in Nat /\ MinimalProvidersCount <= Cardinality(Rpcs)
  /\ RateNum \in Nat /\ RateDen \in Nat \ {0}
  /\ MaxCalls \in Nat

VARIABLES
  callsCount, errorsCount, inQuarantine,   \* state[rpc]
  freeFromQuarantineTimer, evaluationTimer,   \* is the timer set?
  healthyIdentifiers,    \* the delegate's copy of the healthy providers
  refreshDue,            \* have 5 ms passed since the copy was made?
  inFlight               \* calls started and not settled, by provider

curatedVars == <<callsCount, errorsCount, inQuarantine, freeFromQuarantineTimer,
          evaluationTimer, healthyIdentifiers, refreshDue, inFlight>>

listVars == <<callsCount, errorsCount, inQuarantine, freeFromQuarantineTimer,
              evaluationTimer>>

ListTypeOK ==
  /\ callsCount \in [Rpcs -> Nat]
  /\ errorsCount \in [Rpcs -> Nat]
  /\ \A rpc \in Rpcs : errorsCount[rpc] <= callsCount[rpc]
  /\ inQuarantine \in SUBSET Rpcs
  /\ freeFromQuarantineTimer \in BOOLEAN /\ evaluationTimer \in BOOLEAN
  /\ healthyIdentifiers \in SUBSET Rpcs
  /\ refreshDue \in BOOLEAN
  /\ inFlight \in [Rpcs -> Nat]

ListInit ==
  /\ callsCount = [rpc \in Rpcs |-> 0]
  /\ errorsCount = [rpc \in Rpcs |-> 0]
  /\ inQuarantine = {}
  /\ freeFromQuarantineTimer = FALSE
  /\ evaluationTimer = FALSE
  /\ healthyIdentifiers = Rpcs
  /\ refreshDue = TRUE
  /\ inFlight = [rpc \in Rpcs |-> 0]

-----------------------------------------------------------------------------
\* Mutant of UpdateFreeTimer: the timer is left off once it was cleared.
UpdateFreeTimerOnlyClears ==
  freeFromQuarantineTimer' = (freeFromQuarantineTimer /\ inQuarantine' # {})

\* Mutant of UpdateEvaluationTimer: it stops when any provider has no calls.
UpdateEvaluationTimerAny == evaluationTimer' = (\A rpc \in Rpcs : callsCount'[rpc] > 0)

\* updateFreeFromQuarantineTimer and updateEvaluationTimer: a timer runs while
\* there is something for it to do.
UpdateFreeTimer == freeFromQuarantineTimer' = (inQuarantine' # {})
UpdateEvaluationTimer == evaluationTimer' = (\E rpc \in Rpcs : callsCount'[rpc] > 0)

\* The delegate's copy has got older than MIN_REFRESH_TIME_INTERVAL_MS.
Elapse ==
  /\ ~refreshDue
  /\ refreshDue' = TRUE
  /\ UNCHANGED <<listVars, healthyIdentifiers, inFlight>>

Healthy(quarantine) == Rpcs \ quarantine

\* Mutant of Released: one provider is freed, however many are missing.
ReleasedOne(quarantine) ==
  Cardinality(Healthy(inQuarantine)) < MinimalProvidersCount =>
    Cardinality(quarantine) = Cardinality(inQuarantine) - 1

\* getBestProviders frees one provider after another until enough are healthy.
Released(quarantine) ==
  IF Cardinality(Healthy(inQuarantine)) >= MinimalProvidersCount
  THEN quarantine = inQuarantine
  ELSE Cardinality(Healthy(quarantine)) = MinimalProvidersCount

\* isQuarantined with a copy that is due: the list is asked for the best providers.
Refresh ==
  /\ refreshDue
  /\ \E quarantine \in SUBSET inQuarantine :
       /\ Released(quarantine)
       /\ inQuarantine' = quarantine
       /\ healthyIdentifiers' = Healthy(quarantine)
       /\ IF quarantine = inQuarantine
          THEN UNCHANGED freeFromQuarantineTimer
          ELSE UpdateFreeTimer
  /\ refreshDue' = FALSE
  /\ UNCHANGED <<callsCount, errorsCount, evaluationTimer, inFlight>>

\* An executor starts a call of a provider that isQuarantined lets through.
Call(rpc) ==
  /\ ~refreshDue
  /\ rpc \in healthyIdentifiers
  /\ MapThenSumSet(LAMBDA r : inFlight[r] + callsCount[r], Rpcs) < MaxCalls
  /\ inFlight' = [inFlight EXCEPT ![rpc] = @ + 1]
  /\ UNCHANGED <<listVars, healthyIdentifiers, refreshDue>>

\* Mutant of Settle: errors are not counted as calls.
SettleErrorUncounted(rpc, error) ==
  /\ inFlight[rpc] > 0
  /\ inFlight' = [inFlight EXCEPT ![rpc] = @ - 1]
  /\ callsCount' = [callsCount EXCEPT ![rpc] = @ + IF error THEN 0 ELSE 1]
  /\ errorsCount' = [errorsCount EXCEPT ![rpc] = @ + IF error THEN 1 ELSE 0]
  /\ UpdateEvaluationTimer
  /\ UNCHANGED <<inQuarantine, freeFromQuarantineTimer, healthyIdentifiers, refreshDue>>

\* didSucceed or didFail: scoreRpc, of a provider that may be in quarantine by now.
Settle(rpc, error) ==
  /\ inFlight[rpc] > 0
  /\ inFlight' = [inFlight EXCEPT ![rpc] = @ - 1]
  /\ callsCount' = [callsCount EXCEPT ![rpc] = @ + 1]
  /\ errorsCount' = [errorsCount EXCEPT ![rpc] = @ + IF error THEN 1 ELSE 0]
  /\ UpdateEvaluationTimer
  /\ UNCHANGED <<inQuarantine, freeFromQuarantineTimer, healthyIdentifiers, refreshDue>>

\* errorRate > maxErrorRate; 0 / 0 is NaN, which is not.
TooManyErrors(rpc) == errorsCount[rpc] * RateDen > RateNum * callsCount[rpc]

\* The evaluation timer: evaluateRpcScore of every provider.
Evaluate ==
  /\ evaluationTimer
  /\ inQuarantine' = inQuarantine \cup {rpc \in Rpcs : TooManyErrors(rpc)}
  /\ callsCount' = [rpc \in Rpcs |-> 0]
  /\ errorsCount' = [rpc \in Rpcs |-> 0]
  /\ IF \E rpc \in Rpcs : TooManyErrors(rpc)
     THEN UpdateFreeTimer
     ELSE UNCHANGED freeFromQuarantineTimer
  /\ UpdateEvaluationTimer
  /\ UNCHANGED <<healthyIdentifiers, refreshDue, inFlight>>

\* The other timer: freeOneRpcFromQuarantine, of a random provider.
FreeOne(rpc) ==
  /\ freeFromQuarantineTimer
  /\ rpc \in inQuarantine
  /\ inQuarantine' = inQuarantine \ {rpc}
  /\ UpdateFreeTimer
  /\ UNCHANGED <<callsCount, errorsCount, evaluationTimer, healthyIdentifiers,
                 refreshDue, inFlight>>

ListNext ==
  \/ \E rpc \in Rpcs : Call(rpc) \/ FreeOne(rpc)
  \/ \E rpc \in Rpcs, error \in BOOLEAN : Settle(rpc, error)
  \/ Elapse \/ Refresh \/ Evaluate

\* Timers fire, time passes, and the weighted choice frees a provider that stays in
\* quarantine sooner or later.
ListFairness ==
  /\ WF_curatedVars(Evaluate)
  /\ \A rpc \in Rpcs : SF_curatedVars(FreeOne(rpc))

ListSpec == ListInit /\ [][ListNext]_curatedVars /\ ListFairness

-----------------------------------------------------------------------------
\* Safety.  A timer runs exactly while a quarantined provider waits to be freed, or
\* a called one to be evaluated; both are only touched by the updates in passing.
TimersArmed ==
  /\ freeFromQuarantineTimer = (inQuarantine # {})
  /\ evaluationTimer = (\E rpc \in Rpcs : callsCount[rpc] > 0)

\* Safety.  The copy that lets calls through never falls below the minimum, though
\* everybody may be in quarantine: an executor always finds a provider to call.
EnoughHealthy == Cardinality(healthyIdentifiers) >= MinimalProvidersCount

\* Liveness.  No provider stays in quarantine for ever, and calls that were scored are
\* evaluated.
EventuallyReviewed ==
  \A rpc \in Rpcs :
    /\ rpc \in inQuarantine ~> rpc \notin inQuarantine
    /\ callsCount[rpc] > 0 ~> callsCount[rpc] = 0
=============================================================================
