---------------------------- MODULE MultiExecutor ----------------------------
(***************************************************************************)
(* utils/src/multi-executor: one call of a client method, executed by       *)
(* several RPC providers and settled by agreement, by agreement point by    *)
(* point, by consensus of all, by the fastest, or by one after the other.   *)
(*                                                                         *)
(* A promise's value or error is recorded in one microtask and handleResults *)
(* runs in a later one, so that several may be recorded in between.         *)
(***************************************************************************)
EXTENDS Median, Sequences

CONSTANTS
  N,                   \* the functions are 1 .. N, in the order of the instances
  Values, Points,      \* numbers; a multi agreement's results have a number by point
  Configs,             \* the configurations of interest
  Undefined, Error, Hang, Pending

Functions == 1 .. N

\* The modes that clients are built with.  "ceil_median" is an Executor in the place of
\* a mode, the CeilMedianConsensusExecutor of the methods that ask for block numbers.
ExecutionMode == {"race", "fallback", "ceil_median", "consensus_all_equal",
                  "agreement", "multi_agreement"}

\* Timeouts are set or not; the ratio is a fraction <<p, q>>.
MultiExecutorConfig ==
  [defaultMode : ExecutionMode, agreementQuorumNumber : Nat \ {0},
   consensusQuorumRatio : (Nat \ {0}) \X (Nat \ {0}),
   singleExecutionTimeoutMs : BOOLEAN, allExecutionsTimeoutMs : BOOLEAN,
   multiAgreementShouldResolveUnagreedToUndefined : BOOLEAN]

ASSUME ConfigAssumption ==
  /\ N \in Nat \ {0} /\ Values \subseteq Nat
  /\ Configs \subseteq MultiExecutorConfig

VARIABLES
  config,
  answer,              \* answer[f]: what the execution of f comes to
  successfulResults,   \* the functions whose results were pushed, in that order
  errorResults,        \* the functions whose errors were pushed
  unhandled,           \* functions recorded whose finally has not run
  didFinish,
  outcome              \* what the caller gets

vars == <<config, answer, successfulResults, errorResults, unhandled, didFinish, outcome>>

Mode == config.defaultMode

\* getExecutor passes the option on to a multi agreement only.
UnagreedToUndefined ==
  Mode = "multi_agreement" /\ config.multiAgreementShouldResolveUnagreedToUndefined

Results(mode) == IF mode = "multi_agreement" THEN [Points -> Values] ELSE Values

Resolved(value) == [kind |-> "resolved", value |-> value]
Rejected == [kind |-> "rejected", value |-> Error]
TimedOut == [kind |-> "timed out", value |-> Error]
Waiting == [kind |-> "waiting", value |-> Error]

\* getPromises filters the quarantined functions out; promises are the others.
promises == DOMAIN answer
Total == Cardinality(promises)

TypeOK ==
  /\ config \in Configs
  /\ promises \subseteq Functions
  /\ answer \in [promises -> Results(Mode) \cup {Error, Hang}]
  /\ successfulResults \in Seq(promises)
  /\ errorResults \subseteq promises
  /\ unhandled \subseteq promises
  /\ didFinish \in BOOLEAN
  /\ \/ outcome \in {Pending, Rejected, TimedOut}
     \/ /\ outcome = Resolved(outcome.value)
        /\ outcome.value \in IF Mode = "multi_agreement"
                            THEN [Points -> Values \cup {Undefined}] ELSE Nat

-----------------------------------------------------------------------------
(* Votes on a sequence s of values.                                         *)

Count(s, v) == Cardinality({n \in DOMAIN s : s[n] = v})

\* getModes: the most frequent values; modes[0] is the one that came first.
IsMode(s, v) == \A n \in DOMAIN s : Count(s, s[n]) <= Count(s, v)
FirstMode(s) ==
  s[CHOOSE n \in DOMAIN s :
      IsMode(s, s[n]) /\ \A m \in DOMAIN s : IsMode(s, s[m]) => n <= m]
ManyModes(s) ==
  \E m, n \in DOMAIN s : IsMode(s, s[m]) /\ IsMode(s, s[n]) /\ s[m] # s[n]

\* Mutant of HasCount: one vote less is enough.
HasCountLess(s, k) == \E n \in DOMAIN s : Count(s, s[n]) >= k - 1

HasCount(s, k) == \E n \in DOMAIN s : Count(s, s[n]) >= k

\* The results recorded, and those for one point.
Row == [n \in DOMAIN successfulResults |-> answer[successfulResults[n]]]
Column(point) == [n \in DOMAIN Row |-> Row[n][point]]

Successes == Len(successfulResults)

\* Mutant of AllSettled: the filtered functions are waited for.
AllSettledOfAll == Successes + Cardinality(errorResults) >= N

\* Mutant of AllSettled: one promise too few.
AllButOneSettled == Successes + Cardinality(errorResults) >= Total - 1

AllSettled == Successes + Cardinality(errorResults) >= Total

\* AgreementExecutor.getQuorum and verifySettlements.
AgreementQuorum ==
  IF Total <= config.agreementQuorumNumber THEN 1 ELSE config.agreementQuorumNumber

Settlement(s) ==
  CASE HasCount(s, AgreementQuorum) -> "enough"
    [] ~HasCount(s, AgreementQuorum) /\ ~AllSettled -> "wait"
    [] OTHER -> IF UnagreedToUndefined THEN "enough" ELSE "throw"

\* AgreementExecutor.aggregate
Agreed(s) ==
  IF ManyModes(s) /\ UnagreedToUndefined THEN Undefined ELSE FirstMode(s)

\* ConsensusExecutor.getQuorum, with Math.ceil of the ratio.
ConsensusQuorum ==
  LET ratio == config.consensusQuorumRatio
  IN  IF Total <= 2 THEN 1 ELSE (Total * ratio[1] + ratio[2] - 1) \div ratio[2]

\* CeilMedianConsensusExecutor: getMedian, rounded up.
CeilMedian(s) ==
  LET Kth(k) == KthSmallest(DOMAIN s, s, k)
  IN  (Kth((Len(s) + 1) \div 2) + Kth(Len(s) \div 2 + 1) + 1) \div 2

-----------------------------------------------------------------------------
(* handleResults: verifySettlements, then aggregate; an exception rejects.   *)

AgreementVerdict ==
  CASE Settlement(Row) = "enough" -> Resolved(Agreed(Row))
    [] Settlement(Row) = "wait" -> Waiting
    [] Settlement(Row) = "throw" -> Rejected

\* MultiAgreementExecutor first wants a quorum of successes.
MultiAgreementVerdict ==
  IF Successes < AgreementQuorum
  THEN IF AllSettled THEN Rejected ELSE Waiting
  ELSE CASE \A p \in Points : Settlement(Column(p)) = "enough" ->
              Resolved([p \in Points |-> Agreed(Column(p))])
         [] \E p \in Points : Settlement(Column(p)) = "throw" -> Rejected
         [] OTHER -> Waiting

\* ConsensusExecutor waits for everyone, and then for a quorum of successes.
ConsensusVerdict ==
  IF ~AllSettled THEN Waiting
  ELSE IF Successes < ConsensusQuorum THEN Rejected
  ELSE IF Mode = "ceil_median" THEN Resolved(CeilMedian(Row))
  ELSE IF \E n \in DOMAIN Row : Row[n] # Row[1] THEN Rejected
  ELSE Resolved(Row[1])

\* RaceExecutor by Promise.any, FallbackExecutor by its loop: both reject with all
\* the errors.
FirstVerdict ==
  IF Successes > 0 THEN Resolved(Row[1])
  ELSE IF AllSettled THEN Rejected ELSE Waiting

Verdict ==
  CASE Mode = "agreement" -> AgreementVerdict
    [] Mode = "multi_agreement" -> MultiAgreementVerdict
    [] Mode \in {"ceil_median", "consensus_all_equal"} -> ConsensusVerdict
    [] Mode \in {"race", "fallback"} -> FirstVerdict

-----------------------------------------------------------------------------
\* The call starts; nothing to execute rejects at once.
Init ==
  /\ config \in Configs
  /\ \E started \in SUBSET Functions :
       answer \in [started -> Results(Mode) \cup {Error, Hang}]
  /\ successfulResults = << >>
  /\ errorResults = {}
  /\ unhandled = {}
  /\ didFinish = (promises = {})
  /\ outcome = IF promises = {} THEN Rejected ELSE Pending

Recorded(f) ==
  f \in errorResults \/ \E n \in DOMAIN successfulResults : successfulResults[n] = f

\* FallbackExecutor calls a function when all before it have failed.
Executing(f) ==
  Mode = "fallback" => \A g \in promises : g < f => g \in errorResults \ unhandled

\* execFn gives up on a promise after singleExecutionTimeoutMs; a race passes none.
Settles(f) ==
  answer[f] = Hang => config.singleExecutionTimeoutMs /\ Mode # "race"

\* The promise of f settles: then or catch records its result or its error.
Record(f) ==
  /\ f \in promises
  /\ ~Recorded(f) /\ Executing(f) /\ Settles(f)
  /\ IF answer[f] \in {Error, Hang}
     THEN errorResults' = errorResults \cup {f} /\ UNCHANGED successfulResults
     ELSE successfulResults' = Append(successfulResults, f) /\ UNCHANGED errorResults
  /\ unhandled' = unhandled \cup {f}
  /\ UNCHANGED <<config, answer, didFinish, outcome>>

\* Mutant of Handle: it resolves whether or not isEnough.
HandleUnverified(f) ==
  /\ f \in unhandled
  /\ unhandled' = unhandled \ {f}
  /\ didFinish' = TRUE
  /\ outcome' = IF ~didFinish /\ outcome = Pending THEN Verdict ELSE outcome
  /\ UNCHANGED <<config, answer, successfulResults, errorResults>>

\* The promise's finally.  The caller no longer listens after the total timeout.
Handle(f) ==
  /\ f \in unhandled
  /\ unhandled' = unhandled \ {f}
  /\ didFinish' = (didFinish \/ Verdict # Waiting)
  /\ outcome' = IF ~didFinish /\ Verdict # Waiting /\ outcome = Pending
                THEN Verdict ELSE outcome
  /\ UNCHANGED <<config, answer, successfulResults, errorResults>>

\* performExecuting: timeoutOrResult of allExecutionsTimeoutMs.
TotalTimeout ==
  /\ config.allExecutionsTimeoutMs
  /\ outcome = Pending
  /\ outcome' = TimedOut
  /\ UNCHANGED <<config, answer, successfulResults, errorResults, unhandled, didFinish>>

Next ==
  \/ \E f \in Functions : Record(f) \/ Handle(f)
  \/ TotalTimeout

\* Timers fire, promises that do not hang settle, microtasks run.
Fairness ==
  /\ \A f \in Functions : WF_vars(Record(f)) /\ WF_vars(Handle(f))
  /\ WF_vars(TotalTimeout)

Spec == Init /\ [][Next]_vars /\ Fairness

-----------------------------------------------------------------------------
IsResolved == outcome # Pending /\ outcome.kind = "resolved"
IsRejected == outcome # Pending /\ outcome.kind = "rejected"

Answering == {f \in promises : answer[f] \notin {Error, Hang}}
Voters(v) == {f \in Answering : answer[f] = v}
VotersAt(point, v) == {f \in Answering : answer[f][point] = v}

\* An agreement's value was answered (for a multi agreement: point by point) by a
\* quorum of the providers.
AgreedByQuorum(value) ==
  ~UnagreedToUndefined =>
    /\ Mode = "agreement" => Cardinality(Voters(value)) >= AgreementQuorum
    /\ Mode = "multi_agreement" => \A p \in Points :
         Cardinality(VotersAt(p, value[p])) >= AgreementQuorum

\* A consensus has heard every provider: enough answered, and the value is
\* theirs, or lies between the two halves of their numbers.
ConsensusOfAll(value) ==
  Mode \in {"ceil_median", "consensus_all_equal"} =>
    /\ Cardinality(Answering) >= ConsensusQuorum
    /\ Mode = "consensus_all_equal" => Voters(value) = Answering
    /\ Mode = "ceil_median" =>
         LET below == {f \in Answering : answer[f] <= value}
             above == {f \in Answering : answer[f] >= value}
         IN  /\ 2 * Cardinality(below) >= Cardinality(Answering)
             /\ 2 * Cardinality(above) >= Cardinality(Answering)

\* No order of the answers could have settled the call.
NeverSettling ==
  CASE Mode = "agreement" ->
         \A v \in Values : Cardinality(Voters(v)) < AgreementQuorum
    [] Mode = "multi_agreement" ->
         \/ Cardinality(Answering) < AgreementQuorum
         \/ \E p \in Points : \A v \in Values : Cardinality(VotersAt(p, v)) < AgreementQuorum
    [] Mode \in {"ceil_median", "consensus_all_equal"} ->
         \/ Cardinality(Answering) < ConsensusQuorum \/ promises = {}
         \/ Mode = "consensus_all_equal" /\ \E f, g \in Answering : answer[f] # answer[g]
    [] OTHER -> Answering = {}

\* Safety.  Whatever the order of answers, a result has the votes its mode asks for: of
\* a quorum in an agreement, of every provider that could be heard in a consensus.
ResolvedByVotes ==
  IsResolved => AgreedByQuorum(outcome.value) /\ ConsensusOfAll(outcome.value)

\* Safety.  A call is rejected only if its answers could never have settled it,
\* however long one waited and in whichever order they came.
RejectedOnlyUnsettled == IsRejected => NeverSettling

\* A timer or a first success guards against executions that hang.
Guarded ==
  \/ config.allExecutionsTimeoutMs
  \/ config.singleExecutionTimeoutMs /\ Mode # "race"
  \/ Mode = "race" /\ Answering # {}
  \/ \A f \in promises : answer[f] # Hang

\* Liveness.  A guarded caller is answered however many providers fail, hang or were
\* filtered out.  A race, which passes no single timeout on, is not when the ones
\* that do not hang fail.
CallerAnswered == Guarded => <>(outcome # Pending)
=============================================================================
