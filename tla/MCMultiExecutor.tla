--------------------------- MODULE MCMultiExecutor ---------------------------
(***************************************************************************)
(* DEFAULT_CONFIG in every mode, with the timeouts set as most builders set  *)
(* them, or only one of them, or none.                                      *)
(***************************************************************************)
EXTENDS MultiExecutor

Config(mode, quorum, single, all, undefined) ==
  [defaultMode |-> mode, agreementQuorumNumber |-> quorum,
   consensusQuorumRatio |-> <<3, 5>>, singleExecutionTimeoutMs |-> single,
   allExecutionsTimeoutMs |-> all,
   multiAgreementShouldResolveUnagreedToUndefined |-> undefined]

EveryMode ==
  {Config(mode, 2, TRUE, FALSE, FALSE) : mode \in ExecutionMode}
  \cup {Config(mode, 2, FALSE, TRUE, FALSE) : mode \in ExecutionMode \ {"multi_agreement"}}
  \cup {Config(mode, 2, FALSE, FALSE, FALSE) : mode \in {"race", "fallback"}}
  \cup {Config("multi_agreement", 2, TRUE, FALSE, TRUE)}
=============================================================================
