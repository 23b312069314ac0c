------------------------- MODULE SetOperationQueue -------------------------
(***************************************************************************)
(* utils/src/operation-queue/SetOperationQueue.ts: the operation queue      *)
(* whose ids are sets of keys.  A newer call takes the place of a queued    *)
(* one whose keys it contains.  The class is OperationQueue with the hooks   *)
(* Conforms <- SetConforms and Purging = TRUE.                              *)
(***************************************************************************)

\* newId.isSupersetOf(oldId), and the reverse too if strict.
SetConforms(oldId, newId, strict) ==
  /\ oldId \subseteq newId
  /\ strict => newId \subseteq oldId
=============================================================================
