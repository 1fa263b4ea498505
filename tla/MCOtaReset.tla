----------------------------- MODULE MCOtaReset ------------------------------
(***************************************************************************)
(* ServiceOta with one node that may be reset at any time, for what the     *)
(* coordinator says of a node that was reset after it had named its         *)
(* partition.                                                               *)
(***************************************************************************)
EXTENDS ServiceOta

(* docs/reports/KAMOD_SERVICE_OTA_STAGE1_BOOTSTRAP_HANDOFF_PL.md:91-92 says *)
(* that the agent checks identity, partition and the outcome of the self-   *)
(* test after the restart, and tells success, failure, rollback and an      *)
(* uncertain state apart; the report of the first transfer (:78), that the  *)
(* reconciliation recognises success, rollback or an image that was not     *)
(* committed.  Whatever verdict an operation ends with is true of the node. *)
EveryVerdictTrue == \A n \in Nodes : TrueVerdict(n, Reported(n))
=============================================================================
