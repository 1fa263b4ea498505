-------------------------- MODULE MCAlertsAndUpdates -------------------------
(* One condition known at construction and one that is not; two nodes that  *)
(* share the coordinator's single operation slot.                           *)
EXTENDS AlertsAndUpdates, TLC

CONSTANTS dacLost, nodeLost

MCKeys == {dacLost, nodeLost}
MCCoreKeys == {dacLost}
MCMaxCount == dacLost :> 3 @@ nodeLost :> 1
=============================================================================
