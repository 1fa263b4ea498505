--------------------------- MODULE AlertsAndUpdates --------------------------
(***************************************************************************)
(* Two registers of what goes on: the alerts that the commands and health   *)
(* checks of the core reconcile, and the firmware updates of the sensor     *)
(* nodes that the service agent coordinates, a process of its own.  They    *)
(* share no state and no lock: a behaviour follows one of the two, the      *)
(* other stays as it starts.                                                *)
(***************************************************************************)
EXTENDS Alerts, ServiceOta

VARIABLE focus

vars == <<focus, alertsVars, otaVars>>

Init ==
  /\ focus \in {"alerts", "updates"}
  /\ AlertsInit /\ OtaInit

Next ==
  /\ UNCHANGED focus
  /\ \/ focus = "alerts" /\ AlertsNext /\ UNCHANGED otaVars
     \/ focus = "updates" /\ OtaNext /\ UNCHANGED alertsVars

(* What stays as it starts is down or idle: nothing is due in it.           *)
Spec == Init /\ [][Next]_vars /\ AlertsFairness /\ OtaFairness
=============================================================================
