-------------------------- MODULE PowerAndTelemetry --------------------------
(***************************************************************************)
(* Two agents beside the core, each a process that asks it over its socket  *)
(* and shares nothing with the other: the host power agent, whose STOP      *)
(* precedes a power action, and the telemetry agent, with the history that  *)
(* the web interface reads from its store.  A behaviour follows one of the  *)
(* two, the other stays as it starts.                                       *)
(***************************************************************************)
EXTENDS HostPower, TelemetryHistory

VARIABLE focus

vars == <<focus, powerVars, telemetryVars>>

(* Fans that are not followed start stopped.                                *)
Init ==
  /\ focus \in {"power", "telemetry"}
  /\ PowerInit /\ (focus # "power" => out = Fan!Off)
  /\ TelemetryInit

Next ==
  /\ UNCHANGED focus
  /\ \/ focus = "power" /\ PowerNext /\ UNCHANGED telemetryVars
     \/ focus = "telemetry" /\ TelemetryNext /\ UNCHANGED powerVars

(* An agent that stays as it starts has no action pending and no sample.    *)
Spec == Init /\ [][Next]_vars /\ PowerFairness /\ TelemetryFairness
=============================================================================
