---------------------------- MODULE AlertPolicy ----------------------------
(***************************************************************************)
(* The AlertV2 policy: the document of weights, colours and reactions that *)
(* an operator edits, its validation (alert_policy.py), the policy a core  *)
(* holds (alert_policy_runtime.py) and what the panel is shown of the      *)
(* active alerts (alert_v2_policy_service.py).                             *)
(*                                                                         *)
(* Severity and colour of an entry are the weight they belong to in the    *)
(* fixed weight profile; texts, tokens, priorities and parameters are one  *)
(* flag, "formed".                                                         *)
(***************************************************************************)
EXTENDS Naturals, FiniteSets, FiniteSetsExt

CONSTANTS Codes,       \* alert codes, of the policy and of the detectors
          Candidates,  \* documents the file may hold, beside the default one
          Default,     \* the document as delivered
          NoDocument, NotRunning,
          MaxPolicyEdits  \* edits of the file explored

ASSUME AlertPolicyAssumption == IsFiniteSet(Codes) /\ MaxPolicyEdits \in Nat

VARIABLES
  policyFile,    \* the document in the file, or NoDocument
  manager,       \* the running core's RuntimeAlertPolicyManager, or NotRunning
  policyEdits    \* edits left

policyVars == <<policyFile, manager, policyEdits>>

(* The codes the contract speaks of by name. *)
TachoDiagnostics == {"TACHO_MONITOR_UNAVAILABLE", "TACHO_CONFIGURATION_INVALID"}
FanFeedback == {"FAN_NO_ROTATION_FEEDBACK", "FAN_RPM_OUT_OF_RANGE"}
RequiredSafety ==
  {"DAC_STATE_UNCERTAIN", "DAC_COMMUNICATION_LOST", "DAC_OUTPUT_MISMATCH"} \cup TachoDiagnostics
NonControl ==
  {"HMI_CM5_COMMUNICATION_LOST", "WEATHER_UNAVAILABLE", "WEATHER_DATA_STALE",
   "AI_BRIDGE_SYNC_TEMPORARY_FAILURE", "AI_BRIDGE_BACKLOG_HIGH", "AI_ADVISORY_UNAVAILABLE",
   "NAS_STORAGE_UNAVAILABLE", "SERVICE_AGENT_UNAVAILABLE", "SERVICE_NETWORK_AP_UNAVAILABLE",
   "SERVICE_NETWORK_DHCP_UNAVAILABLE", "SERVICE_NETWORK_FIREWALL_INVALID"}

Harmless == {"continue", "continue_degraded"}
Reactions == Harmless \cup {"fallback_local", "recover_safe_outputs", "safe_state", "block_gui"}
Weights == 0..4

(* Entries whose reaction, effect and weight are laid down. *)
Mandated(code) ==
  CASE code \in {"DAC_COMMUNICATION_LOST", "DAC_OUTPUT_MISMATCH"} ->
         [reaction |-> "safe_state", affects |-> TRUE, weight |-> 4]
    [] code = "DAC_STATE_UNCERTAIN" ->
         [reaction |-> "recover_safe_outputs", affects |-> TRUE, weight |-> 3]
    [] code = "HMI_CM5_COMMUNICATION_LOST" ->
         [reaction |-> "block_gui", affects |-> FALSE, weight |-> 4]
MandatedCodes ==
  {"DAC_COMMUNICATION_LOST", "DAC_OUTPUT_MISMATCH", "DAC_STATE_UNCERTAIN",
   "HMI_CM5_COMMUNICATION_LOST"}

-----------------------------------------------------------------------------
(* validate_alert_policy_document.  The document is                         *)
(*   [frame, alerts]: are the top level, the behaviour table and the weight *)
(*   profile as demanded; the entry of each code it has.                    *)

(* A reaction or colour that is a list is looked up in a set, which raises. *)
Breaks(document) == \E c \in DOMAIN document.alerts : document.alerts[c].reaction = "a list"

ValidEntry(entry) ==
  /\ entry.formed
  /\ entry.weight \in Weights
  /\ entry.severity = entry.weight /\ entry.colour = entry.weight
  /\ entry.reaction \in Reactions

(* Mutant of ValidRequired: required codes may be switched off. *)
RequiredListed(alerts) == RequiredSafety \subseteq DOMAIN alerts

ValidRequired(alerts) == \A c \in RequiredSafety : c \in DOMAIN alerts /\ alerts[c].enabled

(* The rules about codes that the document has. *)
ValidContract(alerts) ==
  \A c \in DOMAIN alerts :
    /\ c \in TachoDiagnostics => alerts[c].reaction \in Harmless /\ ~alerts[c].affects
    /\ c \in FanFeedback => alerts[c].reaction \notin {"safe_state", "recover_safe_outputs"}
    /\ c \in MandatedCodes =>
         /\ alerts[c].reaction = Mandated(c).reaction
         /\ alerts[c].affects = Mandated(c).affects
         /\ alerts[c].weight = Mandated(c).weight
    /\ c \in NonControl =>
         ~alerts[c].affects /\ alerts[c].reaction \in Harmless \cup {"block_gui"}

Valid(document) ==
  /\ document.frame
  /\ DOMAIN document.alerts # {}
  /\ \A c \in DOMAIN document.alerts : ValidEntry(document.alerts[c])
  /\ ValidRequired(document.alerts)
  /\ ValidContract(document.alerts)

-----------------------------------------------------------------------------
(* RuntimeAlertPolicyManager.reload, from a policy that was loaded before.  *)
Reloaded(policy) ==
  IF policyFile # NoDocument /\ Valid(policyFile)
    THEN [policy |-> policyFile, error |-> FALSE]
    ELSE [policy |-> policy, error |-> TRUE]

PolicyInit ==
  /\ policyFile \in {Default, NoDocument}
  /\ manager = NotRunning
  /\ policyEdits = MaxPolicyEdits

(* The core comes up with the policy in the file or without one; a document *)
(* that makes the validation raise keeps it from coming up.                 *)
CoreStarts ==
  /\ manager = NotRunning
  /\ policyFile # NoDocument => ~Breaks(policyFile)
  /\ manager' = Reloaded(NoDocument)
  /\ UNCHANGED <<policyFile, policyEdits>>

CoreEnds ==
  /\ manager # NotRunning
  /\ manager' = NotRunning
  /\ UNCHANGED <<policyFile, policyEdits>>

(* The operator's editor; nothing reads the file again in a running core. *)
EditPolicy ==
  /\ policyEdits > 0
  /\ policyFile' \in Candidates \cup {Default}
  /\ policyEdits' = policyEdits - 1
  /\ UNCHANGED manager

PolicyNext == CoreStarts \/ CoreEnds \/ EditPolicy

PolicyTypeOK ==
  /\ policyFile \in Candidates \cup {Default, NoDocument}
  /\ manager # NotRunning => manager.policy \in Candidates \cup {Default, NoDocument}
  /\ policyEdits \in 0..MaxPolicyEdits

-----------------------------------------------------------------------------
(* What the panel is shown of the active alerts *)

PolicyLoaded == manager # NotRunning /\ manager.policy # NoDocument
Entry(code) == manager.policy.alerts[code]
Mapped == DOMAIN manager.policy.alerts

(* active_summary *)
Counted(active) == {c \in active \cap Mapped : Entry(c).enabled}
ActiveWeight(active) == Max({0} \cup {Entry(c).weight : c \in Counted(active)})
Unmapped(active) == active \ Mapped
Disabled(active) == (active \cap Mapped) \ Counted(active)

(* decorate_alert_payload *)
Decorated(code) ==
  IF code \in Mapped
    THEN [mapped |-> TRUE, weight |-> Entry(code).weight, colour |-> Entry(code).colour,
          reaction |-> Entry(code).reaction, affects |-> Entry(code).affects]
    ELSE [mapped |-> FALSE]

-----------------------------------------------------------------------------
(* Whatever was written into the file and whenever, a policy that is in     *)
(* use means what the contract says: a lost or wrong DAC output makes the   *)
(* panel red and an uncertain one at least orange, no matter what else is   *)
(* active; no diagnostic code asks for a reaction of the control; and the   *)
(* colour of the summary is that of an active alert it shows, or green.     *)
(* (alert_policy.py:311-425, alert_policy_runtime.py:145-196.)              *)
PolicyHonest ==
  PolicyLoaded =>
    \A active \in SUBSET Codes :
      /\ active \cap {"DAC_COMMUNICATION_LOST", "DAC_OUTPUT_MISMATCH"} # {} =>
           ActiveWeight(active) = 4
      /\ "DAC_STATE_UNCERTAIN" \in active => ActiveWeight(active) >= 3
      /\ \A c \in active : Decorated(c).mapped =>
           /\ c \in TachoDiagnostics \cup NonControl => ~Decorated(c).affects
           /\ Decorated(c).reaction = "safe_state" => c \notin TachoDiagnostics \cup FanFeedback
      /\ ActiveWeight(active) # 0 =>
           \E c \in active : Decorated(c).mapped /\ Decorated(c).colour = ActiveWeight(active)
      /\ ActiveWeight(active) = 0 =>
           \A c \in active : Decorated(c).mapped /\ Decorated(c).weight > 0 => c \in Disabled(active)

=============================================================================
