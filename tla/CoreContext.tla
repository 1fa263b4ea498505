---------------------------- MODULE CoreContext ----------------------------
(***************************************************************************)
(* What surrounds the control of the core: the SENSOR BUS, the schedule,   *)
(* the Zigbee sensors and their registry, the feedback of the fans, the    *)
(* SHADOW advice, the alert policy, what clients ask of it (the removal of *)
(* a Zigbee device, the journal of alerts, the SERVICE page), and the      *)
(* reports from outside.  They share no state and no lock, so their        *)
(* interleavings add nothing: a behaviour follows one of them, the others  *)
(* stay as they start.                                                     *)
(***************************************************************************)
EXTENDS Zigbee, ZigbeeRemoval, ZigbeeSensor, Sensing, Schedule, Shadow, Feedback,
        AlertPolicy, AlertHistory, Reports, ServicePage

VARIABLE focus

vars == <<focus, sensingVars, scheduleVars, tuning, zigbeeVars, sensorVars, removalVars,
          feedbackVars, policyVars, historyVars, reportVars, pageVars>>

(* The component whose behaviour is followed. *)
Foci == {"sensors", "schedule", "advice", "registry", "radio", "removal", "fans", "policy",
         "journal", "reports", "page"}

TypeOK ==
  /\ focus \in Foci
  /\ SensingTypeOK /\ ScheduleTypeOK /\ ZigbeeTypeOK /\ RemovalTypeOK /\ PolicyTypeOK

Init ==
  /\ focus \in Foci
  /\ SensingInit /\ ScheduleInit /\ ZigbeeInit /\ ShadowInit /\ RemovalInit
  /\ FeedbackInit /\ PolicyInit /\ HistoryInit /\ ReportsInit /\ PageInit
  /\ IF focus = "radio" THEN SensorInit ELSE SensorSetup(PlainSetup)
  /\ focus # "registry" => \A r \in Roles : file.roles[r] = Unassigned
  /\ focus # "advice" => tuning = Untuned
  /\ focus # "policy" => policyFile = NoDocument
  /\ focus # "page" => faulty = NoneAt

OthersStay ==
  /\ focus # "sensors" => UNCHANGED sensingVars
  /\ focus # "schedule" => UNCHANGED scheduleVars
  /\ focus # "registry" => UNCHANGED zigbeeVars
  /\ focus # "radio" => UNCHANGED sensorVars
  /\ focus # "removal" => UNCHANGED removalVars
  /\ focus # "fans" => UNCHANGED feedbackVars
  /\ focus # "policy" => UNCHANGED policyVars
  /\ focus # "journal" => UNCHANGED historyVars
  /\ focus # "reports" => UNCHANGED reportVars
  /\ focus # "page" => UNCHANGED pageVars

Next ==
  /\ UNCHANGED <<focus, tuning>> /\ OthersStay
  /\ \/ focus = "sensors" /\ SensingNext
     \/ focus = "schedule" /\ ScheduleNext
     \/ focus = "registry" /\ ZigbeeNext
     \/ focus = "radio" /\ SensorNext
     \/ focus = "removal" /\ RemovalNext
     \/ focus = "fans" /\ FeedbackNext
     \/ focus = "policy" /\ PolicyNext
     \/ focus = "journal" /\ HistoryNext
     \/ focus = "reports" /\ ReportsNext
     \/ focus = "page" /\ PageNext

Spec == Init /\ [][Next]_vars

(* Whatever the tuning of SHADOW is, its advice is sound for all readings   *)
(* (AdviceSound of Shadow), which need not be asked again in every state.   *)
AdviceStaysSound == focus = "advice" => AdviceSound

(* A policy in use means what the contract says (PolicyHonest of            *)
(* AlertPolicy); the same of every combination of active alerts.            *)
PolicyStaysHonest == focus = "policy" => PolicyHonest

(* What the panel shows of the reports from outside, and of the system in   *)
(* its SERVICE page, was true (ReportsTrue of Reports, TilesTrue of         *)
(* ServicePage).                                                            *)
ShownIsTrue ==
  /\ focus = "reports" => ReportsTrue
  /\ focus = "page" => TilesTrue
=============================================================================
