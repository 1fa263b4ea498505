---------------------------- MODULE MCPolicyShape ----------------------------
(***************************************************************************)
(* AlertPolicy alone, with a service manager that starts the core again     *)
(* whenever it has ended, for what a document of the wrong shape does to    *)
(* the core.  The candidates are the delivered document with the reaction   *)
(* of one entry replaced by an unknown word, or by a list.                  *)
(***************************************************************************)
EXTENDS AlertPolicy

MCDefault ==
  [frame |-> TRUE,
   alerts |-> [c \in Codes |->
     IF c \in MandatedCodes
       THEN [enabled |-> TRUE, formed |-> TRUE, reaction |-> Mandated(c).reaction,
             affects |-> Mandated(c).affects, weight |-> Mandated(c).weight,
             severity |-> Mandated(c).weight, colour |-> Mandated(c).weight]
       ELSE [enabled |-> TRUE, formed |-> TRUE, reaction |-> "continue_degraded",
             affects |-> FALSE, weight |-> 2, severity |-> 2, colour |-> 2]]]
MCCandidates ==
  {[MCDefault EXCEPT !.alerts[c].reaction = r] : c \in Codes, r \in {"an unknown word", "a list"}}

(* Restart=on-failure, RestartSec=2 (deploy/systemd/ventilation-core.service). *)
RestartedCore == PolicyInit /\ [][PolicyNext]_policyVars /\ WF_policyVars(CoreStarts)

(* docs/reports/ALERT_V2_RUNTIME_POLICY_STAGE2_IMPLEMENTATION_PL.md:50 says *)
(* that a missing or wrong file at the first start is reported but does not *)
(* stop the core, and the help of --alert-policy (main.py:71) that an       *)
(* invalid or missing policy never changes the behaviour of the control.    *)
(* Whatever is in the file, a core that is down comes up.                   *)
CoreComesUp == manager = NotRunning ~> manager # NotRunning
=============================================================================
