--------------------------- MODULE MCCoreContext ---------------------------
(* One node, two zones of a week of two days, two Zigbee devices; one fan,  *)
(* three alerts closed in two days, every policy one entry away from the    *)
(* delivered one.                                                           *)
EXTENDS CoreContext, TLC

(* Readings below, between and above the thresholds, or missing; tunings    *)
(* that are complete, partial, empty or refused.                            *)
MCReadings == [pm : {Absent, 15, 26}, voc : {Absent, 100, 200}, nox : {Absent, 10, 101},
                 temperature : {Absent, 15, 17, 19, 21}]

Air == [l \in Levels |-> 40 + 20 * l]
Limit == [b \in Bands |->
            CASE b = "NORMAL" -> 100 [] b = "LIMITING" -> 50 [] b = "MINIMUM" -> 30 [] OTHER -> 10]
Nothing(S) == [s \in S |-> Absent]
MCTunings ==
  {[air |-> air, limit |-> limit, aero |-> aero, bias |-> bias, dynamics |-> dynamics] :
     air \in {Air, Nothing(Levels), [Air EXCEPT ![2] = Absent], [Air EXCEPT ![3] = 0]},
     limit \in {Limit, Nothing(Bands)},
     aero \in {[l \in Levels |-> l], Nothing(Levels)},
     bias \in {5, -5, Absent}, dynamics \in BOOLEAN}

Plain(weight, reaction, affects) ==
  [enabled |-> TRUE, formed |-> TRUE, weight |-> weight, severity |-> weight, colour |-> weight,
   reaction |-> reaction, affects |-> affects]
MCDefault ==
  [frame |-> TRUE,
   alerts |-> [c \in Codes |->
     IF c \in MandatedCodes
       THEN Plain(Mandated(c).weight, Mandated(c).reaction, Mandated(c).affects)
       ELSE Plain(2, "continue_degraded", FALSE)]]
MCEntries ==
  {[enabled |-> enabled, formed |-> TRUE, weight |-> look[1], severity |-> look[2],
    colour |-> look[3], reaction |-> reaction, affects |-> affects] :
     enabled \in BOOLEAN, affects \in BOOLEAN, reaction \in Reactions \cup {"a list"},
     look \in {<<0, 0, 0>>, <<2, 2, 2>>, <<3, 3, 3>>, <<4, 4, 4>>, <<5, 5, 5>>, <<4, 3, 4>>, <<2, 2, 4>>}}
MCCandidates ==
  {[MCDefault EXCEPT !.alerts[c] = e] : c \in Codes, e \in MCEntries}
  \cup {[MCDefault EXCEPT !.alerts[c].formed = FALSE] : c \in Codes}
  \cup {[frame |-> f, alerts |-> [c \in Codes \ missing |-> MCDefault.alerts[c]]] :
          f \in BOOLEAN, missing \in SUBSET Codes}

Symmetry ==
  Permutations(Devices) \cup Permutations(Names) \cup Permutations(Roles) \cup Permutations(Clients)
=============================================================================
