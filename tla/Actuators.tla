------------------------------ MODULE Actuators ------------------------------
(***************************************************************************)
(* The two actuators of the core: the DAC that drives the fans and the      *)
(* AERO unit.  Each has a lock of its own in VentilationService (service.py *)
(* :59-60), a worker process of its own and a bus of its own; a command for *)
(* one never waits for the other.  Their interleavings add nothing: a       *)
(* behaviour follows one of them, the other stays as it starts.             *)
(***************************************************************************)
EXTENDS DacControl, AeroControl

VARIABLE focus

vars == <<focus, dacVars, aeroVars>>

(* The actuator that is not followed starts with zeros in its registers.    *)
Init ==
  /\ focus \in {"dac", "aero"}
  /\ DacInit /\ (focus # "dac" => dac = [c \in Channels |-> 0])
  /\ AeroInit /\ (focus # "aero" => regs = [r \in Registers |-> 0])

Next ==
  /\ UNCHANGED focus
  /\ \/ focus = "dac" /\ DacNext /\ UNCHANGED aeroVars
     \/ focus = "aero" /\ AeroNext /\ UNCHANGED dacVars

(* An actuator that stays as it starts is down, and nothing is due in it.   *)
Spec == Init /\ [][Next]_vars /\ DacFairness /\ AeroFairness
=============================================================================
