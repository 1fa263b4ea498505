----------------------------- MODULE MCActuators -----------------------------
(* Fans: two running voltages and one below the running range.  AERO: two   *)
(* commands for one register and one for the other, whose first value may   *)
(* lie outside the range the executor accepts.                              *)
EXTENDS Actuators

MCRequested == {0, 5, 30, 60}

MCCommands ==
  {[reg |-> "speed", value |-> 1], [reg |-> "speed", value |-> 2], [reg |-> "airing", value |-> 1]}

MCHeld == {0, 2}
=============================================================================
