---------------------------- MODULE MCAeroRollback ---------------------------
(***************************************************************************)
(* AeroControl on a bus that shows protocol errors only, against what the  *)
(* stage 3B report says the executor does about them.                      *)
(***************************************************************************)
EXTENDS AeroControl

MCCommands == {[reg |-> "speed", value |-> 1]}

\* CM5_AERO_BUS_STAGE3B_FINAL_REPORT_AND_HANDOFF_PL.md:70 says that when a
\* protocol error occurs after the write, the executor tries to restore the
\* register's previous value. Stated of the write itself, its readback and the
\* polls that wait for the physical confirmation.
RollbackAfterWriteError ==
  [][ProtocolError /\ busWk.pc \in {"write", "readback", "confirm"} => busWk'.pc = "restore"]_aeroVars
==============================================================================
