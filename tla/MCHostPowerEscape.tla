--------------------------- MODULE MCHostPowerEscape ---------------------------
(***************************************************************************)
(* HostPower with one fan that never runs, for what becomes of a request   *)
(* whose client does not wait for the answer.                              *)
(***************************************************************************)
EXTENDS HostPower

CONSTANT supply

MCChannels == {supply}
MCCodes == {0}
MCGoals == [MCChannels -> MCCodes]

\* docs/POWER_ON_OFF_ARCHITECTURE_PL.md:189 says that no communication error may
\* make it altogether impossible to shut the system down. A pending action,
\* which keeps all others out, comes to an end.
EscapeStaysOpen == ag.pending ~> ~ag.pending \/ host # {}
==============================================================================
