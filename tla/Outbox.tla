-------------------------------- MODULE Outbox --------------------------------
(***************************************************************************)
(* What the telemetry agent promises: a sample that was captured is owed   *)
(* to the remote sink until the sink has it.  A transfer may happen more   *)
(* than once, and the sample is owed for a while after it has arrived; it  *)
(* is never given up before.                                               *)
(***************************************************************************)
EXTENDS Naturals

VARIABLES captured,  \* how many samples were captured; they are numbered from 1
          owed,      \* the samples the agent still means to deliver
          delivered  \* the samples the sink has

vars == <<captured, owed, delivered>>

Init ==
  /\ captured = 0
  /\ owed = {}
  /\ delivered = {}

Capture ==
  /\ captured' = captured + 1
  /\ owed' = owed \cup {captured + 1}
  /\ UNCHANGED delivered

Deliver ==
  /\ delivered \subseteq delivered'
  /\ delivered' \subseteq 1..captured
  /\ UNCHANGED <<captured, owed>>

Settle ==
  /\ owed' \subseteq owed
  /\ owed \ owed' \subseteq delivered
  /\ UNCHANGED <<captured, delivered>>

Next == Capture \/ Deliver \/ Settle

Spec == Init /\ [][Next]_vars
===============================================================================
