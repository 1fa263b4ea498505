------------------------ MODULE MCPowerAndTelemetry --------------------------
(* Fans that are off or run; buckets of one and of two intervals, and two   *)
(* devices that change places.                                              *)
EXTENDS PowerAndTelemetry

CONSTANTS supply, extract

MCChannels == {supply, extract}
MCCodes == {0, 1}
MCGoals == [MCChannels -> MCCodes]

MCResolutions == {"fine", "coarse"}
MCWidth == [r \in MCResolutions |-> IF r = "fine" THEN 1 ELSE 2]
MCKeep == [r \in MCResolutions |-> IF r = "fine" THEN 2 ELSE 4]
\* The shortest retention that is accepted.
MCKept == [step \in StepSeconds |-> CASE step = 900 -> 1095 [] step = 3600 -> 1825 [] step = Day -> 3650 [] OTHER -> 1]
MCRoles == {"supply", "extract"}
MCDevices ==
  [n \in 1..MaxSamples |->
     CASE n = 1 -> <<[role |-> "supply", temp |-> 20], [role |-> "extract", temp |-> 10]>>
       [] n = 2 -> <<[role |-> "supply", temp |-> NoValue], [role |-> "extract", temp |-> 12]>>
       [] OTHER -> <<[role |-> "extract", temp |-> 11], [role |-> "supply", temp |-> 21]>>]
=============================================================================
