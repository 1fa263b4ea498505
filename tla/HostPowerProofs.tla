--------------------------- MODULE HostPowerProofs ---------------------------
(***************************************************************************)
(* What HostPower guarantees for every set of outputs and of values, and   *)
(* any number of failures, requests, deaths of the agent and restarts.     *)
(***************************************************************************)
EXTENDS HostPower, TLAPS

------------------------------------------------------------------------------
(* Types *)

LEMMA OffType == Fan!Off \in [Channels -> Codes]
  BY HostPowerAssumption DEF Fan!Off

LEMMA FreshType == Fresh \in Agents
  BY DEF Fresh, Agents, Actions

\* Moving the agent keeps its type.
LEMMA AgentUpdates ==
  ASSUME NEW w \in Agents,
         NEW s \in {"idle", "stop", "status", "airing", "speed", "isolate", "answer"}
  PROVE  /\ [w EXCEPT !.step = s] \in Agents
         /\ [w EXCEPT !.step = s, !.confirmed = TRUE] \in Agents
         /\ [w EXCEPT !.step = s, !.pending = FALSE] \in Agents
         /\ [w EXCEPT !.pending = FALSE] \in Agents
         /\ \A r \in {"none", "stopped", "zero", "other"} : [w EXCEPT !.reply = r] \in Agents
         /\ \A a \in Actions : [w EXCEPT !.step = s, !.action = a, !.pending = TRUE] \in Agents
  BY DEF Agents

\* The fields of the agent.
LEMMA AgentFields == PowerTypeOK => ag \in Agents /\ ag.action \in Actions /\ ag.pending \in BOOLEAN
  BY DEF PowerTypeOK, Agents

\* What the fan core may do, whoever it does it for.
LEMMA FanType ==
  ASSUME PowerTypeOK, Fan!Next
  PROVE  /\ out' \in [Channels -> Codes] /\ promise' \in [Channels -> Codes]
         /\ goal' \in [Channels -> Codes] /\ status' \in {"trusted", "working", "unknown"}
<1>1. ASSUME NEW g \in Goals, Fan!Begin(g)
      PROVE  /\ out' \in [Channels -> Codes] /\ promise' \in [Channels -> Codes]
             /\ goal' \in [Channels -> Codes] /\ status' \in {"trusted", "working", "unknown"}
  BY <1>1, HostPowerAssumption DEF PowerTypeOK, Fan!Begin
<1>2. ASSUME NEW c \in Channels, Fan!Drive(c) \/ Fan!SwitchOff(c)
      PROVE  /\ out' \in [Channels -> Codes] /\ promise' \in [Channels -> Codes]
             /\ goal' \in [Channels -> Codes] /\ status' \in {"trusted", "working", "unknown"}
  BY <1>2, HostPowerAssumption DEF PowerTypeOK, Fan!Drive, Fan!SwitchOff
<1>3. ASSUME Fan!Commit \/ Fan!Lose \/ Fan!Restore
      PROVE  /\ out' \in [Channels -> Codes] /\ promise' \in [Channels -> Codes]
             /\ goal' \in [Channels -> Codes] /\ status' \in {"trusted", "working", "unknown"}
  BY <1>3, OffType DEF PowerTypeOK, Fan!Commit, Fan!Lose, Fan!Restore
<1> QED
  BY <1>1, <1>2, <1>3 DEF Fan!Next

LEMMA FanStepIsNext == FanStep => Fan!Next
  BY DEF FanStep, Fan!Next

LEMMA TypeInit == PowerInit => PowerTypeOK
<1> SUFFICES ASSUME PowerInit
             PROVE  PowerTypeOK
  OBVIOUS
<1>1. /\ out \in [Channels -> Codes] /\ promise \in [Channels -> Codes]
      /\ goal \in [Channels -> Codes] /\ status = "unknown"
  BY OffType DEF PowerInit, Fan!Init
<1>2. ag \in Agents /\ timers \subseteq Actions /\ host \subseteq Actions
  BY FreshType DEF PowerInit
<1> QED
  BY <1>1, <1>2 DEF PowerInit, PowerTypeOK

LEMMA TypeStep == PowerTypeOK /\ [PowerNext]_powerVars => PowerTypeOK'
<1> SUFFICES ASSUME PowerTypeOK, [PowerNext]_powerVars
             PROVE  PowerTypeOK'
  OBVIOUS
<1> USE AgentFields
<1>1. ASSUME NEW a \in Sent, Request(a)
      PROVE  PowerTypeOK'
  <2>1. ag' \in Agents
    BY <1>1, FreshType, AgentUpdates DEF Request
  <2> QED
    BY <1>1, <2>1 DEF Request, PowerTypeOK, fanVars
<1>2. CASE ClientLeaves
  BY <1>2 DEF ClientLeaves, PowerTypeOK, fanVars
<1>3. CASE CoreStops
  <2>1. ag' \in Agents
    BY <1>3, AgentUpdates DEF CoreStops
  <2> QED
    BY <1>3, <2>1 DEF CoreStops, PowerTypeOK, fanVars
<1>4. CASE CoreReplies
  <2>1. PICK zero \in SaysZero : ag' = [ag EXCEPT !.reply = IF zero THEN "zero" ELSE "other"]
    BY <1>4 DEF CoreReplies
  <2>2. ag' \in Agents
    BY <2>1, AgentUpdates
  <2> QED
    BY <1>4, <2>2 DEF CoreReplies, PowerTypeOK, fanVars
<1>5. CASE StopConfirmed \/ StopUnconfirmed \/ StatusRead \/ AeroAsked
  <2>1. ag' \in Agents
    BY <1>5, AgentUpdates DEF StopConfirmed, StopUnconfirmed, StatusRead, AeroAsked
  <2> QED
    BY <1>5, <2>1
    DEF StopConfirmed, StopUnconfirmed, StatusRead, AeroAsked, PowerTypeOK, fanVars
<1>6. CASE Isolate \/ IsolateFails
  <2>1. ag' \in Agents
    BY <1>6, AgentUpdates DEF Isolate, IsolateFails
  <2> QED
    BY <1>6, <2>1 DEF Isolate, IsolateFails, PowerTypeOK, fanVars
<1>7. CASE Accept \/ AcceptFails
  <2>1. ag' \in Agents
    BY <1>7, AgentUpdates DEF Accept, AcceptFails
  <2> QED
    BY <1>7, <2>1 DEF Accept, AcceptFails, PowerTypeOK, fanVars
<1>8. ASSUME NEW a \in Actions, Launch(a) \/ LaunchFails(a)
      PROVE  PowerTypeOK'
  <2>1. ag' \in Agents
    BY <1>8, AgentUpdates DEF Launch, LaunchFails
  <2> QED
    BY <1>8, <2>1 DEF Launch, LaunchFails, PowerTypeOK, fanVars
<1>9. CASE Start \/ Die
  BY <1>9, FreshType DEF Start, Die, PowerTypeOK, fanVars
<1>10. CASE HostBoots
  BY <1>10, FreshType, OffType DEF HostBoots, Fan!Lose, PowerTypeOK
<1>11. CASE FanStep
  BY <1>11, FanStepIsNext, FanType DEF FanStep, PowerTypeOK
<1>12. CASE UNCHANGED powerVars
  BY <1>12 DEF powerVars, fanVars, PowerTypeOK
<1> QED
  BY <1>1, <1>2, <1>3, <1>4, <1>5, <1>6, <1>7, <1>8, <1>9, <1>10, <1>11, <1>12
  DEF PowerNext, AgentStep, TimerStep

\* Every variable keeps its type, and the agent never holds an action that is
\* not among its COMMANDS.
THEOREM TypesAreKept == PowerSpec => []PowerTypeOK
<1> QED
  BY TypeInit, TypeStep, PTL DEF PowerSpec

------------------------------------------------------------------------------
(* The relay and the power actions *)

\* A process that is gone leaves nothing behind.
DownMeansFresh == agentPhase = "down" => ag = Fresh /\ timers = {} /\ relay = "off"

\* An action that will be left to the timer has the 12 V domain off already.
IsolatedBeforeAnswer == ag.step = "answer" => relay = "off"

\* Until something fails, a request is prepared while no action is on its way,
\* and an action on its way is a pending one.
OneAtATime ==
  powerFaults = 0 /\ agentPhase = "up" =>
    /\ ag.step # "idle" => ag.pending /\ timers = {} /\ host = {}
    /\ timers \cup host # {} => ag.pending

PowerInv ==
  PowerTypeOK /\ DownMeansFresh /\ IsolatedBeforeAnswer /\ IsolatedBeforeDown /\ OneAtATime /\ OneAction

LEMMA PowerStarts == PowerInit => PowerInv
  BY TypeInit
  DEF PowerInit, PowerInv, DownMeansFresh, IsolatedBeforeAnswer, IsolatedBeforeDown, OneAtATime,
      OneAction, Fresh

LEMMA PowerStep == PowerInv /\ [PowerNext]_powerVars => PowerInv'
<1> SUFFICES ASSUME PowerInv, [PowerNext]_powerVars
             PROVE  PowerInv'
  OBVIOUS
<1>0. PowerTypeOK'
  BY TypeStep DEF PowerInv
<1> USE <1>0, AgentFields
    DEF PowerInv, DownMeansFresh, IsolatedBeforeAnswer, IsolatedBeforeDown, OneAtATime, OneAction
<1>1. ASSUME NEW a \in Sent, Request(a)
      PROVE  PowerInv'
  <2>1. ag'.step = "stop" /\ ag'.pending
    BY <1>1 DEF Request, Fresh
  <2> QED
    BY <1>1, <2>1 DEF Request, PowerTypeOK
<1>2. CASE ClientLeaves
  BY <1>2 DEF ClientLeaves
<1>3. CASE CoreStops \/ CoreReplies
  <2>1. ag'.step = ag.step /\ ag'.pending = ag.pending /\ agentPhase = "up"
    BY <1>3 DEF CoreStops, CoreReplies, PowerTypeOK, Agents, Fresh
  <2> QED
    BY <1>3, <2>1 DEF CoreStops, CoreReplies
<1>4. CASE StopConfirmed \/ StopUnconfirmed \/ StatusRead \/ AeroAsked
  <2>1. ag.step # "idle" /\ agentPhase = "up"
    BY <1>4 DEF StopConfirmed, StopUnconfirmed, StatusRead, AeroAsked, PowerTypeOK, Fresh
  <2>2. ag'.step \notin {"idle", "answer"}
    BY <1>4 DEF StopConfirmed, StopUnconfirmed, StatusRead, AeroAsked, PowerTypeOK, Agents
  <2>3. ag'.pending = ag.pending
    BY <1>4 DEF StopConfirmed, StopUnconfirmed, StatusRead, AeroAsked, PowerTypeOK, Agents
  <2> QED
    BY <1>4, <2>1, <2>2, <2>3 DEF StopConfirmed, StopUnconfirmed, StatusRead, AeroAsked
<1>5. CASE Isolate
  <2>1. ag.step # "idle" /\ ag'.pending = ag.pending /\ agentPhase = "up"
    BY <1>5 DEF Isolate, PowerTypeOK, Agents, Fresh
  <2> QED
    BY <1>5, <2>1 DEF Isolate
<1>6. CASE IsolateFails
  <2>1. ag'.step = "idle" /\ powerFaults' # 0 /\ agentPhase = "up"
    BY <1>6 DEF IsolateFails, PowerTypeOK, Agents, Fresh
  <2>2. relay = "off" => relay' = "off"
    BY <1>6 DEF IsolateFails
  <2> QED
    BY <1>6, <2>1, <2>2 DEF IsolateFails
<1>7. CASE Accept \/ AcceptFails
  <2>1. /\ ag'.step = "idle" /\ ag.step = "answer" /\ ag'.pending = ag.pending /\ agentPhase = "up"
        /\ UNCHANGED <<agentPhase, relay, host, powerFaults>>
        /\ timers' \in {timers, timers \cup {ag.action}}
    BY <1>7 DEF Accept, AcceptFails, PowerTypeOK, Agents, Fresh
  <2> QED
    BY <2>1
<1>8. ASSUME NEW a \in Actions, Launch(a)
      PROVE  PowerInv'
  BY <1>8 DEF Launch
<1>9. ASSUME NEW a \in Actions, LaunchFails(a)
      PROVE  PowerInv'
  <2>1. ag'.step = ag.step /\ powerFaults' # 0 /\ agentPhase = "up"
    BY <1>9 DEF LaunchFails, PowerTypeOK, Agents
  <2> QED
    BY <1>9, <2>1 DEF LaunchFails
<1>10. CASE Start \/ Die
  BY <1>10 DEF Start, Die, Fresh
<1>11. CASE HostBoots
  BY <1>11 DEF HostBoots, Fresh
<1>12. CASE FanStep
  BY <1>12 DEF FanStep
<1>13. CASE UNCHANGED powerVars
  BY <1>13 DEF powerVars
<1> QED
  BY <1>1, <1>2, <1>3, <1>4, <1>5, <1>6, <1>7, <1>8, <1>9, <1>10, <1>11, <1>12, <1>13
  DEF PowerNext, AgentStep, TimerStep

LEMMA PowerInvariance == PowerSpec => []PowerInv
<1> QED
  BY PowerStarts, PowerStep, PTL DEF PowerSpec

\* The host is never told to go down, nor a timer left to tell it, with the 12 V
\* domain on.
THEOREM Isolated == PowerSpec => []IsolatedBeforeDown
<1>1. PowerInv => IsolatedBeforeDown
  BY DEF PowerInv
<1> QED
  BY <1>1, PowerInvariance, PTL

\* Without a failure, one power action at a time is on its way.
THEOREM OneActionAtATime == PowerSpec => []OneAction
<1>1. PowerInv => OneAction
  BY DEF PowerInv
<1> QED
  BY <1>1, PowerInvariance, PTL

------------------------------------------------------------------------------
(* The confirmation of the local stop *)

\* What FanSafety knows between its steps.
PromiseHolds ==
  /\ status = "trusted" => out = promise /\ goal = Fan!Off
  /\ status = "unknown" => promise = Fan!Off /\ goal = Fan!Off

\* The agent notes a confirmation on nothing but such a reply.
ConfirmedByReply == ag.confirmed => ag.reply = "zero"

\* After a reply that says zero, until a client asks for running fans, whatever
\* the core does it does with outputs at zero.
CalmSinceReply ==
  ag.reply = "zero" /\ ~driven => out = Fan!Off /\ goal = Fan!Off /\ promise = Fan!Off

StopInv == PowerTypeOK /\ PromiseHolds /\ ConfirmedByReply /\ CalmSinceReply

LEMMA StopInit == PowerInit => StopInv
  BY TypeInit DEF PowerInit, Fan!Init, StopInv, PromiseHolds, ConfirmedByReply, CalmSinceReply, Fresh

LEMMA FanCalm ==
  ASSUME StopInv, FanStep
  PROVE  PromiseHolds' /\ CalmSinceReply'
<1>1. UNCHANGED ag
  BY DEF FanStep
<1>2. ASSUME NEW g \in Goals, Fan!Begin(g), driven' = (driven \/ g # Fan!Off)
      PROVE  PromiseHolds' /\ CalmSinceReply'
  BY <1>1, <1>2 DEF StopInv, PromiseHolds, CalmSinceReply, Fan!Begin, PowerTypeOK, Fan!Off
<1>3. ASSUME NEW c \in Channels, Fan!Drive(c), UNCHANGED driven
      PROVE  PromiseHolds' /\ CalmSinceReply'
  <2>1. out = Fan!Off /\ goal = Fan!Off => out' = Fan!Off
    BY <1>3 DEF Fan!Drive, Fan!Off
  <2> QED
    BY <1>1, <1>3, <2>1 DEF StopInv, PromiseHolds, CalmSinceReply, Fan!Drive, Fan!Off
<1>4. ASSUME NEW c \in Channels, Fan!SwitchOff(c), UNCHANGED driven
      PROVE  PromiseHolds' /\ CalmSinceReply'
  <2>1. out = Fan!Off => out' = Fan!Off
    BY <1>4 DEF Fan!SwitchOff, Fan!Off
  <2> QED
    BY <1>1, <1>4, <2>1 DEF StopInv, PromiseHolds, CalmSinceReply, Fan!SwitchOff, Fan!Off
<1>5. ASSUME Fan!Commit \/ Fan!Lose \/ Fan!Restore, UNCHANGED driven
      PROVE  PromiseHolds' /\ CalmSinceReply'
  BY <1>1, <1>5
  DEF StopInv, PromiseHolds, CalmSinceReply, Fan!Commit, Fan!Lose, Fan!Restore, Fan!Off
<1> QED
  BY <1>2, <1>3, <1>4, <1>5 DEF FanStep

LEMMA StopStep == StopInv /\ [PowerNext]_powerVars => StopInv'
<1> SUFFICES ASSUME StopInv, [PowerNext]_powerVars
             PROVE  StopInv'
  OBVIOUS
<1>0. PowerTypeOK'
  BY TypeStep DEF StopInv
\* A step that leaves the fan core alone, and the reply as it is or unset.
<1>1. ASSUME UNCHANGED <<fanVars, driven>>,
             (ag'.reply = ag.reply /\ ag'.confirmed = ag.confirmed) \/ ag' = Fresh
      PROVE  StopInv'
  BY <1>0, <1>1 DEF StopInv, PromiseHolds, ConfirmedByReply, CalmSinceReply, fanVars, Fresh, Fan!Off
<1>2. ASSUME NEW a \in Sent, Request(a)
      PROVE  StopInv'
  <2>1. ag'.reply = "none" /\ ~ag'.confirmed
    BY <1>2 DEF Request, Fresh
  <2> QED
    BY <1>0, <1>2, <2>1
    DEF StopInv, PromiseHolds, ConfirmedByReply, CalmSinceReply, Request, fanVars, Fan!Off
<1>3. CASE CoreStops
  <2>1. ag'.reply = "stopped" /\ ~ag'.confirmed
    BY <1>3 DEF CoreStops, StopInv, ConfirmedByReply, PowerTypeOK, Agents
  <2> QED
    BY <1>0, <1>3, <2>1
    DEF StopInv, PromiseHolds, ConfirmedByReply, CalmSinceReply, CoreStops, fanVars, Fan!Off
<1>4. CASE CoreReplies
  <2>1. PICK zero \in SaysZero : ag' = [ag EXCEPT !.reply = IF zero THEN "zero" ELSE "other"]
    BY <1>4 DEF CoreReplies
  <2>2. ~ag'.confirmed
    BY <1>4, <2>1 DEF CoreReplies, StopInv, ConfirmedByReply, PowerTypeOK, Agents
  <2>3. ag'.reply = "zero" => zero
    BY <2>1 DEF StopInv, PowerTypeOK, Agents
  <2>4. zero => out = Fan!Off /\ goal = Fan!Off /\ promise = Fan!Off
    BY <1>4, <2>1 DEF SaysZero, CoreReplies, StopInv, PromiseHolds, PowerTypeOK
  <2> QED
    BY <1>0, <1>4, <2>2, <2>3, <2>4
    DEF StopInv, PromiseHolds, ConfirmedByReply, CalmSinceReply, CoreReplies, fanVars, Fan!Off
<1>5. CASE StopConfirmed
  <2>1. ag'.reply = ag.reply /\ ag.reply = "zero"
    BY <1>5 DEF StopConfirmed, StopInv, PowerTypeOK, Agents
  <2> QED
    BY <1>0, <1>5, <2>1
    DEF StopInv, PromiseHolds, ConfirmedByReply, CalmSinceReply, StopConfirmed, fanVars, Fan!Off
<1>6. CASE AgentStep /\ ~StopConfirmed
  BY <1>1, <1>6
  DEF AgentStep, StopUnconfirmed, StatusRead, AeroAsked, Isolate, IsolateFails, Accept,
      AcceptFails, StopInv, PowerTypeOK, Agents
<1>7. CASE TimerStep \/ ClientLeaves
  BY <1>1, <1>7 DEF TimerStep, Launch, LaunchFails, ClientLeaves, StopInv, PowerTypeOK, Agents
<1>8. CASE Start \/ Die
  BY <1>1, <1>8 DEF Start, Die
<1>9. CASE HostBoots
  BY <1>0, <1>9
  DEF HostBoots, Fan!Lose, StopInv, PromiseHolds, ConfirmedByReply, CalmSinceReply, Fresh, Fan!Off
<1>10. CASE FanStep
  <2>1. UNCHANGED ag
    BY <1>10 DEF FanStep
  <2> QED
    BY <1>0, <1>10, <2>1, FanCalm DEF StopInv, ConfirmedByReply
<1>11. CASE UNCHANGED powerVars
  BY <1>1, <1>11 DEF powerVars
<1> QED
  BY <1>2, <1>3, <1>4, <1>5, <1>6, <1>7, <1>8, <1>9, <1>10, <1>11 DEF PowerNext

\* A stop the agent has noted as confirmed left both outputs at zero, where they
\* stay until a client asks for running fans.
THEOREM Confirmed == PowerSpec => []ConfirmedMeansOff
<1>1. StopInv => ConfirmedMeansOff
  BY DEF StopInv, ConfirmedByReply, CalmSinceReply, ConfirmedMeansOff
<1> QED
  BY <1>1, StopInit, StopStep, PTL DEF PowerSpec
==============================================================================
