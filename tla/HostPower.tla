------------------------------- MODULE HostPower -------------------------------
(***************************************************************************)
(* Shutting the host down or restarting it: HostPowerAgent serves one      *)
(* connection at a time, has the fan core stop the fans, switches the 12 V *)
(* domain off through Dfr0473PowerDomain, answers, and leaves the power    *)
(* action to a timer.                                                      *)
(*                                                                         *)
(* The fan core is FanSafety, which DacControl implements, with all the    *)
(* clients it has beside the agent. The two AERO requests end one way or   *)
(* another and decide nothing; what they do is AeroControl's subject.      *)
(***************************************************************************)
EXTENDS Naturals

CONSTANTS
  Channels, Codes, Goals,   \* of FanSafety
  MaxPowerFaults            \* bound: failures of the relay's line and of systemctl

ASSUME HostPowerAssumption ==
  /\ 0 \in Codes
  /\ Goals \subseteq [Channels -> Codes]
  /\ MaxPowerFaults \in Nat

VARIABLES
  out, status, promise, goal   \* of FanSafety

VARIABLES
  agentPhase,   \* the agent's process: down, up
  ag,           \* the agent: the step of _handle_connection it is at, the request,
                \* the core's reply to STOP, local_stop_confirmed, _action_pending
  client,       \* the client of the connection: none, waiting, gone, accepted
  timers,       \* actions whose timer runs
  relay,        \* the 12 V domain: on, off
  host,         \* power actions systemd has been told of
  powerFaults,  \* failures so far
  driven        \* whether a client has asked for running fans since the core's
                \* reply to STOP was made; only the properties use it

Fan == INSTANCE FanSafety

fanVars == <<out, status, promise, goal>>

powerVars == <<fanVars, agentPhase, ag, client, timers, relay, host, powerFaults, driven>>

------------------------------------------------------------------------------

\* COMMANDS, and what clients send.
Actions == {"shutdown", "restart"}

Sent == Actions \cup {"halt"}

Fresh ==
  [step |-> "idle", action |-> "shutdown", reply |-> "none", confirmed |-> FALSE,
   pending |-> FALSE]

\* What state() says when its caller gets the service's lock: known outputs at
\* 0 V in mode STOP, or anything else. A core that does not know yet that its
\* worker is gone may still say so of outputs that are off.
SaysZero == IF status = "trusted" THEN {promise = Fan!Off} ELSE {FALSE, out = Fan!Off}

------------------------------------------------------------------------------
(* A request to the agent *)

\* Mutant of Request: any action is taken.
RequestUnchecked(a) ==
  /\ agentPhase = "up"
  /\ ag.step = "idle"
  /\ ~ag.pending
  /\ ag' = [Fresh EXCEPT !.step = "stop", !.action = a, !.pending = TRUE]
  /\ client' = "waiting"
  /\ UNCHANGED <<fanVars, agentPhase, timers, relay, host, powerFaults, driven>>

\* Mutant of Request: a pending action does not keep others out.
RequestAnyway(a) ==
  /\ agentPhase = "up"
  /\ ag.step = "idle"
  /\ a \in Actions
  /\ ag' = [Fresh EXCEPT !.step = "stop", !.action = a, !.pending = TRUE]
  /\ client' = "waiting"
  /\ UNCHANGED <<fanVars, agentPhase, timers, relay, host, powerFaults, driven>>

\* A request is taken unless an action is pending; the next thing is STOP. A
\* refused one changes nothing.
Request(a) ==
  /\ agentPhase = "up"
  /\ ag.step = "idle"
  /\ a \in Actions
  /\ ~ag.pending
  /\ ag' = [Fresh EXCEPT !.step = "stop", !.action = a, !.pending = TRUE]
  /\ client' = "waiting"
  /\ UNCHANGED <<fanVars, agentPhase, timers, relay, host, powerFaults, driven>>

\* The client disconnects before it is answered.
ClientLeaves ==
  /\ client = "waiting"
  /\ client' = "gone"
  /\ UNCHANGED <<fanVars, agentPhase, ag, timers, relay, host, powerFaults, driven>>

\* The core has carried the agent's STOP out.
CoreStops ==
  /\ ag.step = "stop"
  /\ ag.reply = "none"
  /\ status = "trusted"
  /\ promise = Fan!Off
  /\ ag' = [ag EXCEPT !.reply = "stopped"]
  /\ UNCHANGED <<fanVars, agentPhase, client, timers, relay, host, powerFaults, driven>>

\* AlertingVentilationService.stop reads the state it answers with under the
\* lock anew, when another client's command may have come in between.
CoreReplies ==
  /\ ag.step = "stop"
  /\ ag.reply = "stopped"
  /\ status # "working"
  /\ \E zero \in SaysZero : ag' = [ag EXCEPT !.reply = IF zero THEN "zero" ELSE "other"]
  /\ driven' = FALSE
  /\ UNCHANGED <<fanVars, agentPhase, client, timers, relay, host, powerFaults>>

\* Mutant of StopConfirmed: the reply's state is not looked at.
StopBelieved ==
  /\ ag.step = "stop"
  /\ ag.reply \in {"zero", "other"}
  /\ \E s \in {"airing", "isolate"} : ag' = [ag EXCEPT !.step = s, !.confirmed = TRUE]
  /\ UNCHANGED <<fanVars, agentPhase, client, timers, relay, host, powerFaults, driven>>

\* The reply passes _require_local_zero. AERO is passed over when the same
\* reply says that it is unavailable.
StopConfirmed ==
  /\ ag.step = "stop"
  /\ ag.reply = "zero"
  /\ \E s \in {"airing", "isolate"} : ag' = [ag EXCEPT !.step = s, !.confirmed = TRUE]
  /\ UNCHANGED <<fanVars, agentPhase, client, timers, relay, host, powerFaults, driven>>

\* STOP fails, is not answered in time, or its reply does not pass; the core may
\* carry it out later all the same.
StopUnconfirmed ==
  /\ ag.step = "stop"
  /\ ag' = [ag EXCEPT !.step = "status"]
  /\ UNCHANGED <<fanVars, agentPhase, client, timers, relay, host, powerFaults, driven>>

\* The status asked for instead says whether AERO is unavailable, or is not had.
StatusRead ==
  /\ ag.step = "status"
  /\ \E s \in {"airing", "isolate"} : ag' = [ag EXCEPT !.step = s]
  /\ UNCHANGED <<fanVars, agentPhase, client, timers, relay, host, powerFaults, driven>>

\* A request to AERO is confirmed, fails or times out.
AeroAsked ==
  /\ \/ ag.step = "airing" /\ ag' = [ag EXCEPT !.step = "speed"]
     \/ ag.step = "speed" /\ ag' = [ag EXCEPT !.step = "isolate"]
  /\ UNCHANGED <<fanVars, agentPhase, client, timers, relay, host, powerFaults, driven>>

\* power_off succeeds.
Isolate ==
  /\ ag.step = "isolate"
  /\ relay' = "off"
  /\ ag' = [ag EXCEPT !.step = "answer"]
  /\ UNCHANGED <<fanVars, agentPhase, client, timers, host, powerFaults, driven>>

\* Mutant of IsolateFails: the relay is best effort, as the fans and AERO are.
IsolateFailsAnyway ==
  /\ ag.step = "isolate"
  /\ powerFaults < MaxPowerFaults
  /\ powerFaults' = powerFaults + 1
  /\ relay' \in {relay, "off"}
  /\ ag' = [ag EXCEPT !.step = "answer"]
  /\ UNCHANGED <<fanVars, agentPhase, client, timers, host, driven>>

\* Mutant of IsolateFails: the flag is not reset.
IsolateFailsPending ==
  /\ ag.step = "isolate"
  /\ powerFaults < MaxPowerFaults
  /\ powerFaults' = powerFaults + 1
  /\ relay' \in {relay, "off"}
  /\ ag' = [ag EXCEPT !.step = "idle"]
  /\ client' = "none"
  /\ UNCHANGED <<fanVars, agentPhase, timers, host, driven>>

\* power_off raises, whatever the line carries now, and the request is refused.
IsolateFails ==
  /\ ag.step = "isolate"
  /\ powerFaults < MaxPowerFaults
  /\ powerFaults' = powerFaults + 1
  /\ relay' \in {relay, "off"}
  /\ ag' = [ag EXCEPT !.step = "idle", !.pending = FALSE]
  /\ client' = "none"
  /\ UNCHANGED <<fanVars, agentPhase, timers, host, driven>>

\* The client is told that its request is accepted, and the timer started.
Accept ==
  /\ ag.step = "answer"
  /\ client = "waiting"
  /\ ag' = [ag EXCEPT !.step = "idle"]
  /\ client' = "accepted"
  /\ timers' = timers \cup {ag.action}
  /\ UNCHANGED <<fanVars, agentPhase, relay, host, powerFaults, driven>>

\* The client is gone: the answer raises OSError, which ends the handler.
AcceptFails ==
  /\ ag.step = "answer"
  /\ client = "gone"
  /\ ag' = [ag EXCEPT !.step = "idle"]
  /\ client' = "none"
  /\ UNCHANGED <<fanVars, agentPhase, timers, relay, host, powerFaults, driven>>

------------------------------------------------------------------------------
(* The timer, the agent's process and the host *)

\* _execute_action has systemd begin the power action.
Launch(a) ==
  /\ a \in timers
  /\ timers' = timers \ {a}
  /\ host' = host \cup {a}
  /\ UNCHANGED <<fanVars, agentPhase, ag, client, relay, powerFaults, driven>>

\* systemctl fails, or is not done in time, when systemd may have been told.
LaunchFails(a) ==
  /\ a \in timers
  /\ powerFaults < MaxPowerFaults
  /\ powerFaults' = powerFaults + 1
  /\ timers' = timers \ {a}
  /\ host' \in {host, host \cup {a}}
  /\ ag' = [ag EXCEPT !.pending = FALSE]
  /\ UNCHANGED <<fanVars, agentPhase, client, relay, driven>>

\* The agent claims the line, switches the domain on and serves. A claim that
\* fails leaves the domain off and systemd to try again; systemd starts nothing
\* any more when the host is going down.
Start ==
  /\ agentPhase = "down"
  /\ host = {}
  /\ agentPhase' = "up"
  /\ relay' = "on"
  /\ UNCHANGED <<fanVars, ag, client, timers, host, powerFaults, driven>>

\* The agent is stopped or dies. Either way the line is released, which switches
\* the domain off, and timers die with their process.
Die ==
  /\ agentPhase = "up"
  /\ agentPhase' = "down"
  /\ ag' = Fresh
  /\ client' = "none"
  /\ timers' = {}
  /\ relay' = "off"
  /\ UNCHANGED <<fanVars, host, powerFaults, driven>>

\* A restarted host comes up; what the fan core knew is lost.
HostBoots ==
  /\ host = {"restart"}
  /\ host' = {}
  /\ agentPhase' = "down"
  /\ ag' = Fresh
  /\ client' = "none"
  /\ timers' = {}
  /\ relay' = "off"
  /\ Fan!Lose
  /\ UNCHANGED <<powerFaults, driven>>

\* The fan core goes on, for any client.
FanStep ==
  /\ \/ \E g \in Goals : Fan!Begin(g) /\ driven' = (driven \/ g # Fan!Off)
     \/ /\ \/ \E c \in Channels : Fan!Drive(c) \/ Fan!SwitchOff(c)
           \/ Fan!Commit \/ Fan!Lose \/ Fan!Restore
        /\ UNCHANGED driven
  /\ UNCHANGED <<agentPhase, ag, client, timers, relay, host, powerFaults>>

------------------------------------------------------------------------------

PowerInit ==
  /\ Fan!Init
  /\ agentPhase = "down"
  /\ ag = Fresh
  /\ client = "none"
  /\ timers = {}
  /\ relay = "off"
  /\ host = {}
  /\ powerFaults = 0
  /\ driven = FALSE

\* The thread that serves the connection goes on; each request to the core ends
\* after CORE_REQUEST_TIMEOUT_SECONDS at the latest.
AgentStep ==
  \/ StopConfirmed \/ StopUnconfirmed \/ StatusRead \/ AeroAsked
  \/ Isolate \/ IsolateFails \/ Accept \/ AcceptFails

TimerStep == \E a \in Actions : Launch(a) \/ LaunchFails(a)

PowerNext ==
  \/ \E a \in Sent : Request(a)
  \/ ClientLeaves \/ CoreStops \/ CoreReplies
  \/ AgentStep \/ TimerStep
  \/ Start \/ Die \/ HostBoots
  \/ FanStep

PowerSpec == PowerInit /\ [][PowerNext]_powerVars

PowerFairness == WF_powerVars(AgentStep) /\ WF_powerVars(TimerStep)

PowerFairSpec == PowerSpec /\ PowerFairness

------------------------------------------------------------------------------
(* Properties *)

Agents ==
  [step : {"idle", "stop", "status", "airing", "speed", "isolate", "answer"},
   action : Actions, reply : {"none", "stopped", "zero", "other"},
   confirmed : BOOLEAN, pending : BOOLEAN]

\* Every variable has its type; the agent only ever holds an action it knows.
PowerTypeOK ==
  /\ out \in [Channels -> Codes] /\ promise \in [Channels -> Codes]
  /\ goal \in [Channels -> Codes] /\ status \in {"trusted", "working", "unknown"}
  /\ agentPhase \in {"down", "up"}
  /\ ag \in Agents
  /\ client \in {"none", "waiting", "gone", "accepted"}
  /\ timers \subseteq Actions
  /\ relay \in {"on", "off"}
  /\ host \subseteq Actions
  /\ powerFaults \in Nat
  /\ driven \in BOOLEAN

\* From the moment a power action is left to the timer until the host has gone
\* down, the 12 V domain is off, whatever fails, dies and restarts meanwhile.
IsolatedBeforeDown == timers \cup host # {} => relay = "off"

\* Unless systemctl or the relay failed once, the host is never told of two
\* actions, nor of one while another's timer runs.
OneAction ==
  powerFaults = 0 => \A a, b \in timers \cup host : a = b

\* When the agent has noted that the local stop is confirmed, both outputs are
\* at zero from then on, whatever becomes of the core, until a client asks for
\* running fans, which nothing keeps it from.
ConfirmedMeansOff == ag.confirmed /\ ~driven => out = Fan!Off

\* A request, while its client stays connected, ends: the host goes down, or
\* the flag is reset and another request has its chance.
RequestsAreSettled ==
  ag.pending /\ client \in {"waiting", "accepted"} ~>
    ~ag.pending \/ host # {} \/ client = "gone"
==============================================================================
