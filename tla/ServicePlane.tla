---------------------------- MODULE ServicePlane ----------------------------
(***************************************************************************)
(* The core's reading of the service agent: ServicePlaneMonitor polls the  *)
(* agent's status, ServicePlaneCorrelatingAlertRegistry joins it with the  *)
(* faults of the production SENSOR BUS before the alert registry sees      *)
(* them.  Every reconcile of the core polls, from the health loop and from *)
(* commands.  A poll is one step here: the agent's answer is a snapshot,   *)
(* and what the core makes of it depends on nothing else but its count of  *)
(* failures.                                                               *)
(***************************************************************************)
EXTENDS ServiceHeartbeat

CONSTANTS FaultCodes,    \* production faults of a node: the two codes that correlate
          NetworkParts,  \* parts of the service network that may fail
          Threshold      \* agent_failure_threshold

(* The codes of the signals are distinct. *)
ASSUME PlaneAssumption ==
  /\ Threshold \in Nat \ {0}
  /\ "kamod_unavailable" \notin FaultCodes \cup NetworkParts

VARIABLES
  faults,    \* per node: what the SENSOR BUS reports of it
  broken,    \* the parts of the service network that are down
  monitor,   \* ServicePlaneMonitor: availability and failures in a row
  out        \* what the last reconcile handed to the alert registry

planeVars == <<faults, broken, monitor, out>>
vars == <<heartbeatVars, planeVars>>
untroubled == <<source, air, replay, agent, runtime, diag, heard, seen>>

(* A signal is a code and the node it is about. *)
Signal(code, n) == [code |-> code, node |-> n]
AgentSignal == [code |-> "agent", node |-> "none"]
NetworkSignals(parts) == {[code |-> p, node |-> "none"] : p \in parts}

Views == [online : BOOLEAN, received : BOOLEAN, says : Conditions]

PlaneTypeOK ==
  /\ faults \in [Nodes -> SUBSET FaultCodes]
  /\ broken \subseteq NetworkParts
  /\ monitor \in [available : BOOLEAN, failures : 0..Threshold]
  /\ out.silent \subseteq Nodes

PlaneInit ==
  /\ faults \in [Nodes -> {{}, FaultCodes}]
  /\ broken = {}
  /\ monitor = [available |-> FALSE, failures |-> 0]
  /\ out = [signals |-> {}, silent |-> {}]

Init == HeartbeatInit /\ PlaneInit
TypeOK == HeartbeatTypeOK /\ PlaneTypeOK

-----------------------------------------------------------------------------
(* The SENSOR BUS finds a fault of a node, or finds it gone. *)
SensorBusChanges ==
  /\ Trouble
  /\ \E n \in Nodes, c \in FaultCodes :
       faults' = [faults EXCEPT ![n] = IF c \in @ THEN @ \ {c} ELSE @ \cup {c}]
  /\ UNCHANGED <<untroubled, broken, monitor, out>>

(* probe_service_network: one of its four conjuncts changes. *)
NetworkChanges ==
  /\ Trouble
  /\ \E p \in NetworkParts :
       broken' = IF p \in broken THEN broken \ {p} ELSE broken \cup {p}
  /\ UNCHANGED <<untroubled, faults, monitor, out>>

Base == UNION {{Signal(c, n) : c \in faults[n]} : n \in Nodes}

(* The agent's status answer.  Its node list knows the Modbus address of a  *)
(* The core takes the agent's age from two readings of the wall clock; the  *)
(* clock is not set between them here.                                      *)
Snapshot == [mature |-> agent.age >= Grace, broken |-> broken,
             nodes |-> [n \in Nodes |-> [online |-> runtime[n].online,
                                         received |-> runtime[n].received,
                                         says |-> runtime[n].says]]]
NoAnswer == [mature |-> FALSE]

(* Mutant of Polled: a poll that fails is not counted. *)
PolledForgiving(answer) ==
  IF answer = NoAnswer THEN [available |-> FALSE, failures |-> monitor.failures]
                       ELSE [available |-> TRUE, failures |-> 0]

Polled(answer) ==
  IF answer = NoAnswer
    THEN [available |-> FALSE, failures |-> IF monitor.failures < Threshold
                                              THEN monitor.failures + 1
                                              ELSE Threshold]
    ELSE [available |-> TRUE, failures |-> 0]

FaultsOf(base, n) == {s \in base : s.node = n}

(* Mutant of MissingForGood: no grace after a start of the agent. *)
MissingAtOnce(a, n) == ~a.nodes[n].online

(* The heartbeat of a node is missing for good: it has come before, or the  *)
(* agent has been up long enough for one to come.                           *)
MissingForGood(a, n) == ~a.nodes[n].online /\ (a.nodes[n].received \/ a.mature)

(* The root cause that the agent's facts give a production fault of a node: *)
(* without a production fault, or without an address, none.                 *)
Cause(base, a, n) ==
  IF FaultsOf(base, n) = {} \/ ~a.nodes[n].received THEN {}
  ELSE IF MissingForGood(a, n) THEN {Signal("kamod_unavailable", n)}
  ELSE IF ~a.nodes[n].online THEN {}
  ELSE IF a.nodes[n].says = "sensor_offline" THEN {Signal("kamod_sensor_state", n)}
  ELSE IF a.nodes[n].says = "rs485_not_ready" THEN {Signal("kamod_rs485", n)}
  ELSE {}

(* Mutant of Replaced: the agent's word replaces the fault of any node it   *)
(* has heard.                                                               *)
ReplacedIfHeard(base, a) ==
  UNION {FaultsOf(base, n) : n \in {m \in Nodes : a.nodes[m].received}}

(* The signals a cause stands for. *)
Replaced(base, a) ==
  UNION {FaultsOf(base, n) : n \in {m \in Nodes : Cause(base, a, m) # {}}}

SilentNodes(base, a) ==
  {n \in Nodes : MissingForGood(a, n) /\ Cause(base, a, n) = {}}

(* _correlate *)
Correlated(base, a, after) ==
  IF a = NoAnswer
    THEN [signals |-> IF after.failures >= Threshold THEN base \cup {AgentSignal}
                                                     ELSE base,
          silent |-> {}]
  ELSE IF a.broken # {}
    THEN [signals |-> base \cup NetworkSignals(a.broken), silent |-> {}]
  ELSE [signals |-> (base \ Replaced(base, a))
                      \cup UNION {Cause(base, a, n) : n \in Nodes},
        silent |-> SilentNodes(base, a)]

(* reconcile: the signals were built by the caller, the answer is counted   *)
(* under the monitor's lock and correlated.                                 *)
Reconcile(answer) ==
  /\ monitor' = Polled(answer)
  /\ out' = Correlated(Base, answer, monitor')
  /\ UNCHANGED <<faults, broken>>

(* The agent's thread answers between two datagrams. *)
Ask ==
  /\ agent.accepted = None
  /\ Reconcile(IF agent.up THEN Snapshot ELSE NoAnswer)
  /\ UNCHANGED heartbeatVars

(* The answer of a live agent comes after the time-out of the request. *)
AskInVain ==
  /\ agent.up /\ Trouble
  /\ Reconcile(NoAnswer)
  /\ UNCHANGED untroubled

Next ==
  \/ HeartbeatNext /\ UNCHANGED planeVars
  \/ SensorBusChanges \/ NetworkChanges
  \/ Ask \/ AskInVain

(* Time passes, the agent's loop turns, and the core's health loop          *)
(* reconciles again and again.                                              *)
Fairness ==
  /\ WF_vars(Tick /\ UNCHANGED planeVars)
  /\ WF_vars(Record /\ UNCHANGED planeVars)
  /\ WF_vars(Expire /\ UNCHANGED planeVars)
  /\ WF_vars(Ask)

Spec == Init /\ [][Next]_vars /\ Fairness

-----------------------------------------------------------------------------
(* The correlation explains a production fault and never hides it: for each *)
(* fault that goes in, a signal about the same node comes out.              *)
FaultNeverHidden ==
  [][Ask \/ AskInVain => \A s \in Base : \E r \in out'.signals : r.node = s.node]_vars

(* A node is called silent, to the operator or in the diagnostics, only     *)
(* when no new heartbeat of it has reached the agent for longer than the    *)
(* agent's limit: not because datagrams are late or repeated, because the   *)
(* node has booted, or because the agent has just started.                  *)
CalledSilent(n) == n \in out.silent \/ Signal("kamod_unavailable", n) \in out.signals

SilenceIsReal ==
  [][\A n \in Nodes : CalledSilent(n)' => CalledSilent(n) \/ heard[n] > StaleAfter]_vars

(* An agent that stays down is reported; a node that stays off, with a      *)
(* fault on the SENSOR BUS, is reported as gone if the agent has heard it   *)
(* and the service network stands.                                          *)
Gone(n) == /\ ~source[n].on /\ runtime[n].received /\ agent.up /\ agent.accepted = None
           /\ broken = {} /\ faults[n] # {}

LossReported ==
  /\ <>[](~agent.up) => <>(AgentSignal \in out.signals)
  /\ \A n \in Nodes : <>[]Gone(n) => <>(Signal("kamod_unavailable", n) \in out.signals)

=============================================================================
