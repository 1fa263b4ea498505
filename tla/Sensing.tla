------------------------------ MODULE Sensing ------------------------------
(***************************************************************************)
(* The SENSOR BUS (sensor_bus_worker.py): a worker process that owns the   *)
(* UART polls the SEN55 nodes and publishes its state in a bounded queue;  *)
(* the core drains the queue whenever its state is asked for, supervises   *)
(* the worker, and derives from the nodes the alert signals                *)
(* (alerting_service.py) and the SHADOW advice (Shadow.tla).               *)
(*                                                                         *)
(* Time is counted in poll intervals.  The worker opens its port or makes  *)
(* one cycle per interval, unless it is dead; the core asks at any time,   *)
(* also not for long.  A node answers, with valid, invalid or old data or with  *)
(* the register map of another firmware, or does not answer; counters stop *)
(* at the count that matters.                                              *)
(***************************************************************************)
EXTENDS Naturals, Sequences

CONSTANTS Addresses,    \* the nodes
          QueueSize,    \* slots of the state queue
          Confirmed,    \* polls and failures an alert needs
          MaxTime,      \* intervals explored
          MaxMishaps    \* deaths of the worker and losses of the port

ASSUME SensingAssumption ==
  /\ QueueSize \in Nat \ {0} /\ Confirmed \in Nat \ {0}
  /\ MaxTime \in Nat /\ MaxMishaps \in Nat

VARIABLES
  now,       \* poll intervals since the start
  port,      \* the serial port: "there" or "gone"
  worker,    \* the process: alive, what it did in this interval, its state
  queue,     \* published states, oldest first
  core,      \* ProcessSensorBus._state as last drained
  shown,     \* the state the core gave last, and when
  mishaps    \* mishaps left

sensingVars == <<now, port, worker, queue, core, shown, mishaps>>

Answers == {"valid", "invalid", "old", "foreign"}

(* SensorNodeState, reduced to what decides; the readings are in Shadow. *)
NewNode ==
  [online |-> FALSE, usable |-> FALSE, valid |-> FALSE, stale |-> TRUE,
   at |-> 0, polls |-> 0, failures |-> 0, invalid |-> 0, old |-> 0]

NewState == [ready |-> FALSE, error |-> FALSE, opening |-> FALSE,
             nodes |-> [a \in Addresses |-> NewNode]]

SensingTypeOK ==
  /\ now \in 0..MaxTime /\ port \in {"there", "gone"}
  /\ worker.alive \in BOOLEAN /\ worker.turn \in {"due", "done"} /\ worker.open \in BOOLEAN
  /\ Len(queue) <= QueueSize
  /\ mishaps \in 0..MaxMishaps
  /\ \A s \in {worker.state, core, shown.state} : \A a \in Addresses :
       /\ s.nodes[a].at \in 0..now
       /\ s.nodes[a].failures \in 0..Confirmed /\ s.nodes[a].polls \in 0..Confirmed
       /\ s.nodes[a].usable => s.nodes[a].online

FreshWorker == [alive |-> TRUE, turn |-> "due", open |-> FALSE, state |-> NewState]

SensingInit ==
  /\ now = 0 /\ port = "there"
  /\ worker = FreshWorker
  /\ queue = <<>>
  /\ core = NewState
  /\ shown = [at |-> 0, alive |-> TRUE, state |-> NewState]
  /\ mishaps = MaxMishaps

-----------------------------------------------------------------------------
(* The worker *)

More(n) == IF n < Confirmed THEN n + 1 ELSE Confirmed

(* _poll_node, _unsupported_map_state: an answer replaces everything but the *)
(* cumulative counts, silence keeps what was last read; a foreign map counts *)
(* as neither invalid nor old.                                               *)
Answered(node, answer) ==
  [online |-> TRUE, usable |-> answer = "valid", valid |-> answer = "valid",
   stale |-> answer \in {"old", "foreign"}, at |-> now,
   polls |-> More(node.polls), failures |-> 0,
   invalid |-> IF answer \in {"invalid", "old"} THEN More(node.invalid) ELSE node.invalid,
   old |-> IF answer = "old" THEN More(node.old) ELSE node.old]

Silent(node) ==
  [node EXCEPT !.online = FALSE, !.usable = FALSE,
               !.polls = More(@), !.failures = More(@)]

Polled(node) ==
  {Silent(node)} \cup {Answered(node, answer) : answer \in Answers}

Drained == IF queue = <<>> THEN core ELSE queue[Len(queue)]

Show ==
  /\ core' = Drained
  /\ queue' = <<>>
  /\ shown' = [at |-> now, alive |-> worker.alive, state |-> core']

Pushed(s) == Append(IF Len(queue) < QueueSize THEN queue ELSE Tail(queue), s)

(* _publish_latest: a full queue loses its oldest state, or the new one if  *)
(* the core drains at this very moment and holds the queue's lock.          *)
Publish(s, turn, open) ==
  /\ \/ queue' = Pushed(s) /\ UNCHANGED <<core, shown>>
     \/ Len(queue) = QueueSize /\ Show
  /\ worker' = [worker EXCEPT !.turn = turn, !.open = open, !.state = s]
  /\ UNCHANGED <<now, port, mishaps>>

(* The state is ready as soon as the port is open, with the nodes as they   *)
(* were left; the first cycle follows at once.                              *)
OpenPort ==
  /\ worker.alive /\ worker.turn = "due" /\ ~worker.open /\ port = "there"
  /\ Publish([worker.state EXCEPT !.ready = TRUE, !.error = FALSE, !.opening = TRUE],
             "due", TRUE)

(* The nodes are polled one after another: the nodes after a cycle that has *)
(* reached some of them.                                                    *)
PolledNodes(reached) ==
  LET nodes == worker.state.nodes IN
  {polled \in [Addresses -> UNION {Polled(nodes[a]) \cup {nodes[a]} : a \in Addresses}] :
     \A a \in Addresses : polled[a] \in IF a \in reached THEN Polled(nodes[a]) ELSE {nodes[a]}}

Cycle ==
  /\ worker.alive /\ worker.turn = "due" /\ worker.open /\ port = "there"
  /\ \E polled \in PolledNodes(Addresses) :
       Publish([ready |-> TRUE, error |-> FALSE, opening |-> FALSE, nodes |-> polled],
               "done", TRUE)

(* The port cannot be opened, or fails under a cycle: the nodes that were   *)
(* not reached stay as they were, online and usable as they were.           *)
SerialFailure ==
  /\ worker.alive /\ worker.turn = "due" /\ port = "gone"
  /\ \E reached \in SUBSET Addresses :
       /\ reached = {} \/ (worker.open /\ reached # Addresses)
       /\ \E polled \in PolledNodes(reached) :
            Publish([ready |-> FALSE, error |-> TRUE, opening |-> FALSE, nodes |-> polled],
                    "done", FALSE)

WorkerDies ==
  /\ worker.alive /\ mishaps > 0
  /\ worker' = [worker EXCEPT !.alive = FALSE]
  /\ mishaps' = mishaps - 1
  /\ UNCHANGED <<now, port, queue, core, shown>>

PortLost ==
  /\ port = "there" /\ mishaps > 0
  /\ port' = "gone" /\ mishaps' = mishaps - 1
  /\ UNCHANGED <<now, worker, queue, core, shown>>

PortBack ==
  /\ port = "gone"
  /\ port' = "there"
  /\ UNCHANGED <<now, worker, queue, core, shown, mishaps>>

(* A live worker has had its turn when the next interval begins. *)
Tick ==
  /\ now < MaxTime
  /\ worker.alive => worker.turn = "done"
  /\ now' = now + 1
  /\ worker' = [worker EXCEPT !.turn = "due"]
  /\ UNCHANGED <<port, queue, core, shown, mishaps>>

-----------------------------------------------------------------------------
(* The core: ProcessSensorBus *)

(* state *)
View == Show /\ UNCHANGED <<now, port, worker, mishaps>>

(* Mutant of Buried: the state of the dead worker is left as it is. *)
BuriedReady(s) == s

Buried(s) == [s EXCEPT !.ready = FALSE, !.error = TRUE]

(* health_check: only a dead worker is replaced. *)
HealthCheck ==
  /\ IF worker.alive
       THEN core' = Drained /\ UNCHANGED worker
       ELSE core' = Buried(Drained) /\ worker' = [FreshWorker EXCEPT !.turn = worker.turn]
  /\ queue' = <<>>
  /\ UNCHANGED <<now, port, shown, mishaps>>

SensingNext ==
  \/ OpenPort \/ Cycle \/ SerialFailure \/ WorkerDies \/ PortLost \/ PortBack \/ Tick
  \/ View \/ HealthCheck

-----------------------------------------------------------------------------
(* _alert_signals: what the core makes of a state *)

BusSignal(v) == ~v.alive \/ (~v.state.ready /\ v.state.error)

Unavailable(node) ==
  node.polls >= Confirmed /\ node.failures >= Confirmed /\ ~(node.online /\ node.usable)

DataInvalid(node) ==
  /\ ~Unavailable(node) /\ node.polls >= Confirmed /\ node.online
  /\ \/ node.stale /\ node.old >= Confirmed
     \/ ~node.valid /\ node.invalid >= Confirmed

(* _sensor_usable: whatever the bus says of itself. *)
Usable(node) == node.online /\ node.usable /\ node.valid /\ ~node.stale

-----------------------------------------------------------------------------
(* SHADOW judges a node by its own flags, which outlive the bus, the worker *)
(* and the port: an old reading passes for usable.  It does so only while   *)
(* the SENSOR BUS is signalled in the same state, but for the moment        *)
(* between the opening of the port and the first cycle.                     *)
OldReadingsAreSignalled ==
  \A a \in Addresses :
    Usable(shown.state.nodes[a]) =>
      \/ shown.at <= shown.state.nodes[a].at + 2
      \/ BusSignal(shown) \/ shown.state.opening

=============================================================================
