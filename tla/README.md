# TLA+ models of the ventilation controller

This directory holds the formal models of the workshop ventilation controller:
TLA+ modules translated from the Python sources, TLC configurations that check
them on small instances, and TLAPS proofs of the properties that matter most.
Line references are to the repository (`src/src/ventilation_core/...` is
abbreviated to `core/...`).

## 1. Inventory

The controller is a set of processes on a Raspberry Pi CM5. The *core* owns the
hardware and answers JSON commands on a Unix socket; everything else is a client
of it or a helper beside it.

| component | state it keeps | operations | interacts with |
|---|---|---|---|
| **Fan control core**: `application/service.py`, `infrastructure/process_actuator.py`, `hardware_worker.py`, `dfr0971_actuator.py`, `gp8403.py` | mode, setpoints, output-known and recovery flags, failure count, DAC alarm; the proxy's ready flag and worker; the worker's actuator; the two DAC registers | set_manual, stop, health_check, status, close, start-up | one lock in the service; queues with timeouts to a worker process, which is killed when it does not answer; I2C writes, one per channel |
| **AERO bus and control**: `infrastructure/aero_bus_worker.py`, `aero_control_executor.py`, `modbus_rtu.py`, `service.control_aero` | AERO lock, cached bus state, restarts, three queues, the executing command; the unit's registers | control_aero, state, health_check, close; poll cycle, execute, roll back | queues of one place that drop old entries; RS-485; restarted by the health monitor |
| **Core server and process life**: `server.py`, `main.py` | socket, health task, pending Zigbee removal | start, dispatch, health loop, shutdown | threads (`asyncio.to_thread`) into the service; systemd |
| **Alert registry and store**: `application/alerting_service.py`, `alert_registry.py`, `infrastructure/sqlite_alert_store.py` | active alerts with counts, a cache of the latest counts; SQLite history | reconcile, acknowledge, clear, load after restart | called after every command and health check, outside the service lock |
| **Service-plane correlation**: `application/service_plane_alert_registry.py`, `service_plane_monitor.py` | last snapshot, consecutive failures | poll, signals | replaces single alerts by correlated ones |
| **Sensor bus, TACHO**: `infrastructure/sensor_bus_worker.py`, `tacho_monitor.py` | per node: online, usable, counters | poll loop in a process, health check | Modbus; feeds alerts and shadow control |
| **Schedule**: `application/schedule_controller.py`, `domain/schedule.py`, `infrastructure/sqlite_schedule_store.py` | weekly windows, revision | evaluate, replace | advisory expectation per zone |
| **Shadow controller**: `application/shadow_*.py`, `domain/shadow_policy.py` | none of its own: the tuning it was given | evaluate | reads sensors and schedule, drives nothing |
| **Host power**: `host_power_agent.py`, `power_domain.py` | pending action, relay state | prepare a power-off: stop fans, zero AERO, 12 V off, timer | asks the core over its socket |
| **Service OTA**: `service_ota.py`, `service_agent*.py`; node side in firmware | persisted operation, candidate firmware | check, install, wait for reboot, confirm | HTTP to a node that reboots and may roll back |
| **Service heartbeat**: `service_heartbeat.py` | last boot and sequence per node, persisted | accept, expire | signed datagrams from the nodes |
| **Telemetry**: `telemetry/*.py` | samples, batches, rollups in SQLite | capture, reserve, send, acknowledge, roll up, prune | HTTP to a remote store |
| **Zigbee**: `infrastructure/zigbee_*.py`, `application/zigbee_service.py` | devices, availability, role assignment | MQTT callbacks, assign, remove | MQTT broker, role store |
| **Front ends and agents**: `web/`, `ha_api/`, `weather/`, `advisory/`, HMI | caches | request translation | read-only clients of the core |

What is hard in this code: fans keep turning when every process is dead, so what
the program *believes* about the outputs must survive half-done writes, killed
workers and restarts; timeouts abandon work that goes on; several threads update
alert state from snapshots of different ages; stores can fail between two
commits. The list, each item at its line, is under `hazards` in PROJECT.json.

What makes each component correct:

* *Fan core* - reported outputs are the real ones; the fault fields agree; a stop
  is never skipped in silence; the lock is released; recovery happens.
* *AERO* - a client gets the result of its own command and it is true; an abandoned
  command is not executed by a later worker; control becomes possible again.
* *Alerts* - one active alert per key; counts never lose more than a batch;
  alerts follow the conditions (checked); an acknowledged alert is not re-raised
  (not checked).
* *Service plane* - a correlation explains a fault and never hides it; a node is
  called silent only when it is.
* *Sensor bus, TACHO* - readings of a bus that nobody polls are signalled; a fan
  that stands shows no speed.
* *Schedule* - the evaluation equals membership in the weekly windows.
* *Host power* - no power action with the 12 V domain on; a stop is not noted as
  confirmed while a fan turns; a request is either refused or carried out.
* *Shadow* - air quality outranks temperature; nothing unconfigured is proposed.
* *OTA* - what is reported of an update is true of the node, which always keeps an
  image it can boot.
* *Heartbeat* - no replay accepted; each number counted once.
* *Telemetry* - no sample forgotten before it is delivered; rollups and charts hide
  nothing and invent nothing.
* *Zigbee* - one role per device, under the name the network gives it; a silent
  sensor is signalled; a removal is one that was confirmed.
* *Front ends and agents* - what the panel shows was true, and is called fresh only
  while it is; the journal of alerts misses nothing.

## 2. Modules

The order is that in which they were written, the most important behaviour first.

| modules | what they model | state |
|---|---|---|
| `FanSafety` | the abstract promise of the fan core | refined |
| `DacControl`, `MCDacClose`, `DacControlProofs` | fan core, process life, DAC | checked, proved |
| `AeroControl`, `MCAeroRollback`, `AeroControlProofs` | AERO bus and control | checked, proved |
| `Alerts`, `MCAlertsFinal`, `AlertsProofs` | alert registry and store under stale snapshots, failing writes, crashes | checked, proved |
| `HostPower`, `MCHostPowerEscape`, `HostPowerProofs` | power-off preparation, beside the fan core as `FanSafety` | checked, proved |
| `Outbox` | the abstract promise of the telemetry agent | refined |
| `Telemetry`, `TelemetryProofs` | capture, rollups, pruning, batches and their delivery | checked, proved |
| `TelemetryHistory`, `TelemetryProofs` | the queries and series of the charts, over any state of `Telemetry` | checked, proved |
| `ServiceOta`, `MCOtaReset`, `ServiceOtaProofs` | firmware updates: coordinator, node, boot loader | checked, proved |
| `ServiceHeartbeat` | nodes' heartbeats, replay store, diagnostics | with `ServicePlane` |
| `ServicePlane`, `MCServicePlane`, `ServicePlaneProofs` | the core's poll of the service agent and its correlation with the SENSOR BUS, over `ServiceHeartbeat` | checked, proved |
| `Sensing` | SENSOR BUS worker, its queue, its supervisor, the signals | checked, proved |
| `Schedule` | windows, their validation and replacement, the evaluation | checked, proved |
| `ZigbeeRemoval`, `ZigbeeSensor` | the dialog of a removal; a sensor from its transmission to its alerts | checked, proved |
| `Zigbee`, `MCZigbeeRoles` | inventory, roles, names, commands of the Zigbee monitor | checked, proved |
| `Shadow`, `Feedback`, `AlertPolicy`, `MCPolicyShape` | the advisory decision; TACHO and power flags; the alert policy | checked, proved |
| `AlertHistory`, `ServicePage`, `Reports` | the journal of alerts, the SERVICE page, weather and AI advisory | checked, proved |
| `CoreContext`, `MCCoreContext`, `CoreContextProofs` | the eleven modules of the last five rows together | |
| `Actuators`, `MCActuators` | `DacControl` and `AeroControl`, for one run | checked |
| `AlertsAndUpdates`, `MCAlertsAndUpdates` | `Alerts` and `ServiceOta`, for one run | checked |
| `PowerAndTelemetry`, `MCPowerAndTelemetry` | `HostPower`, `Telemetry` and `TelemetryHistory`, for one run | checked |

What no theorem states is listed in section 6, what is left to model in section 7.

## 3. How the models correspond to the code

### DacControl

One operation at a time holds the service lock; `call` is that operation with the
command it sends, `stage` what it waits for. `svc`, `proxy` and `wk` are the fields
of `VentilationService`, `ProcessIsolatedActuator` and the worker with its
`DFR0971Actuator`; `dac` is the two registers of the GP8403, which keep their value
whatever dies. `phase` is the life of the core's process.

An operation takes the lock (`SetManual`, `Stop`, `HealthCheck`, `Close`), is sent
(`Send`, starting a worker if there is none), and ends when the worker answers
(`CommandReply`, `StartupReply`) or does not (`LostWorker`, `CommandTimeout`), with
the bookkeeping of `set_manual`, `_complete_safe_recovery` and
`_record_hardware_failure` in the same step, as the lock is held throughout. The
worker takes one step per I2C access. A failed access may have reached the
register (`AccessFails`), an answer may be lost with its sender (`WorkerDies`), and
the core may die between any two steps (`Crash`), after which systemd starts it
again (`Boot`). A restarted service starts out of an unknown state; the registers
at the very first boot are arbitrary.

`late` holds the threads that still wait for the lock when `close()` has it:
cancelling the health task does not stop the thread of `asyncio.to_thread`, and
`Server.wait_closed()` does not wait for open connections on Python 3.11.

### AeroControl

`caller` is the client that holds the AERO lock (taken without waiting; others are
refused). It is *admitted* under the service lock, and *submits* and *waits* without
it. `wk` is the worker: its place in the cycle and in `execute_control_change`, one
step per Modbus access. The three queues have one place each: a control queue that
refuses a second command, a result queue and a state queue in which new entries
displace old ones. `view` is what the core last read of the state queue. `regs` are
the unit's registers.

The number of a command is its `request_id`. A request carries the number of
the worker it was handed to (`worker`), which the code does not: it only serves
to state NoRequestOutlivesItsWorker.

### Alerts

`cond` is what the service's state says of each condition: how often it has been
seen. A thread, the health monitor's or a client's, reads it (`Look`:
`_sync_alerts`, on the state that is read once its command or health
check is over) and later reconciles the alerts with it; between the two it holds no
lock, so the signals may be old by then. `reconcile` runs under the registry's
lock: `Begin` lists the active records, `RaiseKey` deals with one signal, `Turn`
passes from the first loop to the second, `ClearKey` clears one record, `Return`
releases the lock. Each write is a transaction of its own, and so is a step.
`latest` is the cache of `AlertRegistry`, `open` the active rows of the store.
`Boot` is the registry's construction, which loads the cache, and the beginning
of the `activate` calls for what the service finds at its own; `Serve` ends them.
`StoreFails` is an access that raises, with the write committed or not and the
cache as the code has it by then. `Crash` ends the core anywhere and stands for a
shutdown too, which changes no record.

### HostPower

`ag.step` is where `_handle_connection` is: it asks the core to stop the fans, asks
for the status if that is not confirmed, asks AERO twice, switches the relay off
and answers. `ag.pending` is `_action_pending`, `timers` the `threading.Timer` of an
accepted action, `relay` what the claimed GPIO line commands, `host` what systemd
was told. The fan core is an instance of `FanSafety`, so that everything `DacControl`
was shown to do may happen beside the agent, for any client. The core's reply to
STOP is made in two steps, because `AlertingVentilationService.stop` reads the state
it returns after it has released the lock. `driven` is an observation for
`ConfirmedMeansOff`. The agent's death releases the line, which switches the
domain off, and takes the timer along.

### Telemetry and TelemetryHistory

Two threads share the database only, and every operation of the store is one
transaction and one step. `thread` is what the capture thread does next: a sample,
the rollups, the pruning, each of which may fail. `sender` is where `sync_once` is
with the batch it has reserved; `posts` holds every request ever sent, since the
bridge may act on one after the agent gave up, or a second time; `sink` is what the
bridge has stored. `batchSize` is halved when a request is refused as too large.
`clock` may be set back, the agent may be restarted at any step. `taken`, `late` and
`peak` are history for the properties. `TelemetryHistory` adds no variable: a query is
one read of the database, in whatever state the agent has left it, and its answer is
the set of rows or buckets that fewer than the limit are newer than. A bucket stands for
the samples it counts; its signals and states are computed from them when it is read.
The retention (`Kept`) is any that the agent accepts.

### ServiceOta

`operations` holds the coordinator's in-memory operation of each node, `stored` the
persisted one, `worker` the thread that works on it, `reply` what the node last answered and the
thread may never see. `node` is the node's flash: two partitions with the image and
state of each, which one runs, which is selected, the update server's phase; `past`
records what the node has booted and confirmed, and the operations that a change of
the running partition overtook. One step is one request handled,
one answer taken, one write of the operation. Resets, lost replies and the stop of
the agent fall between any two.

### ServiceHeartbeat and ServicePlane

`source` is the node with its boot number and counter, `air` the datagrams on their
way, `replay`, `runtime` and `diag` the agent's replay store, online flags and
diagnostics, of which the first and the last outlive it. The agent is one thread
around `select()`, so a handler is a step, but accepting a datagram and recording it
are two (`agent.accepted`), between which it may be stopped. `heard` and `seen` are
history. In `ServicePlane`, `faults` are the alerts of the SENSOR BUS, `broken` the parts
of the service network, `out` what the core's registry makes of both after a poll
that was answered (`Ask`) or not (`AskInVain`).

### Actuators, AlertsAndUpdates, PowerAndTelemetry

Each of these follows one of two components that share no state, no lock and no
process (`focus`), as `CoreContext` does with eleven: its steps are steps of that one
and stutters of the other, which stays in an initial state in which nothing is due.
So it has the behaviours of the two specifications, one at a time, and satisfies the
fairness of both; what the theorems say of `DacSpec`, `AeroSpec` and the other
specifications is what the runs check. The component that is not followed starts from
one initial state where there are several.

### CoreContext

Eleven parts that share no state and no lock. They are composed in one
specification, in which `focus` says whose behaviour is followed: the behaviours
of the composition with all but one part at rest are all there is to see for
properties that speak of one part each, and a union is what TLC can explore.

* `Sensing`: `worker` is the polling process, `queue` its state queue, `core` what the core
  last drained from it, `shown` what it gave last to whoever asked. The supervisor restarts a worker that died; time is in
  poll intervals.
* `Schedule`: `table` is the windows in the database, replaced in one transaction
  after validation; the evaluation is a set of operators, as in the code, which
  evaluates afresh for each request.
* `Shadow`: operators for the evaluator and its policy, over every reading and tuning.
* `Zigbee`: `monitor` and `file` are the roles in memory and on disk, `mesh` the network,
  `wire` the messages not handled yet, `cmds` the management commands, which capture
  the configuration, ask the bridge without a lock and write afterwards.
* `ZigbeeSensor`: `bridge` and `retained` are Zigbee2MQTT's memory and the broker's
  retained messages (external), `client` the monitor's connection, `role` and `listed`
  the two rows it keeps of the sensor.
* `ZigbeeRemoval`: `dialog` is the server's pending confirmation, `answering` the
  dialog each coroutine captured before its await; `trail` is history.
* `Feedback`: `channel` is the worker thread of a TACHO line with its estimator and the
  kernel's buffer of edges, `power` the monitor of the supply's flags.
* `AlertPolicy`: `policyFile` and the running core's `manager`.
* `AlertHistory`: what has been closed, the browser's `index` and `lists`, and the
  answers on their way to it.
* `ServicePage`: `read` and `met` are the provider's poll, source after source, `screen`
  what the browser keeps of it.
* `Reports`: the two agents' files, what they held before, and the advice an agent
  holds between its fetch and its save (`downloaded`).

## 4. What the runs check

| run | bounds | result |
|---|---|---|
| `actuators` | *DAC*: voltages 0, 5 (refused), 30, 60; threshold 2; 3 faults; crashes, restarts and operations unbounded. *AERO*: 2 requests out of 3 commands for 2 registers; 2 faults; registers initially inside or at the edge of what is allowed; restarts, crashes, status reads unbounded | all nine properties hold, about 547,000 states |
| `dac_close` | voltages 0, 30; 1 fault | violated, see below |
| `aero_rollback` | 1 request, 1 protocol error | violated, see below |
| `alerts_and_updates` | *Alerts*: the health monitor and one client; a condition known at construction, counted up to 3, and one that is not, counted up to 1; batches of 2; 1 failed access; crashes, restarts and reconciliations unbounded. *Updates*: 2 nodes, 3 operations, 2 resets, 1 stop of the agent; lost replies unbounded | all seven properties hold, about 752,000 states |
| `alerts_final` | the health monitor alone; one condition, counted up to 2; batches of 2; 1 failed access | violated, see below |
| `ota_reset` | 1 node, 2 operations, 1 reset | violated, see below |
| `power_and_telemetry` | *Power*: two outputs, off or running; 2 failures of relay or systemctl; requests, disconnections, deaths and restarts unbounded. *Telemetry*: 3 samples; requests of 1 or 2, batches of 3; buckets of 1 and 2 intervals; 1 fault of any kind (lost or late answer, refusal, failed maintenance, clock set back, restart); roles that change places in the list of devices | all nine properties hold, about 620,000 states |
| `host_power_escape` | one output that stays off; no failure | violated, see below |
| `service_plane` | 1 node, 2 boots, 3 heartbeats of each, 2 datagrams on their way, 2 troubles (reboot, power cut, damage, repetition, stop, time-out, change); threshold 2 | all five properties hold, about 918,000 states |
| `core_context` | each part's in the text below | all ten properties hold, about 991,000 states |
| `zigbee_roles` | 2 devices, 2 commands, nothing fails | violated, see below |
| `policy_shape` | one edit of the file; the five codes that a policy must have | violated, see below |

Why the bounds are enough. *Faults*: a fault in the fan core leads to a state
where recovery is due and the worker may be missing; a second one strikes during
the recovery, a third reaches the threshold in a row and then hits the recovery of
that. In AERO one fault can abandon a command and the second hits its restarted
worker or the successor command. *Values*: two distinct running voltages show a
half-applied setpoint, in either order of channels; two values of one register and
a second register tell results apart. *Alerts*: two threads are the least of which
one can bring signals older than what the other has written; a count of 3 with
batches of 2 passes through an unwritten increase, a due write and an increase
beyond it; two keys let one record be written while another is raised or cleared;
one failed access leaves the cache and the store apart, for any later step to
meet. *Host power*: two failures let the relay fail first and systemctl in the
next attempt, or systemctl twice; two outputs show one that still turns while the
other is off. *Threshold 2* separates the first failure
(no alarm) from the alarm. *Two requests* are the least with which a result can
reach the wrong client. A number of operations needs no bound because the states
repeat. The theorems remove these bounds for the safety properties.

*Telemetry*: three samples make a batch that does not fit one request, is split,
and leaves one for the next; a bucket of two intervals can be closed before its
second sample when the clock is set back, which takes one fault. *OTA*: two nodes
share the one slot for an operation; two resets lose first the new image's
confirmation and then its fall-back; a third operation follows an interrupted one
on the same node. *Service plane*: two boots are the least of which a late datagram
can bring back the first, a history of one boot forgets one; the correlation looks at
each node by itself. *Core context*: a queue of two states and three intervals let the
core be two states behind a worker that dies; a week of two days of three minutes
has windows over midnight and over the end of the week, in two zones; two clients
assign and remove two devices under three names, with one mishap; a limit of one
hour with three explored lets a message be repeated after it is too old; two dialogs
and two panels are what overtakes a removal; five moments with a time-out of three
let a fan turn, stop and be taken up by a second worker; every policy one entry away
from the delivered one is tried, and every frame with entries missing; three alerts
closed in two days, one to a page, let one be closed at the instant of the cursor;
two polls, two analyses and one accident let an old file come back. Devices, names,
roles and clients are interchangeable (`Symmetry`; the run checks invariants only,
for which this is sound).

Properties of the fan core (`actuators`):

* `KnownOutputsAreTrue` - when status says the outputs are known, the registers
  hold the reported setpoints.
* `FaultsAreReported` - mode, alarm, counter and flags agree.
* `ReadyProxyHasReadyWorker` - the proxy's flag never hides a worker whose
  `stop_all` would return without stopping.
* `ImplementsFanSafety` - every step is a step of `FanSafety`, or none: outputs move
  only on behalf of an operation begun from a trusted state, or to zero while
  untrusted, and trust, once lost, returns only over zeroed outputs.
* `LockIsReleased`, `FaultsAreRecovered` - liveness.

Properties of AERO (`actuators`): `ClientIsToldTheTruth` (an action property over the step in
which a client gets its result), `NoRequestOutlivesItsWorker`, `ControlComesBack`.

Properties of the alerts (`alerts_and_updates`):

* `OneActivePerKey` - the store's unique index on active keys is never needed.
* `CacheMatchesStore` - until an access fails, the cache holds a count for exactly
  the active records and is ahead of each by less than a batch, also in the
  middle of a reconciliation and after a restart.
* `CountsNeverDrop` - an action property: what clients are shown of an alert does
  not go down, whatever old counts the threads bring.
* `AlertsFollowConditions` - liveness: lasting conditions come to have an alert for
  good, conditions that are over for good come to have none.

Properties of the power agent (`power_and_telemetry`):

* `IsolatedBeforeDown` - from an accepted request until the host is down the 12 V
  domain is off.
* `OneAction` - at most one action is on its way, unless something failed.
* `ConfirmedMeansOff` - a stop the agent noted as confirmed means outputs at zero
  until a client asks for running fans. Nothing in the code keeps clients from
  doing so before the host is down; the property says no more than that.
* `RequestsAreSettled` - liveness: a request whose client stays is carried out, or
  the flag is reset.

Properties of the telemetry (`power_and_telemetry`):

* `DeliversBeforeForgetting` - the agent implements `Outbox`: a sample is owed, and kept,
  until the bridge has it.
* `BatchesAreStable` - a batch identifier names one set of samples for ever, by which
  the bridge tells a repetition; what is marked or released is what was sent.
* `RollupsFaithful` - a bucket counts the samples of its time, but those a clock set
  back brought too late; in each resolution a sample is there, or counted, or
  beyond its retention.
* `HistoryFaithful` - a query shows what is there, a role's series shows that role's
  device, a gap is a time without samples, every preset of the panel is answered.
* `EverySampleSynced` - liveness.

Properties of the updates (`alerts_and_updates`):

* `VerdictsTrue` - "succeeded" means that this image was confirmed; "rolled back" that
  it was tried and not confirmed; "failed" that it was not confirmed and is not
  what boots next. The node's running partition must have stayed what the preflight
  read until the image is in flash (`past.overtaken`); `ota_reset` is about the rest.
* `FallbackKept` - whatever boots next, a confirmed image is left.
* `Settles` - liveness: an operation ends, or the agent was stopped.

Properties of `service_plane`:

* `NeverBackwards`, `EveryNumberCounted` - what is recorded of a node never leaves a
  boot for an earlier one, nor takes a number twice; between the first and the last
  heartbeat recorded of a boot each number is counted once, accepted or missing.
* `FaultNeverHidden` - for each fault of the SENSOR BUS that the correlation is given, a
  signal about the same node comes out.
* `SilenceIsReal` - a node is called silent only when nothing new of it was heard for
  longer than the limit: not because datagrams are late, it rebooted or the
  agent has just started.
* `LossReported` - liveness: an agent that stays down, and a node that stays off while
  its readings fail, are reported as such.

Properties of `core_context`, one for each part, most of them with several conjuncts
that the module explains:

* `OldReadingsAreSignalled` - a reading more than two intervals old passes for usable
  only beside a signal about the bus, or in the moment between opening the port
  and the first cycle.
* `AdviceStaysSound` - worse air never lowers the advice, bad air overrules temperature,
  extract is never below supply, nothing is asked of a blocked or unusable zone,
  READY means judged by readings.
* `ScheduleIsExact` - at each minute of the week the expectation is that of the one
  window that covers it.
* `RegistrySound` - roles, their file, names and subscriptions agree with the network
  once messages are handled, under sleeping commands, losses and restarts, unless a
  command wrote what another had overtaken (`zigbee_managed_monitor.py:112`; see
  `zigbee_roles`) or a save failed.
* `SilenceSignalled` - a sensor silent for too long is signalled, also when its last
  message was repeated; one heard in time is not called stale; lost connection
  and bridge are signalled as such.
* `RemovalAsked` - a removal is of a confirmed dialog's device; while nothing overtakes
  it one runs at a time and no dialog is lost. `server.py:257` and `:266` read the dialog
  before an await and overwrite it after, so that "while nothing overtakes" is needed:
  what an overtaken removal does is in the model, but no document speaks of it.
* `FeedbackTrue` - a shown speed is made of periods of this fan's consecutive edges, a
  stopped fan is shown stopped, a failed worker is signalled, low supply stays
  signalled until it is read good.
* `PolicyStaysHonest` - with any policy that loads (for one that cannot, see
  `policy_shape`), lost DAC output is red, diagnostics
  ask for no reaction, the summary's colour is that of an alert.
* `JournalComplete` - a day's list without further page holds every alert the day's
  summary counts, once and in order, whatever is closed meanwhile and with whatever
  time of the past, as the time is taken before the closing is committed.
* `ShownIsTrue` - a tile under a good connection was true at some moment of its poll;
  advice called fresh is recent, and a good refresh stays on show.

The variables' types are stated in each module (`TypeOK`) and proved (`TypesAreKept`). No
run asks for those of `CoreContext`, which are slow to evaluate in every state: that the
counts of a node, the queue and the schedule keep to their bounds has a proof of its own.

### Seven disagreements with the documentation

* `dac_close`. `docs/reports/VENTILATION_CORE_STAGE1_IMPLEMENTATION_PL.md:47` says
  that a controlled shutdown zeroes both channels. After a setpoint whose second
  write failed, the worker's actuator is not ready, `stop_all` returns at once
  (`dfr0971_actuator.py:47`), and `close()` does not attempt a recovery: the first
  channel stays driven although nothing fails during the shutdown.
* `aero_rollback`. `docs/reports/CM5_AERO_BUS_STAGE3B_FINAL_REPORT_AND_HANDOFF_PL.md:70`
  says that a protocol error after the write makes the executor try to restore the
  register. The reads of the fan power while it waits for the physical
  confirmation (`aero_control_executor.py:150`) have no handler: the error leaves
  the executor, the register keeps the new value, and no result is sent.
* `alerts_final`. The docstring of `AlertRegistry` (`alert_registry.py:128`) says that
  the exact final count is persisted atomically when an incident is cleared.
  `reconcile` drops the count from the cache before the store clears the record
  (`:181`); when that write fails, the alert stays active with its last written
  count, and the reconciliation that clears it later writes that one.
  `MCAlertsFinal` adds the highest count clients were shown to say so.
* `host_power_escape`. `docs/POWER_ON_OFF_ARCHITECTURE_PL.md:189` says that no
  communication error may make it altogether impossible to shut down. When the
  client has disconnected by the time of the acceptance, `_send` raises
  (`host_power_agent.py:164`), the handler logs it, and the flag stays set with the
  domain off and no timer: every later request is refused.
* `ota_reset`. `docs/reports/KAMOD_SERVICE_OTA_STAGE1_BOOTSTRAP_HANDOFF_PL.md:91` says that
  the agent tells success, failure, rollback and an uncertain state apart. It reads the
  running partition at the preflight only (`service_ota.py:451`). A node that is reset
  after that, and thereby goes back from an image it was still trying, writes the new
  image into the partition the agent takes for the source: the answer names another
  target than expected and the operation is reported as failed, while the image is
  selected for the next boot.
* `zigbee_roles`. `docs/ZIGBEE_STAGE11_RENAME_ROLES_PL.md:87` says that the core refuses to
  give a role that another device holds. A command checks and writes the copy of
  the configuration it took before it asked the bridge (`zigbee_managed_monitor.py:112`):
  two commands that overlap give one role to two devices, and the later one replaces
  the holder.
* `policy_shape`. `docs/reports/ALERT_V2_RUNTIME_POLICY_STAGE2_IMPLEMENTATION_PL.md:50` says
  that a missing or wrong policy does not stop the core, and the help of `--alert-policy`
  (`main.py:71`) that it never changes the behaviour of the control. A reaction or
  colour that is a list is looked up in a set (`alert_policy.py:328`, `:332`), which raises
  an error nobody handles: the core ends before it serves anything, however often
  systemd starts it (weak fairness of `CoreStarts`: `Restart=on-failure`, every 2 s).

## 5. Fairness

`DacControl`: weak fairness of the worker's steps and of the steps of the operation
under way (processes run, `queue.get` has a timeout), strong fairness of
`HealthCheck`: the health monitor loops for ever, and competes for a lock that is
released again and again, which is why weak fairness would not be enough. Nothing
is assumed about clients, faults, crashes or restarts.

`AeroControl`: weak fairness of the worker, of `Submit`, of `Receive \/ Timeout` (the
wait is bounded by 65 s), of `Status` and `HealthCheck` (the health monitor). No
client is assumed to try again, and no fault to happen or not to happen other
than that their number is bounded: the recovery properties say what holds once
faults cease.

`Alerts`: weak fairness of the health monitor's next look at the state and of
every thread that holds the registry's lock, strong fairness of the health
monitor's `Begin`, since the lock is released again and again but clients may
have it in between. No client is assumed to finish: one may keep its old
signals for ever, or bring them at any time. `AlertsFollowConditions` speaks of
cores that stay up and holds because failed accesses are finitely many.

`HostPower`: weak fairness of the connection's thread, whose requests to the core end
after 10 s at the latest, and of the timer. Nothing is assumed about clients, the
core, failures or deaths.

`Telemetry`: weak fairness of the sync thread, which loops for ever, and of the bridge,
which answers in the end; nothing about the capture thread. `EverySampleSynced`
supposes that one sample fits one request (`BodyLimit` of at least 1) and that faults
are finitely many.

`ServiceOta`: weak fairness of each step of the coordinator's thread, of its time-outs
and of its deadline; none of the node, which may never answer.

`ServicePlane`: weak fairness of the agent's loop (`Record`, `Expire`), of time (`Tick`) and of
the core's poll (`Ask`), which the health monitor makes for ever. None of sending,
receiving, or of the agent's return.

`CoreContext`: none; its properties are invariants. Deadlock is not checked in
`alerts_and_updates`, `service_plane` and `core_context`, whose behaviours end when the
bounded operations, boots or moments are used up; in `Alerts` the health monitor can
always look, or the core restart.

## 6. What is proved

The theorems are about each component's own specification (`DacSpec`, `AeroSpec`,
`AlertsSpec`, `PowerSpec`, `TelemetrySpec`, `OtaSpec`; `Spec` of `ServicePlane` and
`CoreContext`). TLAPS checks the proofs for every value of the constants that satisfies the
assumptions named in each module (`DacAssumption`, `AeroAssumption`, `AlertsAssumption`,
`HostPowerAssumption`, `TelemetryAssumption`, `HistoryAssumption`, `BoundsAssumption`, `HeartbeatAssumption` and
`ServicePlane`'s, and for `CoreContext` those of its parts): every threshold, every set of
voltages, any number of faults, requests and restarts; every set of conditions
and of clients' threads, every batch size, any nodes, devices, zones and limits. They
ask that counts and limits be natural numbers, that a bucket, a day, a queue have a
length, that the codes of alerts be finitely many, that what SHADOW is tuned and told
have the shape of its fields (`ShadowAssumption`), and that the values standing for "none"
be no data (`ReportTokens`, `AlertHistoryAssumption` and others).

`DacControlProofs` proves `TypesAreKept`, `FaultsReported`, `KnownOutputs`,
`ReadyWorker` and `Refinement`. `KnownOutputsAreTrue` speaks of moments when the lock
is free, and is not inductive: the invariant behind it says, for every stage of
an operation, how far the worker has come and which registers already carry the
target; that a proxy without process holds no answer; that a worker which will
be trusted has a ready actuator, and that a ready actuator beside known outputs
means that the registers carry the setpoints. `Refinement` maps initial states to
initial states and each action to a step or a stutter of `FanSafety`, using that
invariant where a command is answered.

`AeroControlProofs` proves `TypesAreKept`, `ClientsAreToldTheTruth` and
`RequestsDieWithTheirWorker`. The invariant has four parts beside the types:
`Ordered` (result numbers < executing < queued <= admitted, so a stale result
never carries a new caller's number), `Identified` (a request or result with the
caller's number holds the caller's command), `Executed` (what the executor knows
of the register at each step), `Answered` (a result for the waiting caller is
true, because no later command can have touched the register while the caller
holds the lock).

`AlertsProofs` proves `TypesAreKept`, `OneActive`, `CacheAgrees` and `CountsGrow`. The
invariant adds three parts to the first three properties: `OneWorks` (at most
one thread is inside a reconciliation), `QuietUnlessUp` (during the start only
the activating thread is at work, and when the core is down none is), and
`ReadingHolds`, the reason why a thread may act on the records it listed: for
each key it has not dealt with yet, the store's record is the one it read, or
there is still none. It is what rules out a second record, and what shows that
rewriting a record with the larger of the counts loses nothing.

`HostPowerProofs` proves `TypesAreKept`, `Isolated`, `OneActionAtATime` and `Confirmed`.
Two invariants: for the relay, that a dead agent leaves nothing behind and that
a request is prepared only while no action is on its way; for the confirmation,
what `FanSafety` promises between its steps, and that after a reply that says zero
the outputs, the goal and the promise stay at zero until `driven`.

`TelemetryProofs` proves `Invariance`, `TypesAreKept`, `BatchesStayStable`,
`OutboxRefinement`, `RollupsStayFaithful` and `HistoryStaysFaithful`. `DeliversBeforeForgetting` is not inductive by itself: a row may be
marked because the sink has its sample, which follows from a batch's contents
being the same in three places. The invariant says so: `Held` for what the thread
has in hand, `Posted` for what was sent, `Stored` for what the bridge has; `OneOpenBatch`
and `Numbered` say that there is one batch and that numbers were given. The rollups
have an invariant of their own (`RInv`): what is in a row was captured (`Recorded`), the
time up to which a resolution is processed is no later than any that was seen (`Passed`),
buckets do not overlap (`Bucketed`), a sample not yet passed is still a row (`Unpassed`),
and one that was passed is counted or its bucket outlived its retention (`Counted`).
The history follows from `RInv`, part by part. An answer is everything found, because the
buckets ahead of one start at different multiples of the width, of which the range holds
fewer than the limit (`LimitIsEnough`); of raw samples there is at most one to a moment
while nothing failed (`Punctual`). A gap has no bucket of its resolution, and the samples
in it would be counted or outlived, and then its first point as well. A role that did
not change between neighbours is the same in all of the bucket (`SameForAll`), so the place
that the last sample gives it is its place in each.

`ServiceOtaProofs` proves `Invariance`, `TypesAreKept`, `NodesStayBootable` and
`VerdictsStayTrue`. The invariant is about one node: `Fits` (its flash is bootable),
`Known` (the numbers it holds were given), `Link` (memory, file and thread agree) and
`Stage` (the operation is in the phase its thread takes it for: six phases from
"received" to "back", each saying where the image is and what was booted or
confirmed). A verdict is then justified by the phase in which it is given.

`ServicePlaneProofs` proves `Invariance`, `TypesAreKept`, `RecordNeverGoesBack`, `NoFaultIsHidden`,
`OnlySilentNodesAreCalledSilent` and `NoNumberIsForgotten`. The invariant, again of one node: the replay
store knows no more than the node has done (`Ordered`), the diagnostics are behind it by
at most the datagram in hand (`Behind`), the age the agent gives a node is at most its
true one (`Aged`). `NoFaultIsHidden` needs no history, but a case for each rule of the
correlation. `NoNumberIsForgotten` follows because what is recorded is later than all that
was: it is one heartbeat more, and of the same boot it adds the numbers since the last
one to the span, which are as many as the gap and one (`OneMore`).

`CoreContextProofs` proves a theorem for each part, from one invariant for each and a lemma that a step of the whole is a step of each part or none:

* *Schedule* (`SchedulesAreExact`): segments, matching and meaning of a window are all
  equal to one test of the time, with the arithmetic of days and of the week's end done
  once (`Within`); validated windows are apart, so at most one matches.
* *Removal* (`RemovalsAreAsked`): `Recorded` ties what was sent and told to what was
  confirmed; `Undisturbed`, while nothing crossed, says that the dialog is that of the
  removal under way and of every dialog not closed, and is closed when overdue and
  only then.
* *Sensor* (`SilenceIsSignalled`): `RowInv` says that no row is newer than what was sent,
  `AirInv` that a connected monitor knows what the bridge remembers and the broker
  retains.
* *Bus* (`OldReadingsNeverHide`): `Followed` says that a live worker's state is at most one
  interval old, that the last entry of the queue is that state, and that the core, which
  may have found the queue empty or a put refused, is at most one interval behind.
* *Reports and SERVICE page* (`WhatIsShownWasTrue`): whatever report is in hand, in a file
  or in the file before is of an analysis that was made (`About`), and one identifier
  names one analysis, so an advice not fetched again is not older; of the page, what
  the provider was told is among what was so since its poll began (`Told`).
* *Policy* (`PoliciesStayHonest`): a policy in use was validated (`PolicyInv`); what the
  validation asks and the shape of the summary's maximum give the rest.
* *SHADOW* (`AdviceIsSound`): no history, but monotony all the way: of each level, of the worst
  of them, of the table looked up with it. It needs the ranges that the validation asks
  of a tuning (`Fit`, from `Ranged`): without them a supply above 100 could be cut below.
* *TACHO* (`FeedbackStaysTrue`): of a line, the edges that wait are the fan's, in order and
  newer than the one counted last (`Waiting`); unless the kernel lost some, none is missing
  (`Complete`), each period kept is a gap between neighbours (`Kept`), and a gap that counts
  left one (`Left`).
* *Journal* (`JournalsAreComplete`): a page is the newest of what is below the cursor
  (`PageTrue`, `Covers`, from the order in which each record has a place of its own,
  `PlacesApart`); a list covers all of its day down to its cursor and the answer on its
  way all from there to its own, which is why the merge finds nothing listed already; a
  day whose count did not change is the same set, since days only grow; and what the
  index does not have yet is older than it reaches (`Reaches`).
* *Registry* (`RegistryStaysSound`): messages keep their order, so the last inventory on its
  way, or the one the monitor has, is the network's (`Arriving`), and a response belongs to
  the one command that waits for its number (`Matched`); an accepted rename has its
  inventory next to it, before or after, so what it writes is the name in the inventory
  (`RenamesSeen`). What a command found is still so when it writes, unless a step that
  changed it marked the command as overtaken (`Captures`, with a form for each sequence of
  writes); a removal that was granted leaves a device that is not in the network, which no
  command granted before can assign any more (`Gone`, `Forgotten`). From these follow one role
  per device (`Single`), the holders' names (`NamesKept`), the subscriptions (`Listening`) and
  the readings (`Sourced`). Names are the network's only while it gives no name twice
  (part of `Arriving`), which is also why two roles can clash only over a device that left.
* *Types* (`TypesAreKept`): beside what the invariants above hold of the types, each state
  of the SENSOR BUS, also those waiting in the queue, keeps its counts in bounds and was
  not read in the future (`Bounded`), which is why a full queue drops one before it adds.

Only model-checked: the liveness properties (`LockIsReleased`, `FaultsAreRecovered`,
`ControlComesBack`, `AlertsFollowConditions`, `RequestsAreSettled`, `EverySampleSynced`,
`Settles`, `LossReported`), as the prover does
not handle fairness, and the seven disagreements, which are counterexamples.

## 7. What is not modelled

* *Fan core*: a worker that survives SIGKILL's join and writes after its successor
  (`process_actuator.py:66`); an answer of an earlier request read by a later one
  (the worker is killed after each timeout). Time: a shutdown that waits for the
  AERO lock longer than systemd waits (`TimeoutStopSec=20`) is a `Crash`.
* *AERO*: the decoding of telemetry; `ready`, `online` and telemetry age are one flag
  `usable`; the unit's own panel changing a register; the locks inside
  `multiprocessing.Queue`. The state queue keeps its newest entry only: reading an
  older one equals having drained earlier.
* *Alerts*: acknowledgements; a record's wording, instead of which any signal may
  cause an early write; cleared records; the store in memory that stands in when
  the database cannot be opened; `clear_key`, which nothing calls; a commit that
  fails and leaves its transaction open until a later one takes it along or a
  crash undoes it; the service plane's correlation, through which the signals
  pass unchanged here (see `ServicePlane`).
* *Host power*: the AERO requests' effect (`AeroControl`); the 10 s after which the agent
  gives up an AERO request that the core still carries out, so that the next is
  refused; an agent run without a relay (`--disable-power-domain`), as the unit
  file does not; the physical state behind the commanded one; a power failure;
  the HMI's sleep and wake.
* *Sensor bus, TACHO, power flags*: decoding of registers; closing the bus; the delay of
  the queue's feeder thread; a TACHO worker that hangs while it opens its line, which
  nothing signals; a missing `vcgencmd`.
* *Schedule*: local time with its changes of summer time is an input; a replacement that
  was committed and whose re-read fails, so that the client is told of a failure
  (`sqlite_schedule_store.py:112`).
* *Shadow*: the service around the evaluator. The code in use has the empty tuning
  only; the others are those its validation admits.
* *Telemetry*: time finer than an interval; a power loss that takes committed
  transactions along (WAL with `synchronous=NORMAL`); the storage level in the status; a
  sample too large for any request, which blocks the queue for ever. Rollups know
  Zigbee devices by their place in the list only, which is why a role's series is
  compared with the device that had the role. A raw query is truncated after
  restarts, each of which captures at once. Ranges a browser makes up may be
  refused: between 41 h 38 min and 48 h at one minute, about 104 to 120 days at one
  hour, more than 2500 rows are needed; the presets are not among them.
* *OTA*: the checks of image and address that refuse before anything changes; errors of
  the disk while the operation is persisted; a DHCP address given to another
  node. After a stop of the agent a stored operation that is not final is reported
  as deferred for ever.
* *Heartbeat*: frame, keys and signature are one flag; a replay file that cannot be
  written; a late datagram of a boot that was never heard, which closes the boot
  that is live (`service_heartbeat.py:254`; `Plausible` excludes it); the agent learns a
  node's Modbus address from a heartbeat only.
* *Service plane*: a poll is one step, so concurrent commands' polls do not overtake
  one another (`service_plane_monitor.py:102`); the core waits 0.35 s while the agent may be
  busy with a probe; the agent's reading of the network is up to 5 s old; a wall clock that
  is set between the agent's start and a poll, from which the core takes the agent's age
  (`service_plane_alert_registry.py:199`).
* *Zigbee*: pairing, battery signals, the wording of capabilities; messages are handled
  in order and one at a time, each write of the registry is a step; the command
  `zigbee-remove-device`, which bypasses the dialog. The deployed configuration of
  Zigbee2MQTT has `last_seen` as ISO 8601 and availability on; others are initial states
  of `ZigbeeSensor`.
* *Alert policy*: the test runtimes of stages 4b and 4c; `alert_v2` page keys.
* *Journal, SERVICE page, reports*: days and time zones; one source faulty at first and
  one change while the page is polled; the tile of the core is "ok" while the alerts
  cannot be asked, as the code has it; a report with a valid identifier that the
  reader refuses is not fetched again (`advisory/agent.py:48`); temporary files left by a
  killed agent; weather has no time at which it counts as old.
* *Left out altogether*: the HMI's sleep and wake (`hmi_power.py`), the Home Assistant
  interface, validation of web requests, presentation, `tools/validate_*` (scripts
  that drive a device on the bench), the node's sensing, RS-485 and application
  state machine, the socket protocol and read-only commands of the server.

Hazards that are known and that no property covers, beside those named above:

* a client's setpoint that is carried out after `close()` may leave a fan driven when the
  process ends (`server.py:51`): `FanSafety` allows a process that ends to leave its
  outputs as they are, and `ImplementsFanSafety` covers only what the core reports then;
* a worker that survives the second its SIGKILL is waited for is forgotten and may
  write to the DAC after its successor (`process_actuator.py:66`);
* a worker killed while it holds a queue's lock leaves the queue locked, and the
  core's next `get` on it waits (`aero_bus_worker.py:387`);
* `close()` waits up to 65 s for the AERO lock, systemd kills after 20 s (`service.py:204`);
* a create that fails leaves its count in the cache for the next incident of that
  key (`alert_registry.py:166`);
* a setpoint that was applied is reported as failed when the alert store raises
  (`alerting_service.py:66`);
* systemctl runs into its time-out after systemd was told, and the flag is reset
  (`host_power_agent.py:381`); the zeroing of AERO is given up after 10 s while the core
  goes on for up to 65 s (`:213`).
