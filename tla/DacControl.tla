----------------------------- MODULE DacControl ------------------------------
(***************************************************************************)
(* The fan control core: VentilationService (one operation at a time under *)
(* its lock), the ProcessIsolatedActuator proxy, the hardware worker       *)
(* process with its DFR0971Actuator, and the two output registers of the   *)
(* GP8403 DAC, which keep their value when every process is dead.          *)
(*                                                                         *)
(* The worker's I2C accesses are steps of their own, so that a fault, a    *)
(* worker death, a timeout of the proxy or a crash of the core falls       *)
(* between any two of them. Voltages are decivolts.                        *)
(***************************************************************************)
EXTENDS Integers

CONSTANTS
  Threshold,      \* hardware_failure_threshold
  MinVolt,        \* FanSetpointPolicy.minimum_running_voltage
  MaxVolt,        \* FanSetpointPolicy.maximum_voltage
  Requested,      \* voltages a client asks for, acceptable or not
  MaxDacFaults    \* bound: I2C errors, worker deaths and hangs of one behaviour

ASSUME DacAssumption ==
  /\ Threshold \in Nat \ {0}
  /\ MinVolt \in 1..100
  /\ MaxVolt \in MinVolt..100
  /\ Requested \subseteq Nat
  /\ MaxDacFaults \in Nat

VARIABLES
  phase,    \* the core process: down, boot, up, closing, closed
  late,     \* operations whose threads still wait for the lock after close
  call,     \* the operation that holds the service lock
  stage,    \* what that operation waits for: idle, send, startup, command
  svc,      \* VentilationService's fields
  proxy,    \* ProcessIsolatedActuator: its _ready flag and its _process
  wk,       \* the worker: its actuator's _ready, the command, where it is
  dac,      \* the DAC's output registers
  faults    \* faults so far

dacVars == <<phase, late, call, stage, svc, proxy, wk, dac, faults>>

------------------------------------------------------------------------------
(* Voltages and codes *)

Channels == {0, 1}    \* supply and extract

\* Mutant of Acceptable: the policy lets every voltage through.
AnyVoltage(v) == v \in Nat

Acceptable(v) == v = 0 \/ v \in MinVolt..MaxVolt

\* The voltages a setpoint may hold: what the clients ask for, as far as the
\* rules of operation allow it.
Voltages == {0} \cup (Requested \cap MinVolt..MaxVolt)

Setpoints == [Channels -> Voltages]

Stopped == [c \in Channels |-> 0]

\* Python's round(): to nearest, ties to even.
RoundHalfEven(n, d) ==
  LET q == n \div d
      r == n % d
  IN  IF 2 * r < d \/ (2 * r = d /\ q % 2 = 0) THEN q ELSE q + 1

\* The 12-bit code, in the register's upper bits.
VoltageToWord(v) == 16 * RoundHalfEven(v * 4095, 100)

Words(s) == [c \in Channels |-> VoltageToWord(s[c])]

Codes == {VoltageToWord(v) : v \in Voltages}

Off == [c \in Channels |-> 0]

------------------------------------------------------------------------------
(* What the parts hold *)

Operations == {"none", "boot", "set", "stop", "health", "close"}
Commands == {"none", "apply", "stop", "health", "recover", "shutdown"}

NoCall == [op |-> "none", cmd |-> "none", arg |-> Stopped]

\* An alarm is kept as its occurrence count; 0 is no alarm.
NewService(ready) ==
  [mode |-> IF ready THEN "STOP" ELSE "FAULT",
   setpoints |-> Stopped,
   known |-> ready,
   recovery |-> ~ready,
   failures |-> IF ready THEN 0 ELSE Threshold,
   alarm |-> IF ready THEN 0 ELSE Threshold]

NoWorker == [ready |-> FALSE, cmd |-> "none", pc |-> "rest", target |-> Stopped,
             reply |-> "none"]

\* The actuator.ready property: the flag, and the process is alive.
Ready == proxy.ready /\ proxy.proc = "alive"

Operational == ~svc.recovery /\ Ready /\ svc.alarm = 0

------------------------------------------------------------------------------
(* The service: how an operation ends *)

\* Mutant of Recovered: the alarm outlives the recovery.
RecoveredKeepingAlarm(s) ==
  [s EXCEPT !.setpoints = Stopped, !.mode = "STOP", !.known = TRUE,
            !.failures = 0, !.recovery = FALSE]

Recovered(s) ==
  [s EXCEPT !.setpoints = Stopped, !.mode = "STOP", !.known = TRUE,
            !.failures = 0, !.recovery = FALSE, !.alarm = 0]

Applied(s, sp) ==
  [s EXCEPT !.setpoints = sp, !.known = TRUE,
            !.mode = IF sp = Stopped THEN "STOP" ELSE "MANUAL"]

\* Mutant of Failed: the outputs still count as known.
FailedKeepingKnown(s, immediate) ==
  LET n == s.failures + 1
      raise == immediate \/ n >= Threshold
  IN  [s EXCEPT !.failures = n, !.recovery = TRUE,
                !.alarm = IF raise THEN n ELSE @,
                !.mode = IF raise THEN "FAULT" ELSE @]

\* _record_hardware_failure: the alarm is raised at once or at the threshold,
\* and an alarm below the threshold is not refreshed.
Failed(s, immediate) ==
  LET n == s.failures + 1
      raise == immediate \/ n >= Threshold
  IN  [s EXCEPT !.failures = n, !.known = FALSE, !.recovery = TRUE,
                !.alarm = IF raise THEN n ELSE @,
                !.mode = IF raise THEN "FAULT" ELSE @]

Release == stage' = "idle" /\ call' = NoCall

\* _request returned: the operation succeeded.
Succeed ==
  \/ /\ call.op = "set"
     /\ svc' = Applied(svc, call.arg)
     /\ Release
     /\ UNCHANGED phase
  \/ /\ call.op \in {"stop", "health"}
     /\ call.cmd \in {"stop", "recover"}
     /\ svc' = Recovered(svc)
     /\ Release
     /\ UNCHANGED phase
  \/ /\ call.op = "health"
     /\ call.cmd = "health"
     /\ svc' = [svc EXCEPT !.failures = 0, !.known = TRUE]
     /\ Release
     /\ UNCHANGED phase

\* _request raised: set and stop raise the alarm at once, health at the
\* threshold.
Fail ==
  /\ call.op \in {"set", "stop", "health"}
  /\ svc' = Failed(svc, call.op # "health")
  /\ Release
  /\ UNCHANGED phase

\* close() logs the outcome of stop_all and goes on to actuator.close(), which
\* asks a live worker to shut down and then forgets it.
CloseGoesOn ==
  /\ call.op = "close"
  /\ call.cmd = "stop"
  /\ call' = [call EXCEPT !.cmd = "shutdown"]
  /\ stage' = "shutdown"
  /\ UNCHANGED <<svc, phase>>

CloseEnds ==
  /\ phase' = "closed"
  /\ proxy' = [ready |-> FALSE, proc |-> "none"]
  /\ wk' = NoWorker
  /\ Release

------------------------------------------------------------------------------
(* The proxy: starting, asking and killing the worker *)

\* Starting the worker and its first step, opening the I2C bus.
Spawn ==
  /\ proxy' = [ready |-> FALSE, proc |-> "alive"]
  /\ wk' = [NoWorker EXCEPT !.cmd = "start", !.pc = "open"]

\* The command is queued for the worker.
Hand(cmd, sp) ==
  wk' = [wk EXCEPT !.cmd = cmd, !.pc = "take", !.target = sp, !.reply = "none"]

\* _terminate_worker
Kill ==
  /\ proxy' = [ready |-> FALSE, proc |-> "none"]
  /\ wk' = NoWorker

\* _ensure_worker, then the request is put on the queue.
Send ==
  /\ stage = "send"
  /\ \/ /\ proxy.proc = "alive"
        /\ Hand(call.cmd, call.arg)
        /\ stage' = "command"
        /\ UNCHANGED proxy
     \/ /\ proxy.proc # "alive"
        /\ Spawn
        /\ stage' = "startup"
  /\ UNCHANGED <<phase, late, call, svc, dac, faults>>

\* The request failed; whoever holds the lock handles the exception.
Raise ==
  \/ Fail
  \/ CloseGoesOn

\* The worker's startup message: __init__ of the service at boot, the command
\* itself if it is one that may follow a restart, an error otherwise.
StartupReply ==
  /\ stage = "startup"
  /\ wk.reply = "ok"
  /\ \/ /\ call.op = "boot"
        /\ phase' = "up"
        /\ proxy' = [proxy EXCEPT !.ready = wk.ready]
        /\ svc' = NewService(wk.ready /\ proxy.proc = "alive")
        /\ Release
        /\ UNCHANGED wk
     \/ /\ call.cmd \in {"recover", "shutdown"}
        /\ proxy' = [proxy EXCEPT !.ready = wk.ready]
        /\ Hand(call.cmd, call.arg)
        /\ stage' = "command"
        /\ UNCHANGED <<phase, call, svc>>
     \/ /\ call.cmd \in {"apply", "stop", "health"}
        /\ proxy' = [proxy EXCEPT !.ready = FALSE]
        /\ Raise
        /\ UNCHANGED wk
  /\ UNCHANGED <<late, dac, faults>>

\* Mutant of CommandReply: a failed command leaves the proxy ready.
CommandReplyKeepingReady ==
  /\ stage = "command"
  /\ wk.reply # "none"
  /\ call.cmd # "shutdown"
  /\ proxy' = [proxy EXCEPT !.ready = (@ \/ wk.reply = "ok")]
  /\ IF wk.reply = "ok" THEN Succeed \/ CloseGoesOn ELSE Raise
  /\ UNCHANGED <<late, wk, dac, faults>>

\* The answer to a command.
CommandReply ==
  /\ stage = "command"
  /\ wk.reply # "none"
  /\ call.cmd # "shutdown"
  /\ proxy' = [proxy EXCEPT !.ready = (wk.reply = "ok")]
  /\ IF wk.reply = "ok" THEN Succeed \/ CloseGoesOn ELSE Raise
  /\ UNCHANGED <<late, wk, dac, faults>>

\* Mutant of NoAnswer: queue.get() without a timeout.
OnlyBrokenWorker == wk.reply = "broken"

\* No message can come any more, or none that helps: a worker that could not
\* open the bus, or that is dead.
NoAnswer ==
  \/ wk.reply = "broken"
  \/ wk.reply = "none" /\ proxy.proc = "dead"

\* The proxy gives up on the worker: kills and forgets it, and raises.
GiveUp ==
  /\ stage \in {"startup", "command"}
  /\ Kill
  /\ \/ /\ call.op = "boot"          \* run_core fails: the process exits
        /\ phase' = "down"
        /\ Release
        /\ UNCHANGED svc
     \/ /\ call.cmd # "shutdown"
        /\ Raise
  /\ UNCHANGED <<late, dac>>

LostWorker == NoAnswer /\ GiveUp /\ UNCHANGED faults

\* queue.get(timeout) expires on a worker that is alive but slow.
CommandTimeout ==
  /\ proxy.proc = "alive"
  /\ wk.reply = "none"
  /\ faults < MaxDacFaults
  /\ faults' = faults + 1
  /\ GiveUp

------------------------------------------------------------------------------
(* The worker: one I2C access per step *)

\* The order of the accesses of one command.
AfterAccess(pc) ==
  IF pc = "probe" /\ wk.cmd = "health" THEN "rest"
  ELSE [probe |-> "range", range |-> "ch0", ch0 |-> "ch1", ch1 |-> "rest"][pc]

Channel(pc) == IF pc = "ch0" THEN 0 ELSE 1

\* What the register holds once the access of this step has reached the DAC.
Written(pc) ==
  IF pc \in {"ch0", "ch1"}
  THEN [dac EXCEPT ![Channel(pc)] = VoltageToWord(wk.target[Channel(pc)])]
  ELSE dac

Accessing == proxy.proc = "alive" /\ wk.pc \in {"probe", "range", "ch0", "ch1"}

OpenBus ==
  /\ proxy.proc = "alive"
  /\ wk.pc = "open"
  /\ wk' = [wk EXCEPT !.pc = "probe"]
  /\ UNCHANGED <<phase, late, call, stage, svc, proxy, dac, faults>>

OpenBusFails ==
  /\ proxy.proc = "alive"
  /\ wk.pc = "open"
  /\ faults < MaxDacFaults
  /\ faults' = faults + 1
  /\ wk' = [wk EXCEPT !.pc = "rest", !.reply = "broken"]
  /\ UNCHANGED <<phase, late, call, stage, svc, proxy, dac>>

\* What a command does depends on the actuator's _ready: apply refuses and
\* stop_all returns at once when it is false; recover clears it and starts over.
TakeCommand ==
  /\ proxy.proc = "alive"
  /\ wk.pc = "take"
  /\ \/ /\ wk.cmd \in {"apply", "stop", "shutdown"}
        /\ wk.ready
        /\ wk' = [wk EXCEPT !.pc = "ch0"]
     \/ /\ wk.cmd = "apply"
        /\ ~wk.ready
        /\ wk' = [wk EXCEPT !.pc = "rest", !.reply = "failed"]
     \/ /\ wk.cmd \in {"stop", "shutdown"}
        /\ ~wk.ready
        /\ wk' = [wk EXCEPT !.pc = "rest", !.reply = "ok"]
     \/ /\ wk.cmd = "health"
        /\ wk' = [wk EXCEPT !.pc = "probe"]
     \/ /\ wk.cmd = "recover"
        /\ wk' = [wk EXCEPT !.pc = "probe", !.ready = FALSE]
  /\ UNCHANGED <<phase, late, call, stage, svc, proxy, dac, faults>>

Access ==
  /\ Accessing
  /\ dac' = Written(wk.pc)
  /\ wk' = [wk EXCEPT !.pc = AfterAccess(wk.pc),
                      !.ready = (@ \/ wk.pc = "ch1"),
                      !.reply = IF AfterAccess(wk.pc) = "rest" THEN "ok" ELSE @]
  /\ UNCHANGED <<phase, late, call, stage, svc, proxy, faults>>

\* An I2C error, reported although the write may have landed. The worker
\* reports a failed start as a successful startup with hardware_ready false,
\* and a failed probe leaves its actuator ready.
AccessFails ==
  /\ Accessing
  /\ faults < MaxDacFaults
  /\ faults' = faults + 1
  /\ dac' \in {dac, Written(wk.pc)}
  /\ wk' = [wk EXCEPT !.pc = "rest",
                      !.ready = (@ /\ wk.cmd = "health"),
                      !.reply = IF wk.cmd = "start" THEN "ok" ELSE "failed"]
  /\ UNCHANGED <<phase, late, call, stage, svc, proxy>>

\* The worker process dies; an answer it queued may be lost with it.
WorkerDies ==
  /\ proxy.proc = "alive"
  /\ faults < MaxDacFaults
  /\ faults' = faults + 1
  /\ proxy' = [proxy EXCEPT !.proc = "dead"]
  /\ \E r \in {wk.reply, "none"} : wk' = [NoWorker EXCEPT !.ready = wk.ready, !.reply = r]
  /\ UNCHANGED <<phase, late, call, stage, svc, dac>>

------------------------------------------------------------------------------
(* The core: its operations, its life and its end *)

\* An operation takes the service lock. After close only the threads that were
\* already waiting for it still do.
Admit(op) ==
  /\ stage = "idle"
  /\ \/ phase = "up" /\ UNCHANGED late
     \/ phase = "closed" /\ op \in late /\ late' = late \ {op}

Start(op, cmd, sp) ==
  /\ call' = [op |-> op, cmd |-> cmd, arg |-> sp]
  /\ stage' = "send"
  /\ UNCHANGED <<phase, svc, proxy, wk, dac, faults>>

\* A setpoint the policy refuses, or refused hardware, changes nothing.
SetManual(sp) ==
  /\ \A c \in Channels : Acceptable(sp[c])
  /\ Admit("set")
  /\ Operational
  /\ Start("set", "apply", sp)

\* Mutant of Stop: the worker is asked to stop even when recovery is due.
StopWithoutRecovery ==
  /\ Admit("stop")
  /\ Start("stop", "stop", Stopped)

Stop ==
  /\ Admit("stop")
  /\ Start("stop", IF svc.recovery \/ ~Ready THEN "recover" ELSE "stop", Stopped)

\* Mutant of HealthCheck: it probes the DAC and never recovers it.
HealthCheckOnlyProbes ==
  /\ Admit("health")
  /\ ~svc.recovery
  /\ Start("health", "health", Stopped)

HealthCheck ==
  /\ Admit("health")
  /\ Start("health", IF svc.recovery \/ ~Ready THEN "recover" ELSE "health", Stopped)

\* SIGTERM or the shutdown command: close() takes the lock. A health_check may
\* still be waiting for it, and, as Server.wait_closed() does not wait for open
\* connections on Python 3.11, so may clients' commands.
Close ==
  /\ phase = "up"
  /\ stage = "idle"
  /\ phase' = "closing"
  /\ call' = [op |-> "close", cmd |-> "stop", arg |-> Stopped]
  /\ stage' = "send"
  /\ late' \in SUBSET {"health", "set", "stop"}
  /\ UNCHANGED <<svc, proxy, wk, dac, faults>>

\* actuator.close(): a live worker is asked to shut down.
CloseWorker ==
  /\ stage = "shutdown"
  /\ \/ /\ proxy.proc = "alive"
        /\ stage' = "send"
        /\ UNCHANGED <<phase, call, proxy, wk>>
     \/ /\ proxy.proc # "alive"
        /\ CloseEnds
  /\ UNCHANGED <<late, svc, dac, faults>>

\* However the shutdown request ends, the worker is joined or terminated.
CloseReply ==
  /\ call.cmd = "shutdown"
  /\ \/ stage = "command" /\ wk.reply # "none"
     \/ stage \in {"startup", "command"} /\ NoAnswer
  /\ CloseEnds
  /\ UNCHANGED <<late, svc, dac, faults>>

CloseTimeout ==
  /\ call.cmd = "shutdown"
  /\ stage \in {"startup", "command"}
  /\ proxy.proc = "alive"
  /\ wk.reply = "none"
  /\ faults < MaxDacFaults
  /\ faults' = faults + 1
  /\ CloseEnds
  /\ UNCHANGED <<late, svc, dac>>

\* The interpreter waits for its threads, then takes its daemon worker along.
Exit ==
  /\ phase = "closed"
  /\ stage = "idle"
  /\ late = {}
  /\ phase' = "down"
  /\ Kill
  /\ UNCHANGED <<late, call, stage, svc, dac, faults>>

\* The core dies at any point; systemd kills what is left of its processes.
Crash ==
  /\ phase # "down"
  /\ phase' = "down"
  /\ late' = {}
  /\ Kill
  /\ Release
  /\ UNCHANGED <<svc, dac, faults>>

\* systemd, or the operator, starts the core: the proxy's constructor.
Boot ==
  /\ phase = "down"
  /\ phase' = "boot"
  /\ call' = [op |-> "boot", cmd |-> "none", arg |-> Stopped]
  /\ stage' = "startup"
  /\ Spawn
  /\ UNCHANGED <<late, svc, dac, faults>>

------------------------------------------------------------------------------

DacInit ==
  /\ phase = "down"
  /\ late = {}
  /\ call = NoCall
  /\ stage = "idle"
  /\ svc = NewService(FALSE)
  /\ proxy = [ready |-> FALSE, proc |-> "none"]
  /\ wk = NoWorker
  /\ dac \in [Channels -> Codes]
  /\ faults = 0

WorkerStep == OpenBus \/ TakeCommand \/ Access

CallStep == Send \/ StartupReply \/ CommandReply \/ LostWorker \/ CloseWorker \/ CloseReply

Fault == OpenBusFails \/ AccessFails \/ WorkerDies \/ CommandTimeout \/ CloseTimeout

DacNext ==
  \/ \E sp \in [Channels -> Requested] : SetManual(sp)
  \/ Stop
  \/ HealthCheck
  \/ Close
  \/ Exit
  \/ Crash
  \/ Boot
  \/ WorkerStep
  \/ CallStep
  \/ Fault

\* The threads and processes run; the health monitor's thread gets the lock
\* again and again although operators use it too.
DacFairness ==
  /\ WF_dacVars(WorkerStep)
  /\ WF_dacVars(CallStep)
  /\ SF_dacVars(HealthCheck)

DacSpec == DacInit /\ [][DacNext]_dacVars

DacFairSpec == DacSpec /\ DacFairness

------------------------------------------------------------------------------
(* Properties *)

Calls == [op : Operations, cmd : Commands, arg : Setpoints]

Services ==
  [mode : {"STOP", "MANUAL", "FAULT"}, setpoints : Setpoints,
   known : BOOLEAN, recovery : BOOLEAN, failures : Nat, alarm : Nat]

Proxies == [ready : BOOLEAN, proc : {"none", "dead", "alive"}]

Workers ==
  [ready : BOOLEAN, cmd : Commands \cup {"start"},
   pc : {"rest", "open", "take", "probe", "range", "ch0", "ch1"},
   target : Setpoints, reply : {"none", "ok", "failed", "broken"}]

\* Every variable has its type. In particular no setpoint outside 0 and the
\* running range is ever held, and no register value it does not convert to.
DacTypeOK ==
  /\ phase \in {"down", "boot", "up", "closing", "closed"}
  /\ late \in SUBSET {"health", "set", "stop"}
  /\ call \in Calls
  /\ stage \in {"idle", "send", "startup", "command", "shutdown"}
  /\ svc \in Services
  /\ proxy \in Proxies
  /\ wk \in Workers
  /\ dac \in [Channels -> Codes]
  /\ faults \in Nat

\* Whenever status can be read (the lock is free, the core serves clients) and
\* says that the output state is known, the DAC's registers carry exactly the
\* reported setpoints: whatever failed, died or was restarted before, a half
\* applied setpoint, a skipped stop or a restarted worker is never reported as
\* a known output.
KnownOutputsAreTrue ==
  phase = "up" /\ stage = "idle" /\ svc.known => dac = Words(svc.setpoints)

\* The fields a client reads agree: FAULT is shown exactly while the DAC alarm
\* is active, an alarm means that recovery is due, outputs are unknown exactly
\* while recovery is due, the failure count is zero exactly then as well, and
\* Threshold failures in a row never go without an alarm.
FaultsAreReported ==
  /\ svc.mode = "FAULT" <=> svc.alarm > 0
  /\ svc.alarm > 0 => svc.recovery
  /\ svc.recovery <=> ~svc.known
  /\ svc.recovery <=> svc.failures > 0
  /\ svc.failures >= Threshold => svc.alarm > 0
  /\ svc.alarm <= svc.failures

\* While the core is up and no operation is under way, a worker the proxy holds
\* for ready has a ready actuator. Its stop_all returns silently when it is not:
\* stop would then report stopped fans without touching the DAC.
ReadyProxyHasReadyWorker ==
  phase = "up" /\ stage = "idle" /\ Ready => wk.ready

\* The core implements the promise of FanSafety.
Status ==
  IF ~(phase \in {"up", "closed"} /\ svc.known) THEN "unknown"
  ELSE IF stage = "idle" THEN (IF proxy.ready THEN "trusted" ELSE "unknown")
  ELSE IF call.cmd \in {"apply", "stop", "health"} THEN "working" ELSE "unknown"

Promise == IF Status = "unknown" THEN Off ELSE Words(svc.setpoints)

Aim ==
  IF Status # "working" THEN Off
  ELSE Words(IF call.cmd = "health" THEN svc.setpoints ELSE call.arg)

Abstract == INSTANCE FanSafety WITH
  Goals <- [Channels -> Codes], out <- dac, status <- Status, promise <- Promise, goal <- Aim

ImplementsFanSafety == Abstract!Spec

\* Every operation ends: the lock that all clients and the health monitor wait
\* for is never held for ever, whatever the worker does.
LockIsReleased == stage # "idle" ~> stage = "idle"

\* A core that stays up does not stay in need of recovery: the health monitor
\* brings the DAC back once the faults cease, without any operator.
FaultsAreRecovered ==
  phase = "up" /\ svc.recovery ~> phase # "up" \/ ~svc.recovery
==============================================================================
