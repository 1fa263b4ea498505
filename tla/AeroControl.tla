----------------------------- MODULE AeroControl -----------------------------
(***************************************************************************)
(* Control of the AERO ventilation unit over its RS-485 bus: the client    *)
(* that holds VentilationService's AERO lock, ProcessAeroBus in the core,  *)
(* the worker process that owns the UART and executes one command at a     *)
(* time, and the unit's control registers, which outlive all of them.      *)
(*                                                                         *)
(* A request goes to the worker through a queue of one place, its result   *)
(* comes back through another; the worker's state (can the bus be used, is *)
(* a command being executed) comes through a third, of which only the      *)
(* newest entry matters. The queues are sets of at most one element. Each  *)
(* access to the bus is a step of its own. The unit's own panel does not   *)
(* change a register here.                                                 *)
(***************************************************************************)
EXTENDS Integers

CONSTANTS
  AeroCommands,   \* the commands clients give
  Held,           \* the values a register may hold before the first command
  MaxRequests,    \* bound: commands admitted in one behaviour
  MaxAeroFaults,  \* bound: bus errors, worker deaths and lost publications
  Kinds           \* the errors the bus shows: "protocol" (ModbusError), "serial"

Registers == {"speed", "airing"}

\* _allowed_previous_values, and what a command may ask for.
Allowed == [r \in Registers |-> IF r = "speed" THEN 0..3 ELSE 0..1]

ASSUME AeroAssumption ==
  /\ AeroCommands \subseteq {c \in [reg : Registers, value : 0..3] : c.value \in Allowed[c.reg]}
  /\ Held \subseteq Nat
  /\ MaxRequests \in Nat
  /\ MaxAeroFaults \in Nat
  /\ Kinds \subseteq {"protocol", "serial"}

VARIABLES
  aeroPhase, \* the core process: up or down
  caller,    \* the client that holds the AERO lock: idle, admitted, waiting
  admitted,  \* commands admitted so far; a command's number is its request_id
  view,      \* ProcessAeroBus._state, as far as it decides about control
  restarts,  \* ProcessAeroBus._worker_restarts
  proc,      \* the worker process: none, dead, alive
  busWk,     \* the worker: where it is, its state, the command it executes
  ctlQ,      \* control queue
  resQ,      \* control result queue
  news,      \* state queue
  regs,      \* the unit's control registers
  aeroFaults \* faults so far

core == <<aeroPhase, caller, admitted, view, restarts>>
queues == <<ctlQ, resQ, news>>
aeroVars == <<core, proc, busWk, queues, regs, aeroFaults>>

------------------------------------------------------------------------------
(* What the parts hold *)

Values == 0..3 \cup Held

Requests ==
  [id : Nat, reg : Registers, value : 0..3,
   worker : Nat]    \* which worker of this core it was handed to

Results ==
  [id : Nat, reg : Registers, value : 0..3, ok : BOOLEAN, prev : Values, recovered : BOOLEAN]

States == [usable : BOOLEAN, busy : BOOLEAN]

Unusable == [usable |-> FALSE, busy |-> FALSE]

NoRequest == [id |-> 0, reg |-> "speed", value |-> 0, worker |-> 0]

Idle == [pc |-> "idle", req |-> NoRequest]

\* A worker that is about to open the port.
NewWorker ==
  [pc |-> "open", usable |-> FALSE, req |-> NoRequest, prev |-> 0, ok |-> FALSE,
   recovered |-> FALSE]

\* The worker has published the state s, which replaces one nobody has read;
\* when the core empties a full queue between the failed put and the get that
\* is to make room, the new state is given up.
Publish(s) ==
  \/ news' = {s} /\ UNCHANGED aeroFaults
  \/ aeroFaults < MaxAeroFaults /\ aeroFaults' = aeroFaults + 1 /\ UNCHANGED news

\* _drain_updates takes what has reached the core's end of the queue.
Drain ==
  \/ view' \in news /\ news' = {}
  \/ UNCHANGED <<view, news>>

------------------------------------------------------------------------------
(* The worker, one bus access per step *)

\* The value of the executed command's register.
Current == regs[busWk.req.reg]

At(pc) == proc = "alive" /\ busWk.pc = pc

\* A step of the worker that touches nothing but its own state.
Quiet == UNCHANGED <<core, proc, queues, regs, aeroFaults>>

OpenPort ==
  /\ At("open")
  /\ busWk' = [busWk EXCEPT !.pc = "loop"]
  /\ Publish(Unusable)
  /\ UNCHANGED <<core, proc, ctlQ, resQ, regs>>

TakeRequest ==
  /\ At("loop")
  /\ \/ /\ ctlQ = {}
        /\ busWk' = [busWk EXCEPT !.pc = "poll"]
        /\ UNCHANGED <<ctlQ, news, aeroFaults>>
     \/ \E q \in ctlQ :
          /\ ctlQ' = {}
          /\ busWk' = [busWk EXCEPT !.pc = "previous", !.req = q]
          /\ Publish([usable |-> busWk.usable, busy |-> TRUE])
  /\ UNCHANGED <<core, proc, resQ, regs>>

\* execute_control_change: a register outside the expected range is refused.
ReadPrevious ==
  /\ At("previous")
  /\ busWk' = [busWk EXCEPT !.prev = Current, !.ok = FALSE, !.recovered = FALSE,
                      !.pc = IF Current \in Allowed[busWk.req.reg] THEN "baseline" ELSE "done"]
  /\ Quiet

\* The fan power before the change; a register that holds the value already is
\* left alone.
ReadBaseline ==
  /\ At("baseline")
  /\ IF busWk.prev = busWk.req.value
     THEN busWk' = [busWk EXCEPT !.pc = "done", !.ok = TRUE, !.recovered = TRUE]
     ELSE busWk' = [busWk EXCEPT !.pc = "write"]
  /\ Quiet

\* Mutant of Write: the value goes out in tenths.
WriteInTenths ==
  /\ At("write")
  /\ regs' = [regs EXCEPT ![busWk.req.reg] = 10 * busWk.req.value]
  /\ busWk' = [busWk EXCEPT !.pc = "readback"]
  /\ UNCHANGED <<core, proc, queues, aeroFaults>>

Write ==
  /\ At("write")
  /\ regs' = [regs EXCEPT ![busWk.req.reg] = busWk.req.value]
  /\ busWk' = [busWk EXCEPT !.pc = "readback"]
  /\ UNCHANGED <<core, proc, queues, aeroFaults>>

Readback ==
  /\ At("readback")
  /\ busWk' = [busWk EXCEPT !.pc = IF Current = busWk.req.value THEN "confirm" ELSE "restore"]
  /\ Quiet

\* The fan power is polled until it differs from the baseline, or too long.
Confirm ==
  /\ At("confirm")
  /\ \/ busWk' = [busWk EXCEPT !.pc = "done", !.ok = TRUE]
     \/ busWk' = [busWk EXCEPT !.pc = "restore"]
  /\ Quiet

\* _restore_previous: a write, and a read that tells whether it worked.
Restore ==
  /\ At("restore")
  /\ regs' = [regs EXCEPT ![busWk.req.reg] = busWk.prev]
  /\ busWk' = [busWk EXCEPT !.pc = "verify"]
  /\ UNCHANGED <<core, proc, queues, aeroFaults>>

Verify ==
  /\ At("verify")
  /\ busWk' = [busWk EXCEPT !.pc = "done", !.recovered = (Current = busWk.prev)]
  /\ Quiet

\* The unit echoes a write it does not carry out.
WriteIgnored ==
  /\ proc = "alive"
  /\ busWk.pc \in {"write", "restore"}
  /\ aeroFaults < MaxAeroFaults
  /\ aeroFaults' = aeroFaults + 1
  /\ busWk' = [busWk EXCEPT !.pc = IF @ = "write" THEN "readback" ELSE "verify"]
  /\ UNCHANGED <<core, proc, queues, regs>>

PublishDone ==
  /\ At("done")
  /\ busWk' = [busWk EXCEPT !.pc = "answer"]
  /\ Publish([usable |-> busWk.usable, busy |-> FALSE])
  /\ UNCHANGED <<core, proc, ctlQ, resQ, regs>>

\* _publish_control_result: a result nobody has taken gives way.
Answer ==
  /\ At("answer")
  /\ resQ' = {[id |-> busWk.req.id, reg |-> busWk.req.reg, value |-> busWk.req.value,
               ok |-> busWk.ok, prev |-> busWk.prev, recovered |-> busWk.recovered]}
  /\ busWk' = [NewWorker EXCEPT !.pc = "poll", !.usable = busWk.usable]
  /\ UNCHANGED <<core, proc, ctlQ, news, regs, aeroFaults>>

Poll ==
  /\ At("poll")
  /\ busWk' = [busWk EXCEPT !.pc = "loop", !.usable = TRUE]
  /\ Publish([usable |-> TRUE, busy |-> FALSE])
  /\ UNCHANGED <<core, proc, ctlQ, resQ, regs>>

------------------------------------------------------------------------------
(* Bus errors *)

\* What a register write that fails may have done to the registers.
MayWrite ==
  \/ UNCHANGED regs
  \/ /\ busWk.pc = "write"
     /\ regs' = [regs EXCEPT ![busWk.req.reg] = busWk.req.value]
  \/ /\ busWk.pc = "restore"
     /\ regs' = [regs EXCEPT ![busWk.req.reg] = busWk.prev]

\* The worker's report of an error, which may get lost like any other.
Reports == news' = {Unusable} \/ UNCHANGED news

\* An exception nobody in the cycle catches: the port is closed and, later,
\* opened again; the command, if there was one, is forgotten without a result.
Breaks ==
  /\ busWk' = NewWorker
  /\ Reports
  /\ UNCHANGED <<core, proc, ctlQ, resQ>>

BusFault(kind) ==
  /\ proc = "alive"
  /\ kind \in Kinds
  /\ aeroFaults < MaxAeroFaults
  /\ aeroFaults' = aeroFaults + 1

\* A ModbusError: missing, damaged or negative answer. Only the write, its
\* readback, the restoring and the poll handle it.
ProtocolError ==
  /\ BusFault("protocol")
  /\ \/ /\ busWk.pc \in {"write", "readback"}
        /\ MayWrite
        /\ busWk' = [busWk EXCEPT !.pc = "restore"]
        /\ UNCHANGED <<core, proc, queues>>
     \/ /\ busWk.pc \in {"restore", "verify"}
        /\ MayWrite
        /\ busWk' = [busWk EXCEPT !.pc = "done"]
        /\ UNCHANGED <<core, proc, queues>>
     \/ /\ busWk.pc = "poll"
        /\ busWk' = [busWk EXCEPT !.pc = "loop", !.usable = FALSE]
        /\ Reports
        /\ UNCHANGED <<core, proc, ctlQ, resQ, regs>>
     \/ /\ busWk.pc \in {"previous", "baseline", "confirm"}
        /\ Breaks
        /\ UNCHANGED regs

\* A SerialException: the adapter is gone, or cannot be opened.
SerialError ==
  /\ BusFault("serial")
  /\ busWk.pc \in {"open", "previous", "baseline", "write", "readback", "confirm",
                "restore", "verify", "poll"}
  /\ MayWrite
  /\ Breaks

\* The process dies. Its result may already be in the pipe.
BusWorkerDies ==
  /\ proc = "alive"
  /\ aeroFaults < MaxAeroFaults
  /\ aeroFaults' = aeroFaults + 1
  /\ proc' = "dead"
  /\ busWk' = NewWorker
  /\ UNCHANGED <<core, queues, regs>>

------------------------------------------------------------------------------
(* The core *)

\* A client takes the AERO lock, without waiting for it, and finds the bus
\* usable and not busy. A refused client only drains the queue, as Status does.
AdmitCommand(c) ==
  /\ aeroPhase = "up"
  /\ caller.pc = "idle"
  /\ admitted < MaxRequests
  /\ Drain
  /\ proc = "alive"
  /\ view'.usable
  /\ ~view'.busy
  /\ admitted' = admitted + 1
  /\ caller' = [pc |-> "admitted",
                req |-> [id |-> admitted + 1, reg |-> c.reg, value |-> c.value, worker |-> 0]]
  /\ UNCHANGED <<aeroPhase, restarts, proc, busWk, ctlQ, resQ, regs, aeroFaults>>

\* execute_control looks again, as the service lock was released in between,
\* and hands the request over. RuntimeError releases the AERO lock.
Submit ==
  /\ aeroPhase = "up"
  /\ caller.pc = "admitted"
  /\ Drain
  /\ IF proc = "alive" /\ view'.usable /\ ctlQ = {}
     THEN /\ ctlQ' = {[caller.req EXCEPT !.worker = restarts]}
          /\ caller' = [caller EXCEPT !.pc = "waiting"]
     ELSE /\ caller' = Idle
          /\ UNCHANGED ctlQ
  /\ UNCHANGED <<aeroPhase, admitted, restarts, proc, busWk, resQ, regs, aeroFaults>>

\* Mutant of Receive: any result is taken for the client's own.
ReceiveAny ==
  /\ aeroPhase = "up"
  /\ caller.pc = "waiting"
  /\ resQ # {}
  /\ resQ' = {}
  /\ caller' = Idle
  /\ Drain
  /\ UNCHANGED <<aeroPhase, admitted, restarts, proc, busWk, ctlQ, regs, aeroFaults>>

\* The waiting client returns with its own result and discards any other.
Receive ==
  /\ aeroPhase = "up"
  /\ caller.pc = "waiting"
  /\ \E a \in resQ :
       IF a.id = caller.req.id
       THEN caller' = Idle /\ Drain
       ELSE UNCHANGED <<caller, view, news>>
  /\ resQ' = {}
  /\ UNCHANGED <<aeroPhase, admitted, restarts, proc, busWk, ctlQ, regs, aeroFaults>>

\* Mutant of Timeout: queue.get() without a timeout.
WaitForEver == FALSE /\ UNCHANGED aeroVars

\* The client gives up; its command may be queued or executing still.
Timeout ==
  /\ aeroPhase = "up"
  /\ caller.pc = "waiting"
  /\ caller' = Idle
  /\ UNCHANGED <<aeroPhase, admitted, view, restarts, proc, busWk, queues, regs, aeroFaults>>

\* A status request, or the health check of a live worker.
BusStatus ==
  /\ aeroPhase = "up"
  /\ news # {}
  /\ view' \in news
  /\ news' = {}
  /\ UNCHANGED <<aeroPhase, caller, admitted, restarts, proc, busWk, ctlQ, resQ, regs, aeroFaults>>

StartBusWorker == proc' = "alive" /\ busWk' = NewWorker /\ view' = Unusable

\* Mutant of CheckBus: the new worker inherits the queued request.
HealthCheckKeepingRequest ==
  /\ aeroPhase = "up"
  /\ proc = "dead"
  /\ StartBusWorker
  /\ restarts' = restarts + 1
  /\ resQ' = {} /\ news' = {}
  /\ UNCHANGED <<aeroPhase, caller, admitted, ctlQ, regs, aeroFaults>>

\* A dead worker is replaced, and all three queues are emptied.
CheckBus ==
  /\ aeroPhase = "up"
  /\ proc = "dead"
  /\ StartBusWorker
  /\ restarts' = restarts + 1
  /\ ctlQ' = {} /\ resQ' = {} /\ news' = {}
  /\ UNCHANGED <<aeroPhase, caller, admitted, regs, aeroFaults>>

\* The process ends: its worker is stopped and its queues are gone.
Ends ==
  /\ aeroPhase' = "down"
  /\ caller' = Idle
  /\ proc' = "none"
  /\ busWk' = NewWorker
  /\ view' = Unusable
  /\ restarts' = 0
  /\ ctlQ' = {} /\ resQ' = {} /\ news' = {}
  /\ UNCHANGED <<admitted, regs, aeroFaults>>

\* close() waits for the AERO lock.
CloseBus == aeroPhase = "up" /\ caller.pc = "idle" /\ Ends

CrashBus == aeroPhase = "up" /\ Ends

\* ProcessAeroBus.__init__
BootBus ==
  /\ aeroPhase = "down"
  /\ aeroPhase' = "up"
  /\ StartBusWorker
  /\ UNCHANGED <<caller, admitted, restarts, queues, regs, aeroFaults>>

------------------------------------------------------------------------------

AeroInit ==
  /\ aeroPhase = "down"
  /\ caller = Idle
  /\ admitted = 0
  /\ view = Unusable
  /\ restarts = 0
  /\ proc = "none"
  /\ busWk = NewWorker
  /\ ctlQ = {} /\ resQ = {} /\ news = {}
  /\ regs \in [Registers -> Held]
  /\ aeroFaults = 0

BusWorkerStep ==
  \/ OpenPort \/ TakeRequest \/ ReadPrevious \/ ReadBaseline \/ Write \/ Readback
  \/ Confirm \/ Restore \/ Verify \/ PublishDone \/ Answer \/ Poll

AeroNext ==
  \/ \E c \in AeroCommands : AdmitCommand(c)
  \/ Submit \/ Receive \/ Timeout
  \/ BusStatus \/ CheckBus \/ CloseBus \/ CrashBus \/ BootBus
  \/ BusWorkerStep
  \/ WriteIgnored \/ ProtocolError \/ SerialError \/ BusWorkerDies

\* The processes run; the health monitor comes round, and its check drains the
\* state queue; a waiting client does not wait for ever.
AeroFairness ==
  /\ WF_aeroVars(BusWorkerStep)
  /\ WF_aeroVars(Submit)
  /\ WF_aeroVars(Receive \/ Timeout)
  /\ WF_aeroVars(BusStatus)
  /\ WF_aeroVars(CheckBus)

AeroSpec == AeroInit /\ [][AeroNext]_aeroVars

AeroFairSpec == AeroSpec /\ AeroFairness

------------------------------------------------------------------------------
(* Properties *)

Callers == [pc : {"idle", "admitted", "waiting"}, req : Requests]

BusWorkers ==
  [pc : {"open", "loop", "previous", "baseline", "write", "readback", "confirm", "restore",
         "verify", "done", "answer", "poll"},
   usable : BOOLEAN, req : Requests, prev : Values, ok : BOOLEAN, recovered : BOOLEAN]

\* Every variable has its type; what the unit's registers hold is what they
\* held at first or what a command may ask for.
AeroTypeOK ==
  /\ aeroPhase \in {"up", "down"}
  /\ caller \in Callers
  /\ admitted \in Nat
  /\ view \in States
  /\ restarts \in Nat
  /\ proc \in {"none", "dead", "alive"}
  /\ busWk \in BusWorkers
  /\ ctlQ \in SUBSET Requests
  /\ resQ \in SUBSET Results
  /\ news \in SUBSET States
  /\ regs \in [Registers -> Values]
  /\ aeroFaults \in Nat

\* A result is about the command c, and what it says of the register is so:
\* a success has set it, a recovery has put the previous value back, and with
\* no fault so far a failure has left it as it was.
Truth(a, c) ==
  /\ a.reg = c.reg /\ a.value = c.value
  /\ a.ok => regs[c.reg] = c.value
  /\ a.recovered => regs[c.reg] = a.prev
  /\ ~a.ok /\ aeroFaults = 0 => regs[c.reg] = a.prev

\* When execute_control returns a result, it is the result of the caller's own
\* command and true of the unit at that moment, however many commands were
\* given up before, and whatever failed or was restarted in between.
ClientIsToldTheTruth ==
  [][\A a \in resQ : Receive /\ caller'.pc = "idle" => Truth(a, caller.req)]_aeroVars

\* The health check replaces a dead worker while requests are in flight: no
\* request is executed by another worker than the one it was handed to, after
\* a restart at a time nobody expects.
NoRequestOutlivesItsWorker ==
  /\ \A q \in ctlQ : q.worker = restarts
  /\ busWk.req.id # 0 => busWk.req.worker = restarts

\* After whatever deaths, errors and clients that gave up, a core that stays up
\* comes to accept control commands again: the AERO lock is free, the worker
\* lives, the bus is seen usable and idle, and no command is queued.
ControlComesBack ==
  aeroPhase = "up" ~>
    \/ aeroPhase # "up"
    \/ /\ caller.pc = "idle" /\ proc = "alive"
       /\ view.usable /\ ~view.busy /\ ctlQ = {}
==============================================================================
