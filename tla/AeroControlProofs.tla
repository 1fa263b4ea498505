-------------------------- MODULE AeroControlProofs --------------------------
(***************************************************************************)
(* What AeroControl guarantees for every set of commands, whatever the     *)
(* registers hold at first, and for any number of requests and faults.     *)
(***************************************************************************)
EXTENDS AeroControl, TLAPS

------------------------------------------------------------------------------
(* Types *)

\* Where the worker is while it executes a command, and where it is at all.
Executing ==
  {"previous", "baseline", "write", "readback", "confirm", "restore", "verify", "done", "answer"}

Points == Executing \cup {"open", "loop", "poll"}

LEMMA AllPoints ==
  /\ "open" \in Points /\ "loop" \in Points /\ "poll" \in Points
  /\ "previous" \in Points /\ "baseline" \in Points /\ "write" \in Points
  /\ "readback" \in Points /\ "confirm" \in Points /\ "restore" \in Points
  /\ "verify" \in Points /\ "done" \in Points /\ "answer" \in Points
  BY DEF Points, Executing

\* Moving the worker, and what it notes on the way, keep its type.
LEMMA WorkerUpdates ==
  ASSUME NEW w \in BusWorkers, NEW pc \in Points
  PROVE  /\ [w EXCEPT !.pc = pc] \in BusWorkers
         /\ \A b \in BOOLEAN : /\ [w EXCEPT !.pc = pc, !.usable = b] \in BusWorkers
                              /\ [w EXCEPT !.pc = pc, !.ok = b] \in BusWorkers
                              /\ [w EXCEPT !.pc = pc, !.recovered = b] \in BusWorkers
         /\ \A q \in Requests : [w EXCEPT !.pc = pc, !.req = q] \in BusWorkers
         /\ [w EXCEPT !.pc = pc, !.ok = TRUE, !.recovered = TRUE] \in BusWorkers
         /\ \A v \in Values :
              [w EXCEPT !.prev = v, !.ok = FALSE, !.recovered = FALSE, !.pc = pc] \in BusWorkers
<1>1. [w EXCEPT !.pc = pc] \in BusWorkers
  BY DEF BusWorkers, Points, Executing
<1>2. ASSUME NEW b \in BOOLEAN
      PROVE  /\ [w EXCEPT !.pc = pc, !.usable = b] \in BusWorkers
             /\ [w EXCEPT !.pc = pc, !.ok = b] \in BusWorkers
             /\ [w EXCEPT !.pc = pc, !.recovered = b] \in BusWorkers
  BY DEF BusWorkers, Points, Executing
<1>3. ASSUME NEW q \in Requests
      PROVE  [w EXCEPT !.pc = pc, !.req = q] \in BusWorkers
  BY DEF BusWorkers, Points, Executing
<1>4. [w EXCEPT !.pc = pc, !.ok = TRUE, !.recovered = TRUE] \in BusWorkers
  BY DEF BusWorkers, Points, Executing
<1>5. ASSUME NEW v \in Values
      PROVE  [w EXCEPT !.prev = v, !.ok = FALSE, !.recovered = FALSE, !.pc = pc] \in BusWorkers
  BY DEF BusWorkers, Points, Executing
<1> QED
  BY <1>1, <1>2, <1>3, <1>4, <1>5

LEMMA RestingTypes ==
  /\ NoRequest \in Requests
  /\ Idle \in Callers
  /\ NewWorker \in BusWorkers
  /\ \A b \in BOOLEAN : [NewWorker EXCEPT !.pc = "poll", !.usable = b] \in BusWorkers
  /\ Unusable \in States
<1>1. NoRequest \in Requests
  BY DEF NoRequest, Requests, Registers
<1>2. NewWorker \in BusWorkers
  BY <1>1 DEF NewWorker, BusWorkers, Values
<1>3. \A b \in BOOLEAN : [NewWorker EXCEPT !.pc = "poll", !.usable = b] \in BusWorkers
  <2>1. "poll" \in Points
    BY DEF Points
  <2> QED
    BY <1>2, <2>1, WorkerUpdates
<1> QED
  BY <1>1, <1>2, <1>3 DEF Idle, Callers, Unusable, States

\* The fields of a worker.
LEMMA WorkerFields ==
  ASSUME NEW w \in BusWorkers
  PROVE  /\ w.pc \in Points /\ w.req \in Requests /\ w.prev \in Values
         /\ w.usable \in BOOLEAN /\ w.ok \in BOOLEAN /\ w.recovered \in BOOLEAN
         /\ w.req.reg \in Registers /\ w.req.value \in Values
         /\ w.req.id \in Nat /\ w.req.worker \in Nat
  BY DEF BusWorkers, Points, Executing, Requests, Values

\* What the core drains and what the worker publishes are states.
LEMMA DrainType ==
  ASSUME AeroTypeOK, Drain
  PROVE  view' \in States /\ news' \in SUBSET States
  BY DEF AeroTypeOK, Drain

LEMMA PublishType ==
  ASSUME AeroTypeOK, NEW s \in States, Publish(s)
  PROVE  news' \in SUBSET States /\ aeroFaults' \in Nat
  BY DEF AeroTypeOK, Publish

\* An error that breaks the cycle, and what a failed write leaves.
LEMMA BreaksType ==
  ASSUME AeroTypeOK, Breaks
  PROVE  busWk' \in BusWorkers /\ news' \in SUBSET States
  BY RestingTypes DEF AeroTypeOK, Breaks, Reports

LEMMA MayWriteType ==
  ASSUME AeroTypeOK, MayWrite
  PROVE  regs' \in [Registers -> Values]
  BY WorkerFields DEF AeroTypeOK, MayWrite

LEMMA InitType == AeroInit => AeroTypeOK
<1> SUFFICES ASSUME AeroInit PROVE AeroTypeOK
  OBVIOUS
<1>1. regs \in [Registers -> Values]
  BY DEF AeroInit, Values
<1> QED
  BY <1>1, RestingTypes DEF AeroInit, AeroTypeOK

\* The worker's own steps.
LEMMA WorkerType ==
  ASSUME AeroTypeOK, BusWorkerStep
  PROVE  AeroTypeOK'
<1> USE DEF core, queues, At
<1>1. /\ busWk \in BusWorkers /\ busWk.req \in Requests /\ busWk.prev \in Values
      /\ busWk.req.reg \in Registers /\ busWk.req.value \in Values /\ Current \in Values
      /\ busWk.usable \in BOOLEAN /\ busWk.ok \in BOOLEAN /\ busWk.recovered \in BOOLEAN
  BY WorkerFields DEF AeroTypeOK, Current
<1>2. CASE OpenPort
  <2>1. busWk' \in BusWorkers
    <3>1. [busWk EXCEPT !.pc = "loop"] \in BusWorkers
      BY <1>1, AllPoints, WorkerUpdates
    <3> QED
      BY <1>2, <3>1 DEF OpenPort
  <2> QED
    BY <1>2, <2>1, PublishType, RestingTypes DEF OpenPort, AeroTypeOK
<1>3. CASE TakeRequest
  <2>1. CASE ctlQ = {} /\ busWk' = [busWk EXCEPT !.pc = "poll"] /\ UNCHANGED <<ctlQ, news, aeroFaults>>
    <3>1. busWk' \in BusWorkers
      BY <1>1, <2>1, AllPoints, WorkerUpdates
    <3> QED
      BY <1>3, <2>1, <3>1 DEF TakeRequest, AeroTypeOK
  <2>2. ASSUME NEW q \in ctlQ, ctlQ' = {},
               busWk' = [busWk EXCEPT !.pc = "previous", !.req = q],
               Publish([usable |-> busWk.usable, busy |-> TRUE])
        PROVE  AeroTypeOK'
    <3>1. q \in Requests
      BY DEF AeroTypeOK
    <3>2. busWk' \in BusWorkers
      <4>1. [busWk EXCEPT !.pc = "previous", !.req = q] \in BusWorkers
        BY <1>1, <3>1, AllPoints, WorkerUpdates
      <4> QED
        BY <2>2, <4>1
    <3>3. [usable |-> busWk.usable, busy |-> TRUE] \in States
      BY <1>1 DEF States
    <3> QED
      BY <1>3, <2>2, <3>2, <3>3, PublishType DEF TakeRequest, AeroTypeOK
  <2> QED
    BY <1>3, <2>1, <2>2 DEF TakeRequest
<1>4. CASE ReadPrevious
  <2>1. busWk' \in BusWorkers
    <3>1. /\ [busWk EXCEPT !.prev = Current, !.ok = FALSE, !.recovered = FALSE, !.pc = "baseline"] \in BusWorkers
          /\ [busWk EXCEPT !.prev = Current, !.ok = FALSE, !.recovered = FALSE, !.pc = "done"] \in BusWorkers
      BY <1>1, AllPoints, WorkerUpdates
    <3> QED
      BY <1>4, <3>1 DEF ReadPrevious
  <2> QED
    BY <1>4, <2>1 DEF ReadPrevious, Quiet, AeroTypeOK
<1>5. CASE ReadBaseline
  <2>1. busWk' \in BusWorkers
    <3>1. /\ [busWk EXCEPT !.pc = "done", !.ok = TRUE, !.recovered = TRUE] \in BusWorkers
          /\ [busWk EXCEPT !.pc = "write"] \in BusWorkers
      BY <1>1, AllPoints, WorkerUpdates
    <3> QED
      BY <1>5, <3>1 DEF ReadBaseline
  <2> QED
    BY <1>5, <2>1 DEF ReadBaseline, Quiet, AeroTypeOK
<1>6. CASE Write
  <2>1. busWk' \in BusWorkers
    <3>1. [busWk EXCEPT !.pc = "readback"] \in BusWorkers
      BY <1>1, AllPoints, WorkerUpdates
    <3> QED
      BY <1>6, <3>1 DEF Write
  <2> QED
    BY <1>1, <1>6, <2>1 DEF Write, AeroTypeOK
<1>7. CASE Readback
  <2>1. busWk' \in BusWorkers
    <3>1. /\ [busWk EXCEPT !.pc = "confirm"] \in BusWorkers
          /\ [busWk EXCEPT !.pc = "restore"] \in BusWorkers
      BY <1>1, AllPoints, WorkerUpdates
    <3> QED
      BY <1>7, <3>1 DEF Readback
  <2> QED
    BY <1>7, <2>1 DEF Readback, Quiet, AeroTypeOK
<1>8. CASE Confirm
  <2>1. busWk' \in BusWorkers
    <3>1. /\ [busWk EXCEPT !.pc = "done", !.ok = TRUE] \in BusWorkers
          /\ [busWk EXCEPT !.pc = "restore"] \in BusWorkers
      BY <1>1, AllPoints, WorkerUpdates
    <3> QED
      BY <1>8, <3>1 DEF Confirm
  <2> QED
    BY <1>8, <2>1 DEF Confirm, Quiet, AeroTypeOK
<1>9. CASE Restore
  <2>1. busWk' \in BusWorkers
    <3>1. [busWk EXCEPT !.pc = "verify"] \in BusWorkers
      BY <1>1, AllPoints, WorkerUpdates
    <3> QED
      BY <1>9, <3>1 DEF Restore
  <2> QED
    BY <1>1, <1>9, <2>1 DEF Restore, AeroTypeOK
<1>10. CASE Verify
  <2>1. (Current = busWk.prev) \in BOOLEAN
    OBVIOUS
  <2>2. busWk' \in BusWorkers
    <3>1. [busWk EXCEPT !.pc = "done", !.recovered = (Current = busWk.prev)] \in BusWorkers
      BY <1>1, <2>1, AllPoints, WorkerUpdates
    <3> QED
      BY <1>10, <3>1 DEF Verify
  <2> QED
    BY <1>10, <2>2 DEF Verify, Quiet, AeroTypeOK
<1>11. CASE PublishDone
  <2>1. busWk' \in BusWorkers
    <3>1. [busWk EXCEPT !.pc = "answer"] \in BusWorkers
      BY <1>1, AllPoints, WorkerUpdates
    <3> QED
      BY <1>11, <3>1 DEF PublishDone
  <2>2. [usable |-> busWk.usable, busy |-> FALSE] \in States
    BY <1>1 DEF States
  <2> QED
    BY <1>11, <2>1, <2>2, PublishType DEF PublishDone, AeroTypeOK
<1>12. CASE Answer
  <2>1. busWk' \in BusWorkers
    BY <1>1, <1>12, RestingTypes DEF Answer
  <2>2. [id |-> busWk.req.id, reg |-> busWk.req.reg, value |-> busWk.req.value,
         ok |-> busWk.ok, prev |-> busWk.prev, recovered |-> busWk.recovered] \in Results
    BY <1>1 DEF Results, Requests
  <2> QED
    BY <1>12, <2>1, <2>2 DEF Answer, AeroTypeOK
<1>13. CASE Poll
  <2>1. busWk' \in BusWorkers
    <3>1. [busWk EXCEPT !.pc = "loop", !.usable = TRUE] \in BusWorkers
      BY <1>1, AllPoints, WorkerUpdates
    <3> QED
      BY <1>13, <3>1 DEF Poll
  <2>2. [usable |-> TRUE, busy |-> FALSE] \in States
    BY DEF States
  <2> QED
    BY <1>13, <2>1, <2>2, PublishType DEF Poll, AeroTypeOK
<1> QED
  BY <1>2, <1>3, <1>4, <1>5, <1>6, <1>7, <1>8, <1>9, <1>10, <1>11, <1>12, <1>13 DEF BusWorkerStep

\* The bus's errors and the worker's death.
LEMMA FaultType ==
  ASSUME AeroTypeOK, WriteIgnored \/ ProtocolError \/ SerialError \/ BusWorkerDies
  PROVE  AeroTypeOK'
<1> USE DEF core, queues
<1>1. busWk \in BusWorkers /\ busWk.usable \in BOOLEAN
  BY WorkerFields DEF AeroTypeOK
<1>2. CASE WriteIgnored
  <2>1. busWk' \in BusWorkers
    <3>1. /\ [busWk EXCEPT !.pc = "readback"] \in BusWorkers
          /\ [busWk EXCEPT !.pc = "verify"] \in BusWorkers
      BY <1>1, AllPoints, WorkerUpdates
    <3> QED
      BY <1>2, <3>1 DEF WriteIgnored
  <2> QED
    BY <1>2, <2>1 DEF WriteIgnored, AeroTypeOK
<1>3. CASE ProtocolError
  <2>1. aeroFaults' \in Nat
    BY <1>3 DEF ProtocolError, BusFault, AeroTypeOK
  <2>2. busWk' \in BusWorkers /\ regs' \in [Registers -> Values] /\ news' \in SUBSET States
    <3>1. \A pc \in Points, b \in BOOLEAN :
            /\ [busWk EXCEPT !.pc = pc] \in BusWorkers
            /\ [busWk EXCEPT !.pc = pc, !.usable = b] \in BusWorkers
      BY <1>1, WorkerUpdates, WorkerFields
    <3>2. news \in SUBSET States /\ {Unusable} \in SUBSET States /\ regs \in [Registers -> Values]
      BY RestingTypes DEF AeroTypeOK
    <3>3. "restore" \in Points /\ "done" \in Points /\ "loop" \in Points
      BY DEF Points, Executing
    <3> QED
      BY <1>3, <3>1, <3>2, <3>3, BreaksType, MayWriteType DEF ProtocolError, Reports
  <2> QED
    BY <1>3, <2>1, <2>2 DEF ProtocolError, Breaks, AeroTypeOK
<1>4. CASE SerialError
  BY <1>4, BreaksType, MayWriteType DEF SerialError, BusFault, Breaks, AeroTypeOK
<1>5. CASE BusWorkerDies
  <2>1. busWk' \in BusWorkers
    BY <1>5, RestingTypes DEF BusWorkerDies
  <2> QED
    BY <1>5, <2>1 DEF BusWorkerDies, AeroTypeOK
<1> QED
  BY <1>2, <1>3, <1>4, <1>5

\* The clients' requests.
LEMMA ClientType ==
  ASSUME AeroTypeOK, (\E c \in AeroCommands : AdmitCommand(c)) \/ Submit \/ Receive \/ Timeout
  PROVE  AeroTypeOK'
<1> USE DEF core, queues
<1>1. ASSUME NEW c \in AeroCommands, AdmitCommand(c)
      PROVE  AeroTypeOK'
  <2>1. [id |-> admitted + 1, reg |-> c.reg, value |-> c.value, worker |-> 0] \in Requests
    BY AeroAssumption DEF AeroTypeOK, Requests
  <2>2. caller' \in Callers
    BY <1>1, <2>1 DEF AdmitCommand, Callers
  <2> QED
    BY <1>1, <2>2, DrainType DEF AdmitCommand, AeroTypeOK
<1>2. CASE Submit
  <2>1. [caller.req EXCEPT !.worker = restarts] \in Requests
    <3>1. caller.req \in Requests /\ restarts \in Nat
      BY DEF AeroTypeOK, Callers
    <3> QED
      BY <3>1 DEF Requests
  <2>2. caller' \in Callers
    BY <1>2, RestingTypes DEF Submit, AeroTypeOK, Callers
  <2> QED
    BY <1>2, <2>1, <2>2, DrainType DEF Submit, AeroTypeOK
<1>3. CASE Receive
  BY <1>3, RestingTypes, DrainType DEF Receive, AeroTypeOK
<1>4. CASE Timeout
  BY <1>4, RestingTypes DEF Timeout, AeroTypeOK
<1> QED
  BY <1>1, <1>2, <1>3, <1>4

\* The core's own steps.
LEMMA CoreType ==
  ASSUME AeroTypeOK, BusStatus \/ CheckBus \/ CloseBus \/ CrashBus \/ BootBus
  PROVE  AeroTypeOK'
<1> USE DEF core, queues
<1>1. CASE BusStatus
  BY <1>1 DEF BusStatus, AeroTypeOK
<1>2. NewWorker \in BusWorkers /\ Unusable \in States /\ Idle \in Callers
  BY RestingTypes
<1>3. CASE CheckBus
  BY <1>2, <1>3 DEF CheckBus, StartBusWorker, AeroTypeOK
<1>4. CASE CloseBus \/ CrashBus
  BY <1>2, <1>4 DEF CloseBus, CrashBus, Ends, AeroTypeOK
<1>5. CASE BootBus
  BY <1>2, <1>5 DEF BootBus, StartBusWorker, AeroTypeOK
<1> QED
  BY <1>1, <1>3, <1>4, <1>5

LEMMA TypeStep == AeroTypeOK /\ [AeroNext]_aeroVars => AeroTypeOK'
<1>1. AeroTypeOK /\ UNCHANGED aeroVars => AeroTypeOK'
  BY DEF aeroVars, core, queues, AeroTypeOK
<1> QED
  BY <1>1, WorkerType, FaultType, ClientType, CoreType DEF AeroNext

\* Every variable keeps its type.
THEOREM TypesAreKept == AeroSpec => []AeroTypeOK
  BY InitType, TypeStep, PTL DEF AeroSpec

------------------------------------------------------------------------------
(* The invariant *)

\* Requests pass through the queues in the order of their numbers: a result
\* that waits is older than the command that is executed, which is older than
\* the request that waits; none is younger than the last client admitted, and
\* all are older than a client that has not submitted its request yet.
Ordered ==
  /\ busWk.req.id # 0 <=> busWk.pc \in Executing
  /\ \A q \in ctlQ : busWk.req.id < q.id /\ q.id <= admitted
  /\ busWk.req.id <= admitted
  /\ \A a, b \in resQ : a = b
  /\ \A a \in resQ : /\ 0 < a.id /\ a.id <= admitted
                     /\ busWk.req.id # 0 => a.id < busWk.req.id
                     /\ \A q \in ctlQ : a.id < q.id
  /\ caller.pc # "idle" => caller.req.id = admitted /\ 0 < admitted
  /\ caller.pc = "admitted" => /\ \A q \in ctlQ : q.id < admitted
                               /\ busWk.req.id < admitted
                               /\ \A a \in resQ : a.id < admitted

\* Wherever the waiting client's number is found, its command is found.
Same(r) == r.id = caller.req.id => r.reg = caller.req.reg /\ r.value = caller.req.value

Identified ==
  caller.pc = "waiting" =>
    /\ \A q \in ctlQ : Same(q)
    /\ busWk.pc \in Executing => Same(busWk.req)
    /\ \A a \in resQ : Same(a)

\* What the executor knows of the register at each of its steps.
Executed ==
  /\ busWk.pc \in {"baseline", "write"} => Current = busWk.prev
  /\ busWk.pc = "confirm" => Current = busWk.req.value
  /\ busWk.pc = "readback" /\ aeroFaults = 0 => Current = busWk.req.value
  /\ busWk.pc = "verify" /\ aeroFaults = 0 => Current = busWk.prev
  /\ busWk.pc \in {"baseline", "write", "readback", "confirm", "restore", "verify"} =>
       ~busWk.ok /\ ~busWk.recovered
  /\ busWk.pc \in {"done", "answer"} =>
       /\ busWk.ok => Current = busWk.req.value
       /\ busWk.recovered => Current = busWk.prev
       /\ ~busWk.ok /\ aeroFaults = 0 => Current = busWk.prev

\* The waiting client's result, once it is in the queue, stays true.
Answered ==
  \A a \in resQ : caller.pc = "waiting" /\ a.id = caller.req.id => Truth(a, caller.req)

IInv == AeroTypeOK /\ Ordered /\ Identified /\ Executed /\ Answered

------------------------------------------------------------------------------
(* What a step does to the requests in flight *)

\* The worker goes on with what it executes, or with what it does between.
GoesOn ==
  /\ UNCHANGED <<caller, admitted, ctlQ, resQ>>
  /\ busWk'.req = busWk.req
  /\ busWk.pc \in Executing <=> busWk'.pc \in Executing

\* The worker forgets what it executes.
Forgets == UNCHANGED <<caller, admitted, ctlQ, resQ>> /\ busWk' = NewWorker

\* The queues are emptied and the worker is a new one.
Empties ==
  /\ ctlQ' = {} /\ resQ' = {} /\ busWk' = NewWorker
  /\ caller' = caller \/ caller' = Idle
  /\ UNCHANGED admitted

Takes == \E q \in ctlQ :
  /\ ctlQ' = {} /\ busWk' = [busWk EXCEPT !.pc = "previous", !.req = q]
  /\ UNCHANGED <<caller, admitted, resQ>>

\* A client leaves the AERO lock, with or without a result.
Leaves ==
  /\ caller' = Idle \/ caller' = caller
  /\ resQ' = resQ \/ resQ' = {}
  /\ UNCHANGED <<admitted, ctlQ, busWk>>

LEMMA WorkerShape ==
  ASSUME AeroTypeOK, BusWorkerStep
  PROVE  GoesOn \/ Takes \/ Answer
<1> USE DEF core, queues, At, Quiet, Executing, GoesOn
<1>1. busWk \in BusWorkers
  BY DEF AeroTypeOK
<1>2. CASE TakeRequest
  BY <1>1, <1>2 DEF TakeRequest, Takes, BusWorkers
<1>3. CASE OpenPort \/ ReadPrevious \/ ReadBaseline \/ Write
  BY <1>1, <1>3 DEF OpenPort, ReadPrevious, ReadBaseline, Write, BusWorkers
<1>4. CASE Readback \/ Confirm \/ Restore \/ Verify
  BY <1>1, <1>4 DEF Readback, Confirm, Restore, Verify, BusWorkers
<1>5. CASE PublishDone \/ Poll
  BY <1>1, <1>5 DEF PublishDone, Poll, BusWorkers
<1> QED
  BY <1>2, <1>3, <1>4, <1>5 DEF BusWorkerStep

LEMMA FaultShape ==
  ASSUME AeroTypeOK, WriteIgnored \/ ProtocolError \/ SerialError \/ BusWorkerDies
  PROVE  GoesOn \/ Forgets
<1> USE DEF core, queues, Executing
<1>1. busWk \in BusWorkers
  BY DEF AeroTypeOK
<1>2. CASE WriteIgnored
  BY <1>1, <1>2 DEF WriteIgnored, BusWorkers, GoesOn
<1>3. CASE ProtocolError
  BY <1>1, <1>3 DEF ProtocolError, BusWorkers, GoesOn, Breaks, Forgets
<1>4. CASE SerialError \/ BusWorkerDies
  BY <1>4 DEF SerialError, BusWorkerDies, Breaks, Forgets
<1> QED
  BY <1>2, <1>3, <1>4

LEMMA CoreShape ==
  ASSUME AeroTypeOK, Receive \/ Timeout \/ BusStatus \/ CheckBus \/ CloseBus \/ CrashBus \/ BootBus
  PROVE  Leaves \/ Empties \/ Forgets
<1> USE DEF core, queues
<1>1. CASE Receive \/ Timeout \/ BusStatus
  BY <1>1 DEF Receive, Timeout, BusStatus, Leaves
<1>2. CASE CheckBus \/ CloseBus \/ CrashBus
  BY <1>2 DEF CheckBus, StartBusWorker, CloseBus, CrashBus, Ends, Empties
<1>3. CASE BootBus
  BY <1>3 DEF BootBus, StartBusWorker, Forgets
<1> QED
  BY <1>1, <1>2, <1>3

\* Every step is one of these, or a client that enters.
LEMMA Shape ==
  ASSUME AeroTypeOK, [AeroNext]_aeroVars
  PROVE  \/ GoesOn \/ Forgets \/ Empties \/ Takes \/ Leaves \/ Answer \/ Submit
         \/ \E c \in AeroCommands : AdmitCommand(c)
<1>1. CASE UNCHANGED aeroVars
  BY <1>1 DEF aeroVars, core, queues, GoesOn
<1> QED
  BY <1>1, WorkerShape, FaultShape, CoreShape DEF AeroNext

------------------------------------------------------------------------------
(* The order of the requests *)

LEMMA RequestFields ==
  ASSUME AeroTypeOK
  PROVE  /\ admitted \in Nat /\ caller.req.id \in Nat /\ busWk.req.id \in Nat
         /\ \A q \in ctlQ : q.id \in Nat
         /\ \A a \in resQ : a.id \in Nat
  BY DEF AeroTypeOK, Callers, BusWorkers, Requests, Results

LEMMA OrderStep ==
  ASSUME AeroTypeOK, Ordered, [AeroNext]_aeroVars
  PROVE  Ordered'
<1> USE RequestFields DEF Ordered
<1>1. busWk \in BusWorkers /\ caller \in Callers
  BY DEF AeroTypeOK
<1>2. NewWorker.req.id = 0 /\ NewWorker.pc \notin Executing /\ Idle.pc = "idle"
  BY DEF NewWorker, NoRequest, Executing, Idle
<1>3. CASE GoesOn
  BY <1>3 DEF GoesOn
<1>4. CASE Forgets
  BY <1>2, <1>4 DEF Forgets
<1>5. CASE Empties
  BY <1>2, <1>5 DEF Empties
<1>6. CASE Takes
  <2>1. PICK q \in ctlQ : /\ ctlQ' = {} /\ busWk' = [busWk EXCEPT !.pc = "previous", !.req = q]
                          /\ UNCHANGED <<caller, admitted, resQ>>
    BY <1>6 DEF Takes
  <2>2. busWk'.req = q /\ busWk'.pc = "previous"
    BY <1>1, <2>1 DEF BusWorkers
  <2>3. 0 < q.id
    OBVIOUS
  <2> QED
    BY <2>1, <2>2, <2>3 DEF Executing
<1>7. CASE Leaves
  BY <1>2, <1>7 DEF Leaves
<1>8. CASE Answer
  <2>1. busWk'.req.id = 0 /\ busWk'.pc \notin Executing
    BY <1>8 DEF Answer, NewWorker, NoRequest, Executing
  <2>2. (\A a \in resQ' : a.id = busWk.req.id) /\ (\A a, b \in resQ' : a = b)
    BY <1>8 DEF Answer
  <2>3. 0 < busWk.req.id
    BY <1>8 DEF Answer, At, Executing
  <2>4. UNCHANGED <<caller, admitted, ctlQ>>
    BY <1>8 DEF Answer, core
  <2> QED
    BY <2>1, <2>2, <2>3, <2>4
<1>9. CASE Submit
  <2>1. UNCHANGED <<admitted, busWk, resQ>>
    BY <1>9 DEF Submit
  <2>2. CASE caller' = Idle /\ ctlQ' = ctlQ
    BY <1>2, <2>1, <2>2
  <2>3. CASE /\ ctlQ' = {[caller.req EXCEPT !.worker = restarts]}
             /\ caller' = [caller EXCEPT !.pc = "waiting"]
    <3>1. \A q \in ctlQ' : q.id = admitted
      BY <1>1, <1>9, <2>3 DEF Submit, Callers, Requests
    <3>2. caller'.pc = "waiting" /\ caller'.req = caller.req /\ caller.pc = "admitted"
      BY <1>1, <1>9, <2>3 DEF Submit, Callers
    <3> QED
      BY <2>1, <3>1, <3>2
  <2> QED
    BY <1>9, <2>2, <2>3 DEF Submit
<1>10. ASSUME NEW c \in AeroCommands, AdmitCommand(c)
       PROVE  Ordered'
  <2>1. admitted' = admitted + 1 /\ UNCHANGED <<busWk, ctlQ, resQ>>
    BY <1>10 DEF AdmitCommand
  <2>2. caller'.pc = "admitted" /\ caller'.req.id = admitted + 1
    BY <1>10 DEF AdmitCommand
  <2> QED
    BY <2>1, <2>2
<1> QED
  BY <1>3, <1>4, <1>5, <1>6, <1>7, <1>8, <1>9, <1>10, Shape

LEMMA IdentityStep ==
  ASSUME AeroTypeOK, Ordered, Identified, [AeroNext]_aeroVars
  PROVE  Identified'
<1> USE DEF Identified
<1>1. busWk \in BusWorkers /\ caller \in Callers
  BY DEF AeroTypeOK
<1>2. NewWorker.pc \notin Executing /\ Idle.pc = "idle"
  BY DEF NewWorker, Executing, Idle
<1>3. CASE GoesOn
  BY <1>3 DEF GoesOn, Same
<1>4. CASE Forgets
  BY <1>2, <1>4 DEF Forgets, Same
<1>5. CASE Empties
  BY <1>2, <1>5 DEF Empties
<1>6. CASE Takes
  <2>1. PICK q \in ctlQ : /\ ctlQ' = {} /\ busWk' = [busWk EXCEPT !.pc = "previous", !.req = q]
                          /\ UNCHANGED <<caller, admitted, resQ>>
    BY <1>6 DEF Takes
  <2>2. busWk'.req = q
    BY <1>1, <2>1 DEF BusWorkers
  <2> QED
    BY <2>1, <2>2 DEF Same
<1>7. CASE Leaves
  BY <1>2, <1>7 DEF Leaves, Same
<1>8. CASE Answer
  <2>1. busWk.pc \in Executing /\ busWk'.pc \notin Executing
    BY <1>8 DEF Answer, At, NewWorker, Executing
  <2>2. \A a \in resQ' : a.id = busWk.req.id /\ a.reg = busWk.req.reg /\ a.value = busWk.req.value
    BY <1>8 DEF Answer
  <2>3. UNCHANGED <<caller, ctlQ>>
    BY <1>8 DEF Answer, core
  <2> QED
    BY <2>1, <2>2, <2>3 DEF Same
<1>9. CASE Submit
  <2>1. CASE caller' = Idle
    BY <1>2, <2>1
  <2>2. CASE /\ ctlQ' = {[caller.req EXCEPT !.worker = restarts]}
             /\ caller' = [caller EXCEPT !.pc = "waiting"]
    <3>1. \A q \in ctlQ' : q.reg = caller.req.reg /\ q.value = caller.req.value
      BY <1>1, <2>2 DEF Callers, Requests
    <3>2. caller'.req = caller.req /\ caller.pc = "admitted" /\ UNCHANGED <<busWk, resQ>>
      BY <1>1, <1>9, <2>2 DEF Submit, Callers
    <3>3. busWk.req.id # caller.req.id /\ \A a \in resQ : a.id # caller.req.id
      BY <3>2, RequestFields DEF Ordered
    <3> QED
      BY <3>1, <3>2, <3>3 DEF Same
  <2> QED
    BY <1>9, <2>1, <2>2 DEF Submit
<1>10. ASSUME NEW c \in AeroCommands, AdmitCommand(c)
       PROVE  Identified'
  BY <1>10 DEF AdmitCommand
<1> QED
  BY <1>3, <1>4, <1>5, <1>6, <1>7, <1>8, <1>9, <1>10, Shape

------------------------------------------------------------------------------
(* What the executor knows of the register *)

\* Only a worker that executes a command moves a register.
LEMMA RegistersKept ==
  ASSUME AeroTypeOK, [AeroNext]_aeroVars
  PROVE  /\ busWk.pc \notin Executing => regs' = regs
         /\ aeroFaults' = 0 => aeroFaults = 0
<1> USE DEF core, queues, Executing, At, Quiet
<1>1. aeroFaults \in Nat
  BY DEF AeroTypeOK
<1>2. CASE BusWorkerStep
  <2>1. CASE OpenPort \/ PublishDone \/ Poll
    BY <1>1, <2>1 DEF OpenPort, PublishDone, Poll, Publish
  <2>4. CASE TakeRequest
    <3>1. regs' = regs /\ (aeroFaults' = aeroFaults \/ aeroFaults' = aeroFaults + 1)
      BY <2>4 DEF TakeRequest, Publish
    <3> QED
      BY <1>1, <3>1
  <2>2. CASE ReadPrevious \/ ReadBaseline \/ Readback \/ Confirm \/ Verify \/ Answer
    BY <2>2 DEF ReadPrevious, ReadBaseline, Readback, Confirm, Verify, Answer
  <2>3. CASE Write \/ Restore
    BY <2>3 DEF Write, Restore
  <2> QED
    BY <1>2, <2>1, <2>2, <2>3, <2>4 DEF BusWorkerStep
<1>3. CASE WriteIgnored \/ ProtocolError \/ SerialError \/ BusWorkerDies
  BY <1>1, <1>3 DEF WriteIgnored, ProtocolError, SerialError, BusWorkerDies, BusFault, MayWrite
<1>4. CASE (\E c \in AeroCommands : AdmitCommand(c)) \/ Submit \/ Receive \/ Timeout
  BY <1>4 DEF AdmitCommand, Submit, Receive, Timeout
<1>5. CASE BusStatus \/ CheckBus \/ CloseBus \/ CrashBus \/ BootBus
  BY <1>5 DEF BusStatus, CheckBus, CloseBus, CrashBus, Ends, BootBus
<1>6. CASE UNCHANGED aeroVars
  BY <1>6 DEF aeroVars
<1> QED
  BY <1>2, <1>3, <1>4, <1>5, <1>6 DEF AeroNext

\* A new worker knows nothing.
LEMMA NewKnowsNothing == busWk' = NewWorker => Executed'
  BY DEF NewWorker, Executed

LEMMA ExecutorStep ==
  ASSUME AeroTypeOK, Executed, BusWorkerStep
  PROVE  Executed'
<1> USE DEF Executed, Current, At, Quiet
<1>1. /\ busWk \in BusWorkers /\ regs \in [Registers -> Values]
      /\ busWk.req.reg \in Registers /\ aeroFaults \in Nat
  BY WorkerFields DEF AeroTypeOK
<1>2. CASE OpenPort \/ Poll
  BY <1>1, <1>2 DEF OpenPort, Poll, BusWorkers
<1>3. CASE TakeRequest
  BY <1>1, <1>3 DEF TakeRequest, BusWorkers
<1>4. CASE ReadPrevious
  BY <1>1, <1>4 DEF ReadPrevious, BusWorkers
<1>5. CASE ReadBaseline
  BY <1>1, <1>5 DEF ReadBaseline, BusWorkers
<1>6. CASE Write
  BY <1>1, <1>6 DEF Write, BusWorkers
<1>7. CASE Readback
  BY <1>1, <1>7 DEF Readback, BusWorkers
<1>8. CASE Confirm
  BY <1>1, <1>8 DEF Confirm, BusWorkers
<1>9. CASE Restore
  BY <1>1, <1>9 DEF Restore, BusWorkers
<1>10. CASE Verify
  BY <1>1, <1>10 DEF Verify, BusWorkers
<1>11. CASE PublishDone
  BY <1>1, <1>11 DEF PublishDone, BusWorkers, Publish
<1>12. CASE Answer
  BY <1>12 DEF Answer, NewWorker
<1> QED
  BY <1>2, <1>3, <1>4, <1>5, <1>6, <1>7, <1>8, <1>9, <1>10, <1>11, <1>12 DEF BusWorkerStep

LEMMA ExecutorFault ==
  ASSUME AeroTypeOK, Executed, WriteIgnored \/ ProtocolError \/ SerialError \/ BusWorkerDies
  PROVE  Executed'
<1>1. busWk \in BusWorkers /\ aeroFaults \in Nat
  BY DEF AeroTypeOK
<1>2. CASE WriteIgnored
  <2>1. aeroFaults' # 0
    BY <1>1, <1>2 DEF WriteIgnored
  <2>2. busWk'.pc \in {"readback", "verify"} /\ busWk'.ok = busWk.ok /\ busWk'.recovered = busWk.recovered
    BY <1>1, <1>2 DEF WriteIgnored, BusWorkers
  <2>3. ~busWk.ok /\ ~busWk.recovered
    BY <1>2 DEF WriteIgnored, Executed
  <2> QED
    BY <2>1, <2>2, <2>3 DEF Executed
<1>3. CASE ProtocolError
  <2>1. aeroFaults' # 0
    BY <1>1, <1>3 DEF ProtocolError, BusFault
  <2>2. CASE busWk.pc \in {"write", "readback", "restore", "verify"}
    <3>1. busWk'.pc \in {"restore", "done"} /\ busWk'.ok = busWk.ok /\ busWk'.recovered = busWk.recovered
      BY <1>1, <1>3, <2>2 DEF ProtocolError, BusWorkers
    <3>2. ~busWk.ok /\ ~busWk.recovered
      BY <2>2 DEF Executed
    <3> QED
      BY <2>1, <3>1, <3>2 DEF Executed
  <2>3. CASE busWk.pc = "poll"
    BY <1>1, <1>3, <2>3 DEF ProtocolError, Executed, BusWorkers
  <2>4. CASE busWk.pc \in {"previous", "baseline", "confirm"}
    BY <1>3, <2>4, NewKnowsNothing DEF ProtocolError, Breaks
  <2> QED
    BY <1>3, <2>2, <2>3, <2>4 DEF ProtocolError
<1>4. CASE SerialError \/ BusWorkerDies
  BY <1>4, NewKnowsNothing DEF SerialError, BusWorkerDies, Breaks
<1> QED
  BY <1>2, <1>3, <1>4

LEMMA ExecutedStep ==
  ASSUME AeroTypeOK, Executed, [AeroNext]_aeroVars
  PROVE  Executed'
<1>1. CASE (\E c \in AeroCommands : AdmitCommand(c)) \/ Submit \/ Receive \/ Timeout \/ BusStatus
  BY <1>1 DEF AdmitCommand, Submit, Receive, Timeout, BusStatus, Executed, Current
<1>2. CASE CheckBus \/ CloseBus \/ CrashBus \/ BootBus
  BY <1>2, NewKnowsNothing DEF CheckBus, CloseBus, CrashBus, Ends, BootBus, StartBusWorker
<1>3. CASE UNCHANGED aeroVars
  BY <1>3 DEF aeroVars, Executed, Current
<1> QED
  BY <1>1, <1>2, <1>3, ExecutorStep, ExecutorFault DEF AeroNext

------------------------------------------------------------------------------
(* The results *)

\* While the waiting client's result is in the queue the worker has nothing to
\* execute, so the register stays as the result says.
LEMMA ResultKept ==
  ASSUME AeroTypeOK, Ordered, Answered, [AeroNext]_aeroVars, NEW a \in resQ, NEW c,
         caller.pc = "waiting", c = caller.req, a.id = c.id
  PROVE  Truth(a, c)'
<1>1. busWk.req.id = 0
  BY RequestFields DEF Ordered
<1>2. regs' = regs /\ (aeroFaults' = 0 => aeroFaults = 0)
  BY <1>1, RegistersKept DEF Ordered
<1>3. Truth(a, c)
  BY DEF Answered
<1> QED
  BY <1>2, <1>3 DEF Truth

\* A new result is true: the register is as the executor left it.
LEMMA ResultMade ==
  ASSUME AeroTypeOK, Ordered, Identified, Executed, Answer
  PROVE  Answered'
<1> SUFFICES ASSUME NEW a \in resQ', caller.pc = "waiting", a.id = caller.req.id
             PROVE  Truth(a, caller.req)'
  BY DEF Answer, Answered, core
<1>1. a = [id |-> busWk.req.id, reg |-> busWk.req.reg, value |-> busWk.req.value,
           ok |-> busWk.ok, prev |-> busWk.prev, recovered |-> busWk.recovered]
  BY DEF Answer
<1>2. busWk.pc = "answer" /\ UNCHANGED <<caller, regs, aeroFaults>>
  BY DEF Answer, At, core
<1>3. busWk.req.reg = caller.req.reg /\ busWk.req.value = caller.req.value
  BY <1>1, <1>2 DEF Identified, Same, Executing
<1> QED
  BY <1>1, <1>2, <1>3 DEF Executed, Current, Truth

LEMMA AnswerStep ==
  ASSUME IInv, [AeroNext]_aeroVars
  PROVE  Answered'
<1> USE DEF IInv
<1>1. CASE Answer
  BY <1>1, ResultMade
<1>2. CASE caller' = caller /\ resQ' \in SUBSET resQ
  BY <1>2, ResultKept DEF Answered
<1>3. CASE caller' = Idle
  BY <1>3 DEF Answered, Idle
<1>4. CASE Submit
  <2>1. CASE caller' = Idle
    BY <2>1, <1>3
  <2>2. CASE caller' = [caller EXCEPT !.pc = "waiting"]
    <3>1. caller \in Callers
      BY DEF AeroTypeOK
    <3>2. caller'.req = caller.req /\ caller.pc = "admitted" /\ resQ' = resQ
      BY <1>4, <2>2, <3>1 DEF Submit, Callers
    <3>3. \A a \in resQ : a.id # caller.req.id
      BY <3>2, RequestFields DEF Ordered
    <3> QED
      BY <3>2, <3>3 DEF Answered
  <2> QED
    BY <1>4, <2>1, <2>2 DEF Submit
<1>5. CASE \E c \in AeroCommands : AdmitCommand(c)
  BY <1>5 DEF AdmitCommand, Answered
<1> QED
  BY <1>1, <1>2, <1>3, <1>4, <1>5, Shape DEF GoesOn, Forgets, Empties, Takes, Leaves

------------------------------------------------------------------------------
(* The theorems *)

LEMMA InitInv == AeroInit => IInv
<1> SUFFICES ASSUME AeroInit PROVE IInv
  OBVIOUS
<1>1. /\ busWk.pc = "open" /\ busWk.req.id = 0 /\ caller.pc = "idle" /\ admitted = 0
      /\ ctlQ = {} /\ resQ = {}
  BY DEF AeroInit, NewWorker, NoRequest, Idle
<1> QED
  BY <1>1, InitType DEF IInv, Ordered, Identified, Executed, Answered, Executing

LEMMA InvStep == IInv /\ [AeroNext]_aeroVars => IInv'
  BY TypeStep, OrderStep, IdentityStep, ExecutedStep, AnswerStep DEF IInv

THEOREM Invariance == AeroSpec => []IInv
  BY InitInv, InvStep, PTL DEF AeroSpec

\* What a client is told about its command is about its own command and true of
\* the unit's register, after any number of requests, errors and restarts.
THEOREM ClientsAreToldTheTruth == AeroSpec => ClientIsToldTheTruth
<1>1. ASSUME IInv, NEW a \in resQ, Receive, caller'.pc = "idle"
      PROVE  Truth(a, caller.req)
  <2>1. caller.pc = "waiting" /\ caller \in Callers
    BY <1>1 DEF Receive, IInv, AeroTypeOK
  <2>2. PICK b \in resQ : b.id = caller.req.id
    BY <1>1, <2>1 DEF Receive
  <2>3. a = b
    BY <1>1 DEF IInv, Ordered
  <2> QED
    BY <1>1, <2>1, <2>2, <2>3 DEF IInv, Answered
<1>2. IInv /\ [AeroNext]_aeroVars =>
        [\A a \in resQ : Receive /\ caller'.pc = "idle" => Truth(a, caller.req)]_aeroVars
  BY <1>1
<1> QED
  BY <1>2, Invariance, PTL DEF AeroSpec, ClientIsToldTheTruth

\* A restart, and nothing else, changes which worker requests are handed to.
LEMMA RestartsKept ==
  ASSUME AeroTypeOK, [AeroNext]_aeroVars
  PROVE  Empties \/ restarts' = restarts
<1> USE DEF core, queues, At, Quiet
<1>1. CASE BusWorkerStep
  BY <1>1 DEF BusWorkerStep, OpenPort, TakeRequest, ReadPrevious, ReadBaseline, Write, Readback,
    Confirm, Restore, Verify, PublishDone, Answer, Poll
<1>2. CASE WriteIgnored \/ ProtocolError \/ SerialError \/ BusWorkerDies
  BY <1>2 DEF WriteIgnored, ProtocolError, SerialError, BusWorkerDies, Breaks
<1>3. CASE (\E c \in AeroCommands : AdmitCommand(c)) \/ Submit \/ Receive \/ Timeout \/ BusStatus \/ BootBus
  BY <1>3 DEF AdmitCommand, Submit, Receive, Timeout, BusStatus, BootBus
<1>4. CASE CheckBus \/ CloseBus \/ CrashBus
  BY <1>4 DEF CheckBus, StartBusWorker, CloseBus, CrashBus, Ends, Empties
<1>5. CASE UNCHANGED aeroVars
  BY <1>5 DEF aeroVars
<1> QED
  BY <1>1, <1>2, <1>3, <1>4, <1>5 DEF AeroNext

\* A request is executed by the worker it was handed to or by none.
THEOREM RequestsDieWithTheirWorker == AeroSpec => []NoRequestOutlivesItsWorker
<1>1. AeroInit => NoRequestOutlivesItsWorker
  BY DEF AeroInit, NewWorker, NoRequest, NoRequestOutlivesItsWorker
<1>2. ASSUME AeroTypeOK, NoRequestOutlivesItsWorker, [AeroNext]_aeroVars
      PROVE  NoRequestOutlivesItsWorker'
  <2> USE <1>2 DEF NoRequestOutlivesItsWorker
  <2>1. NewWorker.req.id = 0
    BY DEF NewWorker, NoRequest
  <2>2. CASE Empties
    BY <2>1, <2>2 DEF Empties
  <2>3. CASE restarts' = restarts
    <3>1. CASE GoesOn \/ Leaves
      BY <2>3, <3>1 DEF GoesOn, Leaves
    <3>2. CASE Forgets
      BY <2>1, <2>3, <3>2 DEF Forgets
    <3>3. CASE Takes
      BY <2>3, <3>3 DEF Takes, AeroTypeOK, BusWorkers
    <3>4. CASE Answer
      <4>1. busWk'.req.id = 0 /\ ctlQ' = ctlQ
        BY <3>4 DEF Answer, NewWorker, NoRequest
      <4> QED
        BY <2>3, <4>1
    <3>5. CASE Submit
      <4>1. [caller.req EXCEPT !.worker = restarts].worker = restarts
        BY DEF AeroTypeOK, Callers, Requests
      <4>2. UNCHANGED busWk /\ (ctlQ' = ctlQ \/ ctlQ' = {[caller.req EXCEPT !.worker = restarts]})
        BY <3>5 DEF Submit
      <4> QED
        BY <2>3, <4>1, <4>2
    <3>6. CASE \E c \in AeroCommands : AdmitCommand(c)
      BY <2>3, <3>6 DEF AdmitCommand
    <3> QED
      BY <2>2, <3>1, <3>2, <3>3, <3>4, <3>5, <3>6, Shape
  <2> QED
    BY <2>2, <2>3, RestartsKept
<1> QED
  BY <1>1, <1>2, TypesAreKept, PTL DEF AeroSpec
==============================================================================
