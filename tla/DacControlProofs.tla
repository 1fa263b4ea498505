-------------------------- MODULE DacControlProofs ---------------------------
(***************************************************************************)
(* What DacControl guarantees for every threshold, every running range,    *)
(* every set of requested voltages and any number of faults.               *)
(***************************************************************************)
EXTENDS DacControl, TLAPS

------------------------------------------------------------------------------
(* Voltages and codes *)

\* Zero volts is code zero.
LEMMA ZeroWord == VoltageToWord(0) = 0
  BY DEF VoltageToWord, RoundHalfEven

\* A stopped setpoint converts to registers that are off.
LEMMA StoppedIsOff == Words(Stopped) = Off
  BY ZeroWord DEF Words, Stopped, Off, Channels

\* Stopped is a setpoint, and what a setpoint converts to is a register value.
LEMMA StoppedType == Stopped \in Setpoints
  BY DEF Stopped, Setpoints, Voltages

LEMMA WordsType ==
  ASSUME NEW s \in Setpoints
  PROVE  /\ \A c \in Channels : VoltageToWord(s[c]) \in Codes
         /\ Words(s) \in [Channels -> Codes]
  BY DEF Setpoints, Codes, Words

\* The policy lets a request through only if it is a setpoint.
LEMMA AcceptedType ==
  ASSUME NEW sp \in [Channels -> Requested], \A c \in Channels : Acceptable(sp[c])
  PROVE  sp \in Setpoints
  BY DEF Acceptable, Setpoints, Voltages

------------------------------------------------------------------------------
(* Types *)

LEMMA RestingTypes ==
  /\ NoCall \in Calls
  /\ NoWorker \in Workers
  /\ \A r \in BOOLEAN : NewService(r) \in Services
  BY StoppedType, DacAssumption
  DEF NoCall, Calls, Operations, Commands, NoWorker, Workers, NewService, Services

\* How the service's fields change keeps their types.
LEMMA ServiceUpdates ==
  ASSUME NEW s \in Services
  PROVE  /\ Recovered(s) \in Services
         /\ \A sp \in Setpoints : Applied(s, sp) \in Services
         /\ \A i \in BOOLEAN : Failed(s, i) \in Services
         /\ [s EXCEPT !.failures = 0, !.known = TRUE] \in Services
<1>1. Recovered(s) \in Services
  BY StoppedType DEF Services, Recovered
<1>2. \A sp \in Setpoints : Applied(s, sp) \in Services
  BY DEF Services, Applied
<1>3. ASSUME NEW i \in BOOLEAN
      PROVE  Failed(s, i) \in Services
  <2> DEFINE n == s.failures + 1
             raise == i \/ n >= Threshold
             a == IF raise THEN n ELSE s.alarm
             m == IF raise THEN "FAULT" ELSE s.mode
             f == [s EXCEPT !.failures = n, !.known = FALSE, !.recovery = TRUE,
                            !.alarm = a, !.mode = m]
  <2>1. n \in Nat /\ a \in Nat /\ m \in {"STOP", "MANUAL", "FAULT"}
    BY DEF Services
  <2>2. Failed(s, i) = f
    BY DEF Failed
  <2> HIDE DEF n, a, m
  <2>3. f \in Services
    BY <2>1 DEF Services
  <2> QED
    BY <2>2, <2>3
<1>4. [s EXCEPT !.failures = 0, !.known = TRUE] \in Services
  BY DEF Services
<1> QED
  BY <1>1, <1>2, <1>3, <1>4

\* Whatever an access leaves in the registers is a register value.
LEMMA WrittenType ==
  ASSUME DacTypeOK, NEW pc
  PROVE  Written(pc) \in [Channels -> Codes]
<1>1. Channel(pc) \in Channels
  BY DEF Channel, Channels
<1>2. VoltageToWord(wk.target[Channel(pc)]) \in Codes
  BY <1>1, WordsType DEF DacTypeOK, Workers
<1> QED
  BY <1>1, <1>2 DEF DacTypeOK, Written

\* After an access there is a next one, or the worker rests.
LEMMA AfterAccessType ==
  ASSUME NEW pc \in {"probe", "range", "ch0", "ch1"}
  PROVE  AfterAccess(pc) \in {"rest", "range", "ch0", "ch1"}
  BY DEF AfterAccess

LEMMA InitType == DacInit => DacTypeOK
<1> SUFFICES ASSUME DacInit PROVE DacTypeOK
  OBVIOUS
<1> QED
  BY RestingTypes DEF DacInit, DacTypeOK, Proxies

\* Taking the lock for an operation keeps the types.
LEMMA StartType ==
  ASSUME DacTypeOK, NEW op \in Operations, NEW cmd \in Commands, NEW sp \in Setpoints,
         Admit(op), Start(op, cmd, sp)
  PROVE  DacTypeOK'
  BY DEF DacTypeOK, Admit, Start, Calls

\* So does what an operation makes of the service's fields when it ends.
LEMMA SucceedType ==
  ASSUME DacTypeOK, Succeed
  PROVE  /\ svc' \in Services
         /\ call' = NoCall /\ stage' = "idle" /\ phase' = phase
  BY ServiceUpdates DEF DacTypeOK, Calls, Succeed, Release

LEMMA RaiseType ==
  ASSUME DacTypeOK, Raise
  PROVE  /\ svc' \in Services
         /\ call' \in Calls
         /\ stage' \in {"idle", "shutdown"} /\ phase' = phase
<1>1. svc \in Services /\ (call.op # "health") \in BOOLEAN
  BY DEF DacTypeOK
<1>2. Failed(svc, call.op # "health") \in Services
  BY <1>1, ServiceUpdates
<1>3. CASE Fail
  BY <1>2, <1>3, RestingTypes DEF Fail, Release
<1>4. CASE CloseGoesOn
  BY <1>4 DEF CloseGoesOn, DacTypeOK, Calls, Commands
<1> QED
  BY <1>3, <1>4 DEF Raise

\* What the proxy does to the worker.
LEMMA KillType == Kill => proxy' \in Proxies /\ wk' \in Workers
  BY RestingTypes DEF Kill, Proxies

LEMMA CloseEndsType ==
  CloseEnds => /\ phase' = "closed" /\ stage' = "idle"
               /\ proxy' \in Proxies /\ wk' \in Workers /\ call' \in Calls
  BY RestingTypes DEF CloseEnds, Release, Proxies

LEMMA SpawnType == Spawn => proxy' \in Proxies /\ wk' \in Workers
<1>1. [NoWorker EXCEPT !.cmd = "start", !.pc = "open"] \in Workers
  BY RestingTypes DEF Workers
<1> QED
  BY <1>1 DEF Spawn, Proxies

LEMMA HandType ==
  ASSUME DacTypeOK, NEW cmd \in Commands, NEW sp \in Setpoints, Hand(cmd, sp)
  PROVE  wk' \in Workers
  BY DEF DacTypeOK, Hand, Workers

LEMMA GiveUpType ==
  ASSUME DacTypeOK, GiveUp, faults' \in Nat
  PROVE  DacTypeOK'
  BY RaiseType, KillType, RestingTypes DEF DacTypeOK, GiveUp, Release

LEMMA StartupReplyType ==
  ASSUME DacTypeOK, StartupReply
  PROVE  DacTypeOK'
<1>1. proxy' \in Proxies
  BY DEF DacTypeOK, StartupReply, Proxies, Workers
<1>2. wk' \in Workers
  BY HandType DEF DacTypeOK, StartupReply, Calls
<1>3. svc' \in Services
  <2>1. (wk.ready /\ proxy.proc = "alive") \in BOOLEAN
    OBVIOUS
  <2> QED
    BY <2>1, RestingTypes, RaiseType DEF DacTypeOK, StartupReply
<1> QED
  BY <1>1, <1>2, <1>3, RaiseType, RestingTypes DEF DacTypeOK, StartupReply, Release

\* Every step keeps the types.
LEMMA TypeStep == DacTypeOK /\ [DacNext]_dacVars => DacTypeOK'
<1> SUFFICES ASSUME DacTypeOK, [DacNext]_dacVars PROVE DacTypeOK'
  OBVIOUS
<1> USE RestingTypes, StoppedType
<1>1. ASSUME NEW sp \in [Channels -> Requested], SetManual(sp)
      PROVE  DacTypeOK'
  BY <1>1, AcceptedType, StartType DEF SetManual, Operations, Commands
<1>2. CASE Stop
  <2> DEFINE cmd == IF svc.recovery \/ ~Ready THEN "recover" ELSE "stop"
  <2>1. cmd \in Commands
    BY DEF Commands
  <2>2. Admit("stop") /\ Start("stop", cmd, Stopped)
    BY <1>2 DEF Stop
  <2> QED
    BY <2>1, <2>2, StartType DEF Operations
<1>3. CASE HealthCheck
  <2> DEFINE cmd == IF svc.recovery \/ ~Ready THEN "recover" ELSE "health"
  <2>1. cmd \in Commands
    BY DEF Commands
  <2>2. Admit("health") /\ Start("health", cmd, Stopped)
    BY <1>3 DEF HealthCheck
  <2> QED
    BY <2>1, <2>2, StartType DEF Operations
<1>4. CASE Close
  BY <1>4 DEF DacTypeOK, Close, Calls, Operations, Commands
<1>5. CASE Exit
  BY <1>5, KillType DEF DacTypeOK, Exit
<1>6. CASE Crash
  BY <1>6, KillType DEF DacTypeOK, Crash, Release
<1>7. CASE Boot
  BY <1>7, SpawnType DEF DacTypeOK, Boot, Calls, Operations, Commands
<1>8. CASE WorkerStep
  <2>1. CASE OpenBus
    BY <2>1 DEF DacTypeOK, OpenBus, Workers
  <2>2. CASE TakeCommand
    BY <2>2 DEF DacTypeOK, TakeCommand, Workers
  <2>3. CASE Access
    <3> DEFINE ready == wk.ready \/ wk.pc = "ch1"
               reply == IF AfterAccess(wk.pc) = "rest" THEN "ok" ELSE wk.reply
    <3>1. AfterAccess(wk.pc) \in {"rest", "range", "ch0", "ch1"}
      BY <2>3, AfterAccessType DEF Access, Accessing
    <3>2. ready \in BOOLEAN
      OBVIOUS
    <3>3. reply \in {"none", "ok", "failed", "broken"}
      BY DEF DacTypeOK, Workers
    <3>4. wk' = [wk EXCEPT !.pc = AfterAccess(wk.pc), !.ready = ready, !.reply = reply]
      BY <2>3 DEF Access
    <3> HIDE DEF ready, reply
    <3>5. wk' \in Workers
      BY <3>1, <3>2, <3>3, <3>4 DEF DacTypeOK, Workers
    <3> QED
      BY <2>3, <3>5, WrittenType DEF DacTypeOK, Access
  <2> QED
    BY <1>8, <2>1, <2>2, <2>3 DEF WorkerStep
<1>9. CASE CallStep
  <2>1. CASE Send
    BY <2>1, SpawnType, HandType DEF DacTypeOK, Send, Calls
  <2>2. CASE StartupReply
    BY <2>2, StartupReplyType
  <2>3. CASE CommandReply
    BY <2>3, RaiseType, SucceedType DEF DacTypeOK, CommandReply, Proxies, CloseGoesOn, Raise
  <2>4. CASE LostWorker
    BY <2>4, GiveUpType DEF LostWorker, DacTypeOK
  <2>5. CASE CloseWorker
    <3>1. CASE CloseEnds
      BY <2>5, <3>1, CloseEndsType DEF DacTypeOK, CloseWorker
    <3>2. CASE stage' = "send" /\ UNCHANGED <<phase, call, proxy, wk>>
      BY <2>5, <3>2 DEF DacTypeOK, CloseWorker
    <3> QED
      BY <2>5, <3>1, <3>2 DEF CloseWorker
  <2>6. CASE CloseReply
    BY <2>6, CloseEndsType DEF DacTypeOK, CloseReply
  <2> QED
    BY <1>9, <2>1, <2>2, <2>3, <2>4, <2>5, <2>6 DEF CallStep
<1>10. CASE Fault
  <2>1. CASE OpenBusFails
    <3>1. wk' \in Workers
      BY <2>1 DEF DacTypeOK, OpenBusFails, Workers
    <3> QED
      BY <2>1, <3>1 DEF DacTypeOK, OpenBusFails
  <2>2. CASE AccessFails
    <3> DEFINE ready == wk.ready /\ wk.cmd = "health"
               reply == IF wk.cmd = "start" THEN "ok" ELSE "failed"
    <3>1. ready \in BOOLEAN /\ reply \in {"ok", "failed"}
      OBVIOUS
    <3>2. wk' = [wk EXCEPT !.pc = "rest", !.ready = ready, !.reply = reply]
      BY <2>2 DEF AccessFails
    <3> HIDE DEF ready, reply
    <3>3. wk' \in Workers
      BY <3>1, <3>2 DEF DacTypeOK, Workers
    <3> QED
      BY <2>2, <3>3, WrittenType DEF DacTypeOK, AccessFails
  <2>3. CASE WorkerDies
    <3>1. proxy' \in Proxies
      BY <2>3 DEF DacTypeOK, WorkerDies, Proxies
    <3>2. wk' \in Workers
      BY <2>3 DEF DacTypeOK, WorkerDies, Workers
    <3> QED
      BY <2>3, <3>1, <3>2 DEF DacTypeOK, WorkerDies
  <2>4. CASE CommandTimeout
    BY <2>4, GiveUpType DEF CommandTimeout, DacTypeOK
  <2>5. CASE CloseTimeout
    BY <2>5, CloseEndsType DEF DacTypeOK, CloseTimeout
  <2> QED
    BY <1>10, <2>1, <2>2, <2>3, <2>4, <2>5 DEF Fault
<1>11. CASE UNCHANGED dacVars
  BY <1>11 DEF DacTypeOK, dacVars
<1> QED
  BY <1>1, <1>2, <1>3, <1>4, <1>5, <1>6, <1>7, <1>8, <1>9, <1>10, <1>11 DEF DacNext

\* Every variable keeps its type; in particular no setpoint outside 0 and the
\* running range is ever held or driven.
THEOREM TypesAreKept == DacSpec => []DacTypeOK
  BY InitType, TypeStep, PTL DEF DacSpec

------------------------------------------------------------------------------
(* The invariant behind the safety properties *)

\* The operation in progress started from known outputs and a ready worker.
Trusting == call.op \in {"set", "stop", "health"} /\ call.cmd \in {"apply", "stop", "health"}

\* What such an operation is to leave on the outputs.
Goal == IF call.cmd = "health" THEN svc.setpoints ELSE call.arg

\* Who holds the lock in which phase, and with which command.
CallShape ==
  /\ stage = "idle" <=> call.op = "none"
  /\ phase = "down" => stage = "idle" /\ proxy.proc = "none"
  /\ phase = "boot" <=> call.op = "boot"
  /\ phase = "closing" <=> call.op = "close"
  /\ call.op = "boot" => stage = "startup" /\ call.cmd = "none"
  /\ call.op = "set" => call.cmd = "apply"
  /\ call.op = "stop" => call.cmd \in {"stop", "recover"}
  /\ call.op = "health" => call.cmd \in {"health", "recover"}
  /\ call.op = "close" => call.cmd \in {"stop", "shutdown"}
  /\ call.op # "set" => call.arg = Stopped
  /\ stage = "shutdown" => call.op = "close"

\* What the worker does at each stage of a request: at rest between requests,
\* and otherwise at the command of the operation that holds the lock.
WorkerShape ==
  /\ proxy.ready \/ stage \in {"startup", "command"} => proxy.proc # "none"
  /\ stage \in {"idle", "send", "shutdown"} => wk.pc = "rest"
  /\ proxy.proc # "alive" => wk.pc \in {"rest", "take"}
  /\ wk.reply # "none" => wk.pc = "rest"
  /\ stage = "startup" => ~proxy.ready /\ (proxy.proc = "alive" => wk.cmd = "start")
  /\ stage = "command" /\ proxy.proc = "alive" =>
       wk.cmd = call.cmd /\ wk.target = call.arg
  /\ wk.cmd = "start" => wk.target = Stopped
  /\ wk.cmd = "health" => wk.pc \in {"rest", "take", "probe"}

\* How far the worker has come with the outputs.
Progress ==
  /\ wk.pc = "ch1" => dac[0] = VoltageToWord(wk.target[0])
  /\ stage = "startup" /\ wk.reply = "ok" /\ wk.ready => dac = Off
  /\ stage = "command" /\ call.op # "close" /\ wk.reply = "ok" =>
       wk.ready /\ dac = Words(Goal)

\* The outputs are what the service reports, from one trusted operation to the
\* next, and the fields say so.
Trust ==
  /\ phase \in {"up", "closed"} /\ stage = "idle" =>
       /\ Ready => svc.known
       /\ svc.known /\ (phase = "up" \/ proxy.ready) =>
            proxy.ready /\ wk.ready /\ dac = Words(svc.setpoints)
  /\ Trusting => svc.known
  /\ Trusting /\ stage = "send" => proxy.ready /\ wk.ready /\ dac = Words(svc.setpoints)
  /\ Trusting /\ stage = "command" =>
       /\ wk.pc # "rest" => wk.ready
       /\ call.cmd = "health" => dac = Words(svc.setpoints)

IInv == DacTypeOK /\ FaultsAreReported /\ CallShape /\ WorkerShape /\ Progress /\ Trust

\* However a request ends, the operation ends with it, or close() goes on.
LEMMA Outcome ==
  ASSUME DacTypeOK, Succeed \/ CloseGoesOn \/ Raise
  PROVE  \/ /\ call.op \in {"set", "stop", "health"}
            /\ call' = NoCall /\ stage' = "idle" /\ phase' = phase
         \/ /\ call.op = "close" /\ call.cmd = "stop"
            /\ call'.op = "close" /\ call'.cmd = "shutdown" /\ call'.arg = call.arg
            /\ stage' = "shutdown" /\ phase' = phase /\ svc' = svc
<1>1. CASE Succeed
  BY <1>1 DEF Succeed, Release
<1>2. CASE Fail
  BY <1>2 DEF Fail, Release
<1>3. CASE CloseGoesOn
  BY <1>3 DEF CloseGoesOn, DacTypeOK, Calls
<1> QED
  BY <1>1, <1>2, <1>3 DEF Raise

LEMMA OutcomeShape ==
  ASSUME DacTypeOK, CallShape, Succeed \/ CloseGoesOn \/ Raise
  PROVE  CallShape'
  BY Outcome DEF CallShape, NoCall

LEMMA CallShapeStep ==
  ASSUME DacTypeOK, CallShape, WorkerShape, [DacNext]_dacVars
  PROVE  CallShape'
<1>1. ASSUME NEW sp \in [Channels -> Requested], SetManual(sp)
      PROVE  CallShape'
  BY <1>1 DEF CallShape, SetManual, Admit, Start
<1>2. CASE Stop
  BY <1>2 DEF CallShape, Stop, Admit, Start
<1>3. CASE HealthCheck
  BY <1>3 DEF CallShape, HealthCheck, Admit, Start
<1>4. CASE Close
  BY <1>4 DEF CallShape, Close
<1>5. CASE Exit
  BY <1>5 DEF CallShape, Exit, Kill, NoWorker
<1>6. CASE Crash
  BY <1>6 DEF CallShape, Crash, Kill, NoWorker, Release, NoCall
<1>7. CASE Boot
  BY <1>7 DEF CallShape, Boot, Spawn, NoWorker
<1>8. CASE WorkerStep
  <2>1. CASE OpenBus
    BY <2>1 DEF CallShape, OpenBus
  <2>2. CASE TakeCommand
    BY <2>2 DEF CallShape, TakeCommand
  <2>3. CASE Access
    BY <2>3 DEF CallShape, Access, Accessing
  <2> QED
    BY <1>8, <2>1, <2>2, <2>3 DEF WorkerStep
<1>9. CASE CallStep
  <2>1. CASE Send
    BY <2>1 DEF CallShape, Send, Hand, Spawn, NoWorker
  <2>2. CASE StartupReply
    BY <2>2, OutcomeShape DEF CallShape, StartupReply, Hand, Release, NoCall
  <2>3. CASE CommandReply
    BY <2>3, OutcomeShape DEF CallShape, CommandReply
  <2>4. CASE LostWorker
    BY <2>4, OutcomeShape DEF CallShape, LostWorker, GiveUp, Kill, NoWorker, Release, NoCall
  <2>5. CASE CloseWorker
    BY <2>5 DEF CallShape, CloseWorker, CloseEnds, Release, NoCall, NoWorker
  <2>6. CASE CloseReply
    BY <2>6 DEF CallShape, CloseReply, CloseEnds, Release, NoCall, NoWorker
  <2> QED
    BY <1>9, <2>1, <2>2, <2>3, <2>4, <2>5, <2>6 DEF CallStep
<1>10. CASE Fault
  <2>1. CASE OpenBusFails
    BY <2>1 DEF CallShape, OpenBusFails
  <2>2. CASE AccessFails
    BY <2>2 DEF CallShape, AccessFails, Accessing
  <2>3. CASE WorkerDies
    BY <2>3 DEF CallShape, WorkerDies, NoWorker
  <2>4. CASE CommandTimeout
    BY <2>4, OutcomeShape DEF CallShape, CommandTimeout, GiveUp, Kill, NoWorker, Release, NoCall
  <2>5. CASE CloseTimeout
    BY <2>5 DEF CallShape, CloseTimeout, CloseEnds, Release, NoCall, NoWorker
  <2> QED
    BY <1>10, <2>1, <2>2, <2>3, <2>4, <2>5 DEF Fault
<1>11. CASE UNCHANGED dacVars
  BY <1>11 DEF dacVars, CallShape
<1> QED
  BY <1>1, <1>2, <1>3, <1>4, <1>5, <1>6, <1>7, <1>8, <1>9, <1>10, <1>11 DEF DacNext

\* What a worker is after the proxy started it or gave it a command.
LEMMA Spawned ==
  ASSUME Spawn
  PROVE  /\ proxy'.proc = "alive" /\ ~proxy'.ready
         /\ wk'.cmd = "start" /\ wk'.pc = "open" /\ wk'.target = Stopped
         /\ wk'.reply = "none" /\ ~wk'.ready
  BY DEF Spawn, NoWorker

LEMMA Handed ==
  ASSUME DacTypeOK, NEW cmd, NEW sp, Hand(cmd, sp)
  PROVE  /\ wk'.cmd = cmd /\ wk'.pc = "take" /\ wk'.target = sp
         /\ wk'.reply = "none" /\ wk'.ready = wk.ready
  BY DEF DacTypeOK, Workers, Hand

LEMMA ReadyFlag ==
  ASSUME DacTypeOK, NEW r \in BOOLEAN, proxy' = [proxy EXCEPT !.ready = r]
  PROVE  proxy'.ready = r /\ proxy'.proc = proxy.proc
  BY DEF DacTypeOK, Proxies

LEMMA WorkerShapeStep ==
  ASSUME DacTypeOK, CallShape, WorkerShape, [DacNext]_dacVars
  PROVE  WorkerShape'
<1>1. ASSUME NEW sp \in [Channels -> Requested], SetManual(sp)
      PROVE  WorkerShape'
  BY <1>1 DEF WorkerShape, DacTypeOK, Workers, Proxies, CallShape, SetManual, Admit, Start
<1>2. CASE Stop
  BY <1>2 DEF WorkerShape, DacTypeOK, Workers, Proxies, CallShape, Stop, Admit, Start
<1>3. CASE HealthCheck
  BY <1>3 DEF WorkerShape, DacTypeOK, Workers, Proxies, CallShape, HealthCheck, Admit, Start
<1>4. CASE Close
  BY <1>4 DEF WorkerShape, DacTypeOK, Workers, Proxies, CallShape, Close
<1>5. CASE Exit
  BY <1>5 DEF WorkerShape, DacTypeOK, Workers, Proxies, CallShape, Exit, Kill, NoWorker
<1>6. CASE Crash
  BY <1>6 DEF WorkerShape, DacTypeOK, Workers, Proxies, CallShape, Crash, Kill, NoWorker, Release, NoCall
<1>7. CASE Boot
  BY <1>7 DEF WorkerShape, DacTypeOK, Workers, Proxies, CallShape, Boot, Spawn, NoWorker
<1>8. CASE WorkerStep
  <2>1. CASE OpenBus
    BY <2>1 DEF WorkerShape, DacTypeOK, Workers, Proxies, CallShape, OpenBus
  <2>2. CASE TakeCommand
    <3>1. /\ proxy.proc = "alive" /\ UNCHANGED <<stage, proxy, call>>
          /\ wk'.cmd = wk.cmd /\ wk'.target = wk.target
      BY <2>2 DEF TakeCommand, DacTypeOK, Workers
    <3>2. wk'.reply # "none" => wk'.pc = "rest"
      BY <2>2 DEF TakeCommand, WorkerShape, DacTypeOK, Workers
    <3>3. wk.cmd = "health" => wk'.pc \in {"rest", "probe"}
      BY <2>2 DEF TakeCommand, DacTypeOK, Workers
    <3>4. stage \notin {"idle", "send", "shutdown"}
      BY <2>2 DEF TakeCommand, WorkerShape
    <3> QED
      BY <3>1, <3>2, <3>3, <3>4 DEF WorkerShape
  <2>3. CASE Access
    BY <2>3, AfterAccessType DEF WorkerShape, DacTypeOK, Workers, Proxies, CallShape, Access, Accessing, AfterAccess
  <2> QED
    BY <1>8, <2>1, <2>2, <2>3 DEF WorkerStep
<1>9. CASE CallStep
  <2>1. CASE Send
    <3>1. CASE proxy.proc = "alive"
      <4>1. Hand(call.cmd, call.arg) /\ stage' = "command" /\ UNCHANGED proxy
        BY <2>1, <3>1 DEF Send
      <4> QED
        BY <2>1, <3>1, <4>1, Handed DEF WorkerShape, Send, DacTypeOK, Proxies, Calls, Commands
    <3>2. CASE proxy.proc # "alive"
      BY <2>1, <3>2, Spawned DEF WorkerShape, Send
    <3> QED
      BY <3>1, <3>2
  <2>2. CASE StartupReply
    <3>1. CASE call.op = "boot" /\ Release /\ UNCHANGED wk
                   /\ proxy' = [proxy EXCEPT !.ready = wk.ready]
      BY <2>2, <3>1, ReadyFlag DEF WorkerShape, CallShape, StartupReply, Release, DacTypeOK, Workers
    <3>2. CASE stage' = "command" /\ Hand(call.cmd, call.arg)
                   /\ UNCHANGED call /\ proxy' = [proxy EXCEPT !.ready = wk.ready]
      BY <2>2, <3>2, Handed, ReadyFlag DEF WorkerShape, CallShape, StartupReply, DacTypeOK, Workers, Calls, Commands
    <3>3. CASE Raise /\ UNCHANGED wk /\ proxy' = [proxy EXCEPT !.ready = FALSE]
      BY <2>2, <3>3, Outcome DEF WorkerShape, CallShape, StartupReply, DacTypeOK, Proxies
    <3> QED
      BY <2>2, <3>1, <3>2, <3>3 DEF StartupReply
  <2>3. CASE CommandReply
    <3>1. proxy' = [proxy EXCEPT !.ready = (wk.reply = "ok")] /\ UNCHANGED wk
      BY <2>3 DEF CommandReply
    <3>2. stage' \in {"idle", "shutdown"}
      BY <2>3, Outcome DEF CommandReply
    <3> QED
      BY <2>3, <3>1, <3>2, ReadyFlag DEF WorkerShape, CallShape, CommandReply
  <2>4. CASE LostWorker
    BY <2>4, Outcome DEF WorkerShape, DacTypeOK, Workers, Proxies, CallShape, LostWorker, GiveUp, Kill, NoWorker, Release, NoCall
  <2>5. CASE CloseWorker
    BY <2>5 DEF WorkerShape, DacTypeOK, Workers, Proxies, CallShape, CloseWorker, CloseEnds, Release, NoCall, NoWorker
  <2>6. CASE CloseReply
    BY <2>6 DEF WorkerShape, DacTypeOK, Workers, Proxies, CallShape, CloseReply, CloseEnds, Release, NoCall, NoWorker
  <2> QED
    BY <1>9, <2>1, <2>2, <2>3, <2>4, <2>5, <2>6 DEF CallStep
<1>10. CASE Fault
  <2>1. CASE OpenBusFails
    BY <2>1 DEF WorkerShape, DacTypeOK, Workers, Proxies, CallShape, OpenBusFails
  <2>2. CASE AccessFails
    BY <2>2 DEF WorkerShape, DacTypeOK, Workers, Proxies, CallShape, AccessFails, Accessing
  <2>3. CASE WorkerDies
    BY <2>3 DEF WorkerShape, DacTypeOK, Workers, Proxies, CallShape, WorkerDies, NoWorker
  <2>4. CASE CommandTimeout
    BY <2>4, Outcome DEF WorkerShape, DacTypeOK, Workers, Proxies, CallShape, CommandTimeout, GiveUp, Kill, NoWorker, Release, NoCall
  <2>5. CASE CloseTimeout
    BY <2>5 DEF WorkerShape, DacTypeOK, Workers, Proxies, CallShape, CloseTimeout, CloseEnds, Release, NoCall, NoWorker
  <2> QED
    BY <1>10, <2>1, <2>2, <2>3, <2>4, <2>5 DEF Fault
<1>11. CASE UNCHANGED dacVars
  BY <1>11 DEF dacVars, WorkerShape, DacTypeOK, Workers, Proxies, CallShape
<1> QED
  BY <1>1, <1>2, <1>3, <1>4, <1>5, <1>6, <1>7, <1>8, <1>9, <1>10, <1>11 DEF DacNext
\* The fields after each update of the service.
LEMMA RecoveredFields ==
  ASSUME NEW s \in Services
  PROVE  /\ Recovered(s).mode = "STOP" /\ Recovered(s).setpoints = Stopped
         /\ Recovered(s).known = TRUE /\ Recovered(s).recovery = FALSE
         /\ Recovered(s).failures = 0 /\ Recovered(s).alarm = 0
  BY DEF Recovered, Services

LEMMA AppliedFields ==
  ASSUME NEW s \in Services, NEW sp \in Setpoints
  PROVE  /\ Applied(s, sp).mode \in {"STOP", "MANUAL"} /\ Applied(s, sp).setpoints = sp
         /\ Applied(s, sp).known = TRUE /\ Applied(s, sp).recovery = s.recovery
         /\ Applied(s, sp).failures = s.failures /\ Applied(s, sp).alarm = s.alarm
  BY DEF Applied, Services

LEMMA FailedFields ==
  ASSUME NEW s \in Services, NEW i \in BOOLEAN
  PROVE  LET f == Failed(s, i)
             n == s.failures + 1
             raise == i \/ n >= Threshold
         IN  /\ f.known = FALSE /\ f.recovery = TRUE /\ f.failures = n
             /\ f.alarm = IF raise THEN n ELSE s.alarm
             /\ f.mode = IF raise THEN "FAULT" ELSE s.mode
<1> DEFINE n == s.failures + 1
           raise == i \/ n >= Threshold
           a == IF raise THEN n ELSE s.alarm
           m == IF raise THEN "FAULT" ELSE s.mode
           f == [s EXCEPT !.failures = n, !.known = FALSE, !.recovery = TRUE,
                          !.alarm = a, !.mode = m]
<1>1. Failed(s, i) = f
  BY DEF Failed
<1>2. /\ f.known = FALSE /\ f.recovery = TRUE /\ f.failures = n
      /\ f.alarm = a /\ f.mode = m
  <2> HIDE DEF n, a, m
  <2> QED
    BY DEF Services
<1> QED
  BY <1>1, <1>2

LEMMA ProbedFields ==
  ASSUME NEW s \in Services
  PROVE  LET p == [s EXCEPT !.failures = 0, !.known = TRUE]
         IN  /\ p.known = TRUE /\ p.failures = 0 /\ p.setpoints = s.setpoints
             /\ p.recovery = s.recovery /\ p.alarm = s.alarm /\ p.mode = s.mode
  BY DEF Services

\* FaultsAreReported, said of any fields.
Reported(s) ==
  /\ s.mode = "FAULT" <=> s.alarm > 0
  /\ s.alarm > 0 => s.recovery
  /\ s.recovery <=> ~s.known
  /\ s.recovery <=> s.failures > 0
  /\ s.failures >= Threshold => s.alarm > 0
  /\ s.alarm <= s.failures

LEMMA ReportedFailure ==
  ASSUME NEW s \in Services, NEW i \in BOOLEAN, Reported(s)
  PROVE  Reported(Failed(s, i))
<1> DEFINE f == Failed(s, i)
           n == s.failures + 1
<1>1. s.failures \in Nat /\ s.alarm \in Nat
  BY DEF Services
<1>2. f.known = FALSE /\ f.recovery = TRUE /\ f.failures = n
  BY FailedFields
<1>3. CASE i \/ n >= Threshold
  <2>1. f.alarm = n /\ f.mode = "FAULT"
    BY <1>3, FailedFields
  <2> QED
    BY <1>1, <1>2, <2>1 DEF Reported
<1>4. CASE ~(i \/ n >= Threshold)
  <2>1. f.alarm = s.alarm /\ f.mode = s.mode
    BY <1>4, FailedFields
  <2> QED
    BY <1>1, <1>2, <1>4, <2>1 DEF Reported
<1> QED
  BY <1>3, <1>4

LEMMA ReportedStart ==
  ASSUME NEW r \in BOOLEAN
  PROVE  Reported(NewService(r))
<1>1. Threshold \in Nat /\ Threshold > 0
  BY DacAssumption
<1> DEFINE s == NewService(r)
<1>2. CASE r = TRUE
  <2>1. /\ s.mode = "STOP" /\ s.known = TRUE /\ s.recovery = FALSE
        /\ s.failures = 0 /\ s.alarm = 0
    BY <1>2 DEF NewService
  <2> HIDE DEF s
  <2>2. Reported(s)
    BY <1>1, <2>1 DEF Reported
  <2> QED
    BY <2>2 DEF s
<1>3. CASE r = FALSE
  <2>1. /\ s.mode = "FAULT" /\ s.known = FALSE /\ s.recovery = TRUE
        /\ s.failures = Threshold /\ s.alarm = Threshold
    BY <1>3 DEF NewService
  <2> HIDE DEF s
  <2>2. Reported(s)
    BY <1>1, <2>1 DEF Reported
  <2> QED
    BY <2>2 DEF s
<1> QED
  BY <1>2, <1>3

\* A trusted operation that succeeds leaves nothing to report; a recovery
\* clears what there was.
LEMMA ReportedSuccess ==
  ASSUME DacTypeOK, CallShape, Trust, Succeed, Reported(svc)
  PROVE  Reported(svc')
<1>1. svc \in Services
  BY DEF DacTypeOK
<1>2. CASE call.op = "set" /\ svc' = Applied(svc, call.arg)
  <2>1. svc.known
    BY <1>2 DEF Trust, Trusting, CallShape
  <2>2. call.arg \in Setpoints
    BY DEF DacTypeOK, Calls
  <2> DEFINE s == Applied(svc, call.arg)
  <2>3. /\ s.mode \in {"STOP", "MANUAL"} /\ s.known = TRUE /\ s.recovery = svc.recovery
        /\ s.failures = svc.failures /\ s.alarm = svc.alarm
    BY <1>1, <2>2, AppliedFields
  <2>4. svc.failures \in Nat /\ svc.alarm \in Nat
    BY <1>1 DEF Services
  <2> HIDE DEF s
  <2>5. Reported(s)
    BY <2>1, <2>3, <2>4 DEF Reported
  <2> QED
    BY <1>2, <2>5 DEF s
<1>3. CASE svc' = Recovered(svc)
  <2> DEFINE s == Recovered(svc)
  <2>1. /\ s.mode = "STOP" /\ s.known = TRUE /\ s.recovery = FALSE
        /\ s.failures = 0 /\ s.alarm = 0
    BY <1>1, RecoveredFields
  <2>2. Threshold \in Nat /\ Threshold > 0
    BY DacAssumption
  <2> HIDE DEF s
  <2>3. Reported(s)
    BY <2>1, <2>2 DEF Reported
  <2> QED
    BY <1>3, <2>3 DEF s
<1>4. CASE call.op = "health" /\ call.cmd = "health" /\ svc' = [svc EXCEPT !.failures = 0, !.known = TRUE]
  <2>1. svc.known
    BY <1>4 DEF Trust, Trusting
  <2> QED
    BY <1>1, <1>4, <2>1, ProbedFields DEF Reported, Services
<1> QED
  BY <1>2, <1>3, <1>4 DEF Succeed

\* Only the end of an operation changes the service's fields.
LEMMA ServiceSteps ==
  ASSUME [DacNext]_dacVars
  PROVE  \/ svc' = svc
         \/ Succeed
         \/ Fail
         \/ svc' = NewService(wk.ready /\ proxy.proc = "alive")
  BY DEF DacNext, dacVars, SetManual, Stop, HealthCheck, Start, Close, Exit, Crash, Boot,
         WorkerStep, OpenBus, TakeCommand, Access,
         CallStep, Send, StartupReply, CommandReply, LostWorker, CloseWorker, CloseReply,
         Fault, OpenBusFails, AccessFails, WorkerDies, CommandTimeout, CloseTimeout,
         GiveUp, Raise, CloseGoesOn

LEMMA FaultsStep ==
  ASSUME DacTypeOK, FaultsAreReported, CallShape, Trust, [DacNext]_dacVars
  PROVE  FaultsAreReported'
<1>1. Reported(svc)
  BY DEF Reported, FaultsAreReported
<1>2. Reported(svc')
  <2>1. CASE svc' = svc
    BY <1>1, <2>1
  <2>2. CASE Succeed
    BY <1>1, <2>2, ReportedSuccess
  <2>3. CASE Fail
    <3>1. svc \in Services /\ (call.op # "health") \in BOOLEAN
      BY DEF DacTypeOK
    <3> QED
      BY <1>1, <2>3, <3>1, ReportedFailure DEF Fail
  <2>4. CASE svc' = NewService(wk.ready /\ proxy.proc = "alive")
    <3>1. (wk.ready /\ proxy.proc = "alive") \in BOOLEAN
      OBVIOUS
    <3> QED
      BY <2>4, <3>1, ReportedStart
  <2> QED
    BY <2>1, <2>2, <2>3, <2>4, ServiceSteps
<1> QED
  BY <1>2 DEF Reported, FaultsAreReported

\* What an access leaves in the registers.
LEMMA WrittenFacts ==
  ASSUME DacTypeOK
  PROVE  /\ \A pc : pc \notin {"ch0", "ch1"} => Written(pc) = dac
         /\ Written("ch0")[0] = VoltageToWord(wk.target[0])
         /\ dac[0] = VoltageToWord(wk.target[0]) => Written("ch1") = Words(wk.target)
<1>1. \A pc : pc \notin {"ch0", "ch1"} => Written(pc) = dac
  BY DEF Written
<1>2. Written("ch0")[0] = VoltageToWord(wk.target[0])
  BY DEF Written, Channel, DacTypeOK, Channels
<1>3. ASSUME dac[0] = VoltageToWord(wk.target[0])
      PROVE  Written("ch1") = Words(wk.target)
  BY <1>3 DEF Written, Channel, DacTypeOK, Channels, Words
<1> QED
  BY <1>1, <1>2, <1>3

LEMMA ProgressStep ==
  ASSUME DacTypeOK, CallShape, WorkerShape, Progress, Trust, [DacNext]_dacVars
  PROVE  Progress'
<1>1. ASSUME NEW sp \in [Channels -> Requested], SetManual(sp)
      PROVE  Progress'
  BY <1>1 DEF Progress, Goal, DacTypeOK, Workers, SetManual, Admit, Start
<1>2. CASE Stop
  BY <1>2 DEF Progress, Goal, DacTypeOK, Workers, Stop, Admit, Start
<1>3. CASE HealthCheck
  BY <1>3 DEF Progress, Goal, DacTypeOK, Workers, HealthCheck, Admit, Start
<1>4. CASE Close
  BY <1>4 DEF Progress, Goal, DacTypeOK, Workers, Close
<1>5. CASE Exit
  BY <1>5 DEF Progress, Goal, DacTypeOK, Workers, Exit, Kill, NoWorker
<1>6. CASE Crash
  BY <1>6 DEF Progress, Goal, DacTypeOK, Workers, Crash, Kill, NoWorker, Release, NoCall
<1>7. CASE Boot
  BY <1>7 DEF Progress, Goal, DacTypeOK, Workers, Boot, Spawn, NoWorker
<1>8. CASE WorkerStep
  <2>1. CASE OpenBus
    BY <2>1 DEF Progress, Goal, DacTypeOK, Workers, OpenBus
  <2>2. CASE TakeCommand
    <3>1. wk'.pc # "ch1" /\ stage' = stage /\ call' = call /\ svc' = svc /\ dac' = dac
      BY <2>2 DEF TakeCommand, DacTypeOK, Workers
    <3>2. ~(wk'.reply = "ok" /\ stage = "startup")
      BY <2>2 DEF TakeCommand, WorkerShape, DacTypeOK, Workers
    <3>3. ASSUME stage = "command", call.op # "close", wk'.reply = "ok"
          PROVE  FALSE
      <4>1. call.cmd \in {"stop", "shutdown"} /\ ~wk.ready
        BY <2>2, <3>3 DEF TakeCommand, WorkerShape, DacTypeOK, Workers
      <4>2. Trusting
        BY <3>3, <4>1 DEF Trusting, CallShape, DacTypeOK, Calls, Operations
      <4> QED
        BY <2>2, <3>3, <4>1, <4>2 DEF Trust, TakeCommand
    <3> QED
      BY <3>1, <3>2, <3>3 DEF Progress
  <2>3. CASE Access
    <3>1. /\ wk'.pc = AfterAccess(wk.pc) /\ wk'.target = wk.target
          /\ (wk.ready \/ wk.pc = "ch1" => wk'.ready)
          /\ wk'.reply = "ok" => wk'.pc = "rest" \/ wk.reply = "ok"
          /\ stage' = stage /\ call' = call /\ svc' = svc /\ dac' = Written(wk.pc)
          /\ wk.pc \in {"probe", "range", "ch0", "ch1"} /\ proxy.proc = "alive"
      BY <2>3 DEF Access, Accessing, DacTypeOK, Workers
    <3>2. wk.reply = "none" /\ stage \in {"startup", "command"}
      BY <3>1 DEF WorkerShape, DacTypeOK, Workers
    <3>3. CASE wk.pc = "probe" /\ wk.cmd = "health"
      <4>1. wk'.pc = "rest" /\ dac' = dac
        BY <3>1, <3>3, WrittenFacts DEF AfterAccess
      <4>2. stage = "command" /\ call.cmd = "health"
        BY <3>1, <3>2, <3>3 DEF WorkerShape
      <4>3. call.op # "close" => Trusting
        BY <4>2 DEF Trusting, CallShape, DacTypeOK, Calls, Operations
      <4> QED
        BY <3>1, <3>3, <4>1, <4>2, <4>3 DEF Progress, Trust, Goal
    <3>4. CASE wk.pc = "probe" /\ wk.cmd # "health"
      BY <3>1, <3>2, <3>4 DEF Progress, AfterAccess
    <3>5. CASE wk.pc = "range"
      BY <3>1, <3>2, <3>5 DEF Progress, AfterAccess
    <3>6. CASE wk.pc = "ch0"
      BY <3>1, <3>2, <3>6, WrittenFacts DEF Progress, AfterAccess
    <3>7. CASE wk.pc = "ch1"
      <4>1. wk'.pc = "rest" /\ wk'.ready
        BY <3>1, <3>7 DEF AfterAccess
      <4>2. dac' = Words(wk.target)
        BY <3>1, <3>7, WrittenFacts DEF Progress
      <4>3. stage = "startup" => dac' = Off
        BY <3>1, <4>2, StoppedIsOff DEF WorkerShape
      <4>4. stage = "command" => dac' = Words(Goal)
        BY <3>1, <3>7, <4>2 DEF WorkerShape, Goal
      <4> QED
        BY <3>1, <4>1, <4>3, <4>4 DEF Progress, Goal
    <3> QED
      BY <3>1, <3>3, <3>4, <3>5, <3>6, <3>7
  <2> QED
    BY <1>8, <2>1, <2>2, <2>3 DEF WorkerStep
<1>9. CASE CallStep
  <2>1. CASE Send
    BY <2>1, Handed, Spawned DEF Progress, Goal, DacTypeOK, Workers, Send
  <2>2. CASE StartupReply
    BY <2>2, Outcome, Handed DEF Progress, Goal, DacTypeOK, Workers, StartupReply, Release, NoCall
  <2>3. CASE CommandReply
    BY <2>3, Outcome DEF Progress, Goal, DacTypeOK, Workers, CommandReply
  <2>4. CASE LostWorker
    BY <2>4, Outcome DEF Progress, Goal, DacTypeOK, Workers, LostWorker, GiveUp, Kill, NoWorker, Release, NoCall, WorkerShape
  <2>5. CASE CloseWorker
    BY <2>5 DEF Progress, Goal, DacTypeOK, Workers, CloseWorker, CloseEnds, Release, NoCall, NoWorker
  <2>6. CASE CloseReply
    BY <2>6 DEF Progress, Goal, DacTypeOK, Workers, CloseReply, CloseEnds, Release, NoCall, NoWorker
  <2> QED
    BY <1>9, <2>1, <2>2, <2>3, <2>4, <2>5, <2>6 DEF CallStep
<1>10. CASE Fault
  <2>1. CASE OpenBusFails
    BY <2>1 DEF Progress, Goal, DacTypeOK, Workers, OpenBusFails
  <2>2. CASE AccessFails
    <3>1. /\ wk'.pc = "rest" /\ stage' = stage /\ call' = call /\ proxy.proc = "alive"
          /\ wk'.reply = "ok" => wk.cmd = "start"
          /\ wk'.ready => wk.cmd = "health"
      BY <2>2 DEF AccessFails, Accessing, DacTypeOK, Workers
    <3> QED
      BY <3>1 DEF Progress, WorkerShape, DacTypeOK, Calls, Commands
  <2>3. CASE WorkerDies
    BY <2>3 DEF Progress, Goal, DacTypeOK, Workers, WorkerDies, NoWorker
  <2>4. CASE CommandTimeout
    BY <2>4, Outcome DEF Progress, Goal, DacTypeOK, Workers, CommandTimeout, GiveUp, Kill, NoWorker, Release, NoCall, WorkerShape
  <2>5. CASE CloseTimeout
    BY <2>5 DEF Progress, Goal, DacTypeOK, Workers, CloseTimeout, CloseEnds, Release, NoCall, NoWorker
  <2> QED
    BY <1>10, <2>1, <2>2, <2>3, <2>4, <2>5 DEF Fault
<1>11. CASE UNCHANGED dacVars
  BY <1>11 DEF dacVars, Progress, Goal, DacTypeOK, Workers
<1> QED
  BY <1>1, <1>2, <1>3, <1>4, <1>5, <1>6, <1>7, <1>8, <1>9, <1>10, <1>11 DEF DacNext

\* No promise is left over after a request failed, close() went on or ended.
LEMMA GoesOnTrust ==
  ASSUME DacTypeOK, CloseGoesOn
  PROVE  Trust'
  BY DEF CloseGoesOn, Trust, Trusting, DacTypeOK, Calls

LEMMA RaiseTrust ==
  ASSUME DacTypeOK, Raise, ~proxy'.ready
  PROVE  Trust'
<1>1. CASE Fail
  <2>1. svc \in Services /\ (call.op # "health") \in BOOLEAN
    BY DEF DacTypeOK
  <2>2. ~svc'.known
    BY <1>1, <2>1, FailedFields DEF Fail
  <2>3. stage' = "idle" /\ call'.op = "none"
    BY <1>1 DEF Fail, Release, NoCall
  <2> QED
    BY <2>2, <2>3 DEF Trust, Trusting, Ready
<1>2. CASE CloseGoesOn
  BY <1>2, GoesOnTrust
<1> QED
  BY <1>1, <1>2 DEF Raise

LEMMA GiveUpTrust ==
  ASSUME DacTypeOK, GiveUp
  PROVE  Trust'
<1>1. ~proxy'.ready
  BY DEF GiveUp, Kill
<1>2. CASE Raise
  BY <1>1, <1>2, RaiseTrust
<1>3. CASE phase' = "down" /\ Release
  BY <1>3 DEF Release, NoCall, Trust, Trusting
<1> QED
  BY <1>2, <1>3 DEF GiveUp

LEMMA CloseEndsTrust == CloseEnds => Trust'
  BY DEF CloseEnds, Release, NoCall, Trust, Trusting, Ready

LEMMA SuccessFields ==
  ASSUME DacTypeOK, CallShape, Succeed
  PROVE  svc'.setpoints = Goal /\ svc'.known
<1>1. svc \in Services /\ call.arg \in Setpoints
  BY DEF DacTypeOK, Calls
<1>2. CASE call.op = "set" /\ svc' = Applied(svc, call.arg)
  BY <1>1, <1>2, AppliedFields DEF Goal, CallShape
<1>3. CASE call.op \in {"stop", "health"} /\ call.cmd \in {"stop", "recover"} /\ svc' = Recovered(svc)
  BY <1>1, <1>3, RecoveredFields DEF Goal, CallShape
<1>4. CASE call.cmd = "health" /\ svc' = [svc EXCEPT !.failures = 0, !.known = TRUE]
  BY <1>1, <1>4, ProbedFields DEF Goal
<1> QED
  BY <1>2, <1>3, <1>4 DEF Succeed

\* A request that succeeded has left on the outputs what the service now
\* reports.
LEMMA SuccessTrust ==
  ASSUME DacTypeOK, CallShape, Progress, stage = "command", wk.reply = "ok", Succeed,
         proxy'.ready, UNCHANGED <<wk, dac>>
  PROVE  Trust'
<1>1. wk.ready /\ dac = Words(Goal)
  BY DEF Succeed, Progress
<1>2. svc'.setpoints = Goal /\ svc'.known
  BY SuccessFields
<1>3. stage' = "idle" /\ call'.op = "none"
  BY DEF Succeed, Release, NoCall
<1> QED
  BY <1>1, <1>2, <1>3 DEF Trust, Trusting

\* A core that starts reports what its first worker left on the outputs.
LEMMA BootTrust ==
  ASSUME DacTypeOK, Progress, stage = "startup", wk.reply = "ok", Release,
         proxy' = [proxy EXCEPT !.ready = wk.ready], UNCHANGED <<wk, dac>>,
         svc' = NewService(wk.ready /\ proxy.proc = "alive")
  PROVE  Trust'
<1>1. stage' = "idle" /\ call'.op = "none"
  BY DEF Release, NoCall
<1>2. (proxy'.ready <=> wk.ready) /\ proxy'.proc = proxy.proc
  BY ReadyFlag DEF DacTypeOK, Workers
<1>3. CASE wk.ready /\ proxy.proc = "alive"
  <2>1. svc'.setpoints = Stopped /\ svc'.known
    BY <1>3 DEF NewService
  <2>2. dac' = Words(Stopped)
    BY <1>3, StoppedIsOff DEF Progress
  <2> QED
    BY <1>1, <1>2, <1>3, <2>1, <2>2 DEF Trust, Trusting, Ready
<1>4. CASE ~(wk.ready /\ proxy.proc = "alive")
  <2>1. ~svc'.known
    BY <1>4 DEF NewService
  <2> QED
    BY <1>1, <1>2, <1>4, <2>1 DEF Trust, Trusting, Ready
<1> QED
  BY <1>3, <1>4

LEMMA TrustStep ==
  ASSUME DacTypeOK, FaultsAreReported, CallShape, WorkerShape, Progress, Trust, [DacNext]_dacVars
  PROVE  Trust'
<1>1. ASSUME NEW sp \in [Channels -> Requested], SetManual(sp)
      PROVE  Trust'
  BY <1>1 DEF Trust, Trusting, Ready, SetManual, Admit, Start, Operational
<1>2. CASE Stop
  BY <1>2 DEF Trust, Trusting, Ready, Stop, Admit, Start
<1>3. CASE HealthCheck
  BY <1>3 DEF Trust, Trusting, Ready, HealthCheck, Admit, Start
<1>4. CASE Close
  BY <1>4 DEF Trust, Trusting, Ready, Close
<1>5. CASE Exit
  BY <1>5 DEF Trust, Trusting, Ready, Exit, Kill, NoWorker
<1>6. CASE Crash
  BY <1>6 DEF Trust, Trusting, Ready, Crash, Kill, NoWorker, Release, NoCall
<1>7. CASE Boot
  BY <1>7 DEF Trust, Trusting, Ready, Boot, Spawn, NoWorker
<1>8. CASE WorkerStep
  <2>1. CASE OpenBus
    BY <2>1 DEF Trust, Trusting, Ready, OpenBus
  <2>2. CASE TakeCommand
    <3>1. /\ UNCHANGED <<phase, call, stage, svc, proxy, dac>>
          /\ wk.pc = "take" /\ (wk'.pc # "rest" /\ wk.ready /\ wk.cmd # "recover" => wk'.ready)
      BY <2>2 DEF TakeCommand, DacTypeOK, Workers
    <3>2. stage \notin {"idle", "send"}
      BY <3>1 DEF WorkerShape
    <3>3. stage = "command" => wk.cmd = call.cmd
      BY <2>2 DEF WorkerShape, TakeCommand
    <3> QED
      BY <3>1, <3>2, <3>3 DEF Trust, Trusting
  <2>3. CASE Access
    <3>1. /\ UNCHANGED <<phase, call, stage, svc, proxy>>
          /\ wk.pc \in {"probe", "range", "ch0", "ch1"} /\ proxy.proc = "alive"
          /\ (wk.ready => wk'.ready)
          /\ dac' = Written(wk.pc)
      BY <2>3 DEF Access, Accessing, DacTypeOK, Workers
    <3>2. stage \notin {"idle", "send"}
      BY <3>1 DEF WorkerShape
    <3>3. stage = "command" /\ call.cmd = "health" => dac' = dac
      BY <3>1, WrittenFacts DEF WorkerShape
    <3> QED
      BY <3>1, <3>2, <3>3 DEF Trust, Trusting
  <2> QED
    BY <1>8, <2>1, <2>2, <2>3 DEF WorkerStep
<1>9. CASE CallStep
  <2>1. CASE Send
    BY <2>1, Handed, Spawned DEF Trust, Trusting, Ready, Send
  <2>2. CASE StartupReply
    <3>1. CASE call.op = "boot" /\ phase' = "up" /\ Release /\ UNCHANGED <<wk, dac>>
                   /\ proxy' = [proxy EXCEPT !.ready = wk.ready]
                   /\ svc' = NewService(wk.ready /\ proxy.proc = "alive")
      BY <2>2, <3>1, BootTrust DEF StartupReply
    <3>2. CASE stage' = "command" /\ call.cmd \in {"recover", "shutdown"} /\ UNCHANGED call
      BY <3>2 DEF Trust, Trusting
    <3>3. CASE Raise /\ proxy' = [proxy EXCEPT !.ready = FALSE]
      BY <3>3, RaiseTrust, ReadyFlag
    <3> QED
      BY <2>2, <3>1, <3>2, <3>3 DEF StartupReply
  <2>3. CASE CommandReply
    <3>1. proxy' = [proxy EXCEPT !.ready = (wk.reply = "ok")] /\ UNCHANGED <<wk, dac>>
      BY <2>3 DEF CommandReply
    <3>2. proxy'.ready <=> wk.reply = "ok"
      BY <3>1, ReadyFlag
    <3>3. CASE wk.reply = "ok" /\ Succeed
      BY <2>3, <3>1, <3>2, <3>3, SuccessTrust DEF CommandReply
    <3>4. CASE wk.reply = "ok" /\ CloseGoesOn
      BY <3>4, GoesOnTrust
    <3>5. CASE wk.reply # "ok" /\ Raise
      BY <3>2, <3>5, RaiseTrust
    <3> QED
      BY <2>3, <3>3, <3>4, <3>5 DEF CommandReply
  <2>4. CASE LostWorker
    BY <2>4, GiveUpTrust DEF LostWorker
  <2>5. CASE CloseWorker
    <3>1. CASE CloseEnds
      BY <2>5, <3>1, CloseEndsTrust
    <3>2. CASE stage' = "send" /\ UNCHANGED <<phase, call, proxy, wk>>
      BY <2>5, <3>2 DEF CloseWorker, Trust, Trusting, CallShape
    <3> QED
      BY <2>5, <3>1, <3>2 DEF CloseWorker
  <2>6. CASE CloseReply
    BY <2>6, CloseEndsTrust DEF CloseReply
  <2> QED
    BY <1>9, <2>1, <2>2, <2>3, <2>4, <2>5, <2>6 DEF CallStep
<1>10. CASE Fault
  <2>1. CASE OpenBusFails
    BY <2>1 DEF Trust, Trusting, Ready, OpenBusFails
  <2>2. CASE AccessFails
    <3>1. /\ UNCHANGED <<phase, call, stage, svc, proxy>>
          /\ wk.pc \in {"probe", "range", "ch0", "ch1"} /\ proxy.proc = "alive"
          /\ wk'.pc = "rest"
          /\ dac' \in {dac, Written(wk.pc)}
      BY <2>2 DEF AccessFails, Accessing, DacTypeOK, Workers
    <3>2. stage \notin {"idle", "send"}
      BY <3>1 DEF WorkerShape
    <3>3. stage = "command" /\ call.cmd = "health" => dac' = dac
      BY <3>1, WrittenFacts DEF WorkerShape
    <3> QED
      BY <3>1, <3>2, <3>3 DEF Trust, Trusting
  <2>3. CASE WorkerDies
    BY <2>3 DEF Trust, Trusting, Ready, WorkerDies, NoWorker
  <2>4. CASE CommandTimeout
    BY <2>4, GiveUpTrust DEF CommandTimeout
  <2>5. CASE CloseTimeout
    BY <2>5, CloseEndsTrust DEF CloseTimeout
  <2> QED
    BY <1>10, <2>1, <2>2, <2>3, <2>4, <2>5 DEF Fault
<1>11. CASE UNCHANGED dacVars
  BY <1>11 DEF dacVars, Trust, Trusting, Ready
<1> QED
  BY <1>1, <1>2, <1>3, <1>4, <1>5, <1>6, <1>7, <1>8, <1>9, <1>10, <1>11 DEF DacNext

------------------------------------------------------------------------------
(* The theorems *)

LEMMA InitInv == DacInit => IInv
<1> SUFFICES ASSUME DacInit PROVE IInv
  OBVIOUS
<1>1. DacTypeOK
  BY InitType
<1>2. FaultsAreReported
  <2>1. Reported(NewService(FALSE))
    BY ReportedStart
  <2> QED
    BY <2>1 DEF DacInit, Reported, FaultsAreReported
<1>3. CallShape /\ WorkerShape /\ Progress /\ Trust
  BY DEF DacInit, NoCall, NoWorker, CallShape, WorkerShape, Progress, Trust, Trusting
<1> QED
  BY <1>1, <1>2, <1>3 DEF IInv

LEMMA InvStep == IInv /\ [DacNext]_dacVars => IInv'
  BY TypeStep, FaultsStep, CallShapeStep, WorkerShapeStep, ProgressStep, TrustStep DEF IInv

THEOREM Invariance == DacSpec => []IInv
  BY InitInv, InvStep, PTL DEF DacSpec

\* The fields a client reads never contradict one another: a fault, the alarm,
\* the unknown outputs and the failure count come and go together.
THEOREM FaultsReported == DacSpec => []FaultsAreReported
  BY Invariance, PTL DEF IInv

\* What status reports as known is what the DAC's registers carry, for every
\* failure threshold and after any number of faults, deaths and restarts.
THEOREM KnownOutputs == DacSpec => []KnownOutputsAreTrue
<1>1. IInv => KnownOutputsAreTrue
  BY DEF IInv, Trust, KnownOutputsAreTrue
<1> QED
  BY <1>1, Invariance, PTL

\* A worker the idle proxy holds for ready does not skip a stop in silence.
THEOREM ReadyWorker == DacSpec => []ReadyProxyHasReadyWorker
<1>1. IInv => ReadyProxyHasReadyWorker
  BY DEF IInv, Trust, ReadyProxyHasReadyWorker, Ready
<1> QED
  BY <1>1, Invariance, PTL

------------------------------------------------------------------------------
(* The refinement of FanSafety *)

AbstractStep == [Abstract!Next]_(Abstract!vars)

\* What the abstract variables say at each point of the core's life.
LEMMA StatusType == Status \in {"trusted", "working", "unknown"}
  BY DEF Status

\* Whatever happens while the outputs stay put and nothing is promised
\* afterwards is a Lose.
LEMMA AbstractLose ==
  ASSUME Status' = "unknown", dac' = dac
  PROVE  AbstractStep
  BY DEF AbstractStep, Abstract!Next, Abstract!Lose, Abstract!Off, Promise, Aim, Off

\* Steps of the worker and of the proxy within one request.
LEMMA AbstractStutter ==
  ASSUME UNCHANGED <<phase, call, stage, svc, dac>>, proxy'.ready = proxy.ready
  PROVE  AbstractStep
<1>1. Status' = Status
  BY DEF Status
<1>2. Promise' = Promise /\ Aim' = Aim
  BY <1>1 DEF Promise, Aim
<1> QED
  BY <1>1, <1>2 DEF AbstractStep, Abstract!vars

LEMMA AbstractSend ==
  ASSUME Send
  PROVE  AbstractStep
<1>1. Status' = Status
  BY DEF Status, Send
<1>2. Promise' = Promise /\ Aim' = Aim
  BY <1>1 DEF Promise, Aim, Send
<1> QED
  BY <1>1, <1>2 DEF AbstractStep, Abstract!vars, Send

\* An operation that moves the outputs starts from trust: a Begin.
LEMMA AbstractStart ==
  ASSUME IInv, NEW op \in {"set", "stop", "health"}, NEW cmd, NEW sp \in Setpoints,
         Admit(op), Start(op, cmd, sp),
         cmd \in {"apply", "stop", "health"} => ~svc.recovery /\ Ready
  PROVE  AbstractStep
<1>1. /\ stage = "idle" /\ stage' = "send" /\ phase \in {"up", "closed"}
      /\ call'.op = op /\ call'.cmd = cmd /\ call'.arg = sp
      /\ UNCHANGED <<phase, svc, proxy, wk, dac>>
  BY DEF Admit, Start
<1>2. CASE cmd \in {"apply", "stop", "health"}
  <2>1. svc.known /\ proxy.ready
    BY <1>1, <1>2 DEF IInv, Trust, Ready
  <2>2. Status = "trusted" /\ Status' = "working"
    BY <1>1, <1>2, <2>1 DEF Status
  <2>3. Promise' = Promise
    BY <1>1, <2>2 DEF Promise
  <2>4. Aim' \in [Channels -> Codes]
    <3>1. svc.setpoints \in Setpoints
      BY DEF IInv, DacTypeOK, Services
    <3> QED
      BY <1>1, <2>2, <3>1, WordsType DEF Aim
  <2>5. Abstract!Begin(Aim')
    BY <1>1, <2>2, <2>3 DEF Abstract!Begin
  <2> QED
    BY <2>4, <2>5 DEF AbstractStep, Abstract!Next
<1>3. CASE cmd \notin {"apply", "stop", "health"}
  BY <1>1, <1>3, AbstractLose DEF Status
<1> QED
  BY <1>2, <1>3

\* An access that reaches a register drives it where the operation wants it,
\* or switches it off.
LEMMA AbstractAccess ==
  ASSUME IInv, Accessing, dac' = Written(wk.pc), UNCHANGED <<phase, call, stage, svc, proxy>>
  PROVE  AbstractStep
<1>1. DacTypeOK /\ CallShape /\ WorkerShape /\ Trust
  BY DEF IInv
<1>2. Status' = Status
  BY DEF Status
<1>3. Promise' = Promise /\ Aim' = Aim
  BY <1>2 DEF Promise, Aim
<1>4. CASE wk.pc \notin {"ch0", "ch1"}
  BY <1>1, <1>2, <1>3, <1>4, WrittenFacts DEF AbstractStep, Abstract!vars
<1>5. CASE wk.pc \in {"ch0", "ch1"}
  <2> DEFINE c == Channel(wk.pc)
  <2>1. c \in Channels /\ dac' = [dac EXCEPT ![c] = VoltageToWord(wk.target[c])]
    BY <1>5 DEF Channel, Channels, Written
  <2>2. stage \in {"startup", "command"} /\ Status # "trusted"
    BY <1>1, <1>5 DEF WorkerShape, DacTypeOK, Status
  <2>3. CASE wk.target = Stopped
    <3>1. dac' = [dac EXCEPT ![c] = 0]
      BY <2>1, <2>3, ZeroWord DEF Stopped
    <3>2. Abstract!SwitchOff(c)
      BY <1>2, <1>3, <2>2, <3>1 DEF Abstract!SwitchOff
    <3> QED
      BY <2>1, <3>2 DEF AbstractStep, Abstract!Next
  <2>4. CASE wk.target # Stopped
    <3>1. stage = "command" /\ wk.target = call.arg /\ call.op = "set"
      BY <1>1, <2>2, <2>4 DEF WorkerShape, CallShape, Accessing
    <3>2. call.cmd = "apply" /\ svc.known /\ phase \in {"up", "closed"}
      BY <1>1, <3>1 DEF CallShape, Trust, Trusting, DacTypeOK
    <3>3. Status = "working" /\ Aim = Words(wk.target)
      BY <3>1, <3>2 DEF Status, Aim
    <3>4. dac' = [dac EXCEPT ![c] = Aim[c]]
      BY <2>1, <3>3 DEF Words
    <3>5. Abstract!Drive(c)
      BY <1>2, <1>3, <3>3, <3>4 DEF Abstract!Drive
    <3> QED
      BY <2>1, <3>5 DEF AbstractStep, Abstract!Next
  <2> QED
    BY <2>3, <2>4
<1> QED
  BY <1>4, <1>5

\* Success commits what was asked for, or restores trust over silent outputs.
LEMMA AbstractSuccess ==
  ASSUME IInv, stage = "command", wk.reply = "ok", Succeed,
         proxy' = [proxy EXCEPT !.ready = (wk.reply = "ok")], dac' = dac
  PROVE  AbstractStep
<1>1. DacTypeOK /\ CallShape /\ Trust /\ Progress
  BY DEF IInv
<1>2. dac = Words(Goal)
  BY <1>1 DEF Progress, Succeed
<1>3. svc'.setpoints = Goal /\ svc'.known
  BY <1>1, SuccessFields
<1>4. phase' = phase /\ phase \in {"up", "closed"} /\ stage' = "idle"
  BY <1>1 DEF Succeed, Release, CallShape, DacTypeOK
<1>5. proxy'.ready
  BY <1>1, ReadyFlag
<1>6. Status' = "trusted" /\ Promise' = Words(Goal) /\ Aim' = Off
  BY <1>3, <1>4, <1>5 DEF Status, Promise, Aim
<1>7. CASE Trusting
  <2>1. Status = "working"
    BY <1>1, <1>4, <1>7 DEF Status, Trust, Trusting
  <2>2. Aim = Words(Goal)
    BY <2>1 DEF Aim, Goal
  <2>3. Abstract!Commit
    BY <1>2, <1>6, <2>1, <2>2 DEF Abstract!Commit, Abstract!Off, Off
  <2> QED
    BY <2>3 DEF AbstractStep, Abstract!Next
<1>8. CASE ~Trusting
  <2>1. call.cmd = "recover" /\ call.arg = Stopped
    BY <1>1, <1>8 DEF Succeed, Trusting, CallShape
  <2>2. Status = "unknown"
    BY <1>4, <2>1 DEF Status
  <2>3. Goal = Stopped /\ dac = Off /\ Promise' = Off
    BY <1>2, <1>6, <2>1, StoppedIsOff DEF Goal
  <2>4. Promise = Off /\ Aim = Off
    BY <2>2 DEF Promise, Aim
  <2>5. Abstract!Restore
    BY <1>6, <2>2, <2>3, <2>4 DEF Abstract!Restore, Abstract!Off, Off
  <2> QED
    BY <2>5 DEF AbstractStep, Abstract!Next
<1> QED
  BY <1>7, <1>8

\* Failure, giving up and closing lose whatever was promised.
LEMMA AbstractRaise ==
  ASSUME IInv, CloseGoesOn \/ Raise, dac' = dac
  PROVE  AbstractStep
<1>1. DacTypeOK /\ CallShape
  BY DEF IInv
<1>2. CASE Fail
  <2>1. svc \in Services /\ (call.op # "health") \in BOOLEAN
    BY <1>1 DEF DacTypeOK
  <2>2. ~svc'.known
    BY <1>2, <2>1, FailedFields DEF Fail
  <2> QED
    BY <2>2, AbstractLose DEF Status
<1>3. CASE CloseGoesOn
  BY <1>1, <1>3, AbstractLose DEF CloseGoesOn, CallShape, Status
<1> QED
  BY <1>2, <1>3 DEF Raise

LEMMA AbstractGiveUp ==
  ASSUME IInv, GiveUp
  PROVE  AbstractStep
<1>1. CASE phase' = "down" /\ dac' = dac
  BY <1>1, AbstractLose DEF Status
<1>2. CASE Raise /\ dac' = dac
  BY <1>2, AbstractRaise
<1> QED
  BY <1>1, <1>2 DEF GiveUp

LEMMA AbstractCloseEnds ==
  ASSUME CloseEnds, dac' = dac
  PROVE  AbstractStep
  BY AbstractLose DEF CloseEnds, Release, Status

\* A start restores trust over silent outputs, or promises nothing.
LEMMA AbstractStartup ==
  ASSUME IInv, StartupReply
  PROVE  AbstractStep
<1>1. DacTypeOK /\ CallShape /\ Progress
  BY DEF IInv
<1>2. CASE call.op = "boot" /\ phase' = "up" /\ Release
           /\ proxy' = [proxy EXCEPT !.ready = wk.ready]
           /\ svc' = NewService(wk.ready /\ proxy.proc = "alive")
  <2>1. CASE wk.ready /\ proxy.proc = "alive"
    <3>1. svc'.setpoints = Stopped /\ svc'.known
      BY <1>2, <2>1 DEF NewService
    <3>2. dac = Off /\ dac' = Off
      BY <1>1, <2>1 DEF StartupReply, Progress
    <3>3. proxy'.ready
      BY <1>1, <1>2, <2>1, ReadyFlag DEF DacTypeOK, Workers
    <3>4. Status' = "trusted" /\ Promise' = Off /\ Aim' = Off
      BY <1>2, <3>1, <3>3, StoppedIsOff DEF Release, Status, Promise, Aim
    <3>5. Status = "unknown" /\ Promise = Off /\ Aim = Off
      BY <1>1, <1>2 DEF CallShape, Status, Promise, Aim
    <3>6. Abstract!Restore
      BY <3>2, <3>4, <3>5 DEF Abstract!Restore, Abstract!Off, Off
    <3> QED
      BY <3>6 DEF AbstractStep, Abstract!Next
  <2>2. CASE ~(wk.ready /\ proxy.proc = "alive")
    <3>1. ~svc'.known
      BY <1>2, <2>2 DEF NewService
    <3> QED
      BY <3>1, AbstractLose DEF StartupReply, Status
  <2> QED
    BY <2>1, <2>2
<1>3. CASE stage' = "command" /\ call.cmd \in {"recover", "shutdown"} /\ UNCHANGED call
  BY <1>3, AbstractLose DEF StartupReply, Status
<1>4. CASE Raise
  BY <1>4, AbstractRaise DEF StartupReply
<1> QED
  BY <1>2, <1>3, <1>4 DEF StartupReply

LEMMA AbstractInit == DacInit => Abstract!Init
<1> SUFFICES ASSUME DacInit PROVE Abstract!Init
  OBVIOUS
<1>1. Status = "unknown"
  BY DEF DacInit, Status
<1> QED
  BY <1>1 DEF DacInit, Abstract!Init, Abstract!Off, Off, Promise, Aim

LEMMA AbstractNext ==
  ASSUME IInv, [DacNext]_dacVars
  PROVE  AbstractStep
<1> USE DEF IInv
<1>1. ASSUME NEW sp \in [Channels -> Requested], SetManual(sp)
      PROVE  AbstractStep
  <2>1. sp \in Setpoints /\ ~svc.recovery /\ Ready
    BY <1>1, AcceptedType DEF SetManual, Operational
  <2>2. Admit("set") /\ Start("set", "apply", sp)
    BY <1>1 DEF SetManual
  <2> QED
    BY <2>1, <2>2, AbstractStart
<1>2. CASE Stop
  <2> DEFINE cmd == IF svc.recovery \/ ~Ready THEN "recover" ELSE "stop"
  <2>1. Admit("stop") /\ Start("stop", cmd, Stopped)
    BY <1>2 DEF Stop
  <2>2. cmd \in {"apply", "stop", "health"} => ~svc.recovery /\ Ready
    OBVIOUS
  <2> HIDE DEF cmd
  <2> QED
    BY <2>1, <2>2, StoppedType, AbstractStart
<1>3. CASE HealthCheck
  <2> DEFINE cmd == IF svc.recovery \/ ~Ready THEN "recover" ELSE "health"
  <2>1. Admit("health") /\ Start("health", cmd, Stopped)
    BY <1>3 DEF HealthCheck
  <2>2. cmd \in {"apply", "stop", "health"} => ~svc.recovery /\ Ready
    OBVIOUS
  <2> HIDE DEF cmd
  <2> QED
    BY <2>1, <2>2, StoppedType, AbstractStart
<1>4. CASE Close
  BY <1>4, AbstractLose DEF Close, Kill, Release, Status
<1>5. CASE Exit
  BY <1>5, AbstractLose DEF Exit, Kill, Release, Status
<1>6. CASE Crash
  BY <1>6, AbstractLose DEF Crash, Kill, Release, Status
<1>7. CASE Boot
  BY <1>7, AbstractLose DEF Boot, Kill, Release, Status
<1>8. CASE WorkerStep
  <2>1. CASE OpenBus
    BY <2>1, AbstractStutter DEF OpenBus
  <2>2. CASE TakeCommand
    BY <2>2, AbstractStutter DEF TakeCommand
  <2>3. CASE Access
    BY <2>3, AbstractAccess DEF Access
  <2> QED
    BY <1>8, <2>1, <2>2, <2>3 DEF WorkerStep
<1>9. CASE CallStep
  <2>1. CASE Send
    BY <2>1, AbstractSend
  <2>2. CASE StartupReply
    BY <2>2, AbstractStartup
  <2>3. CASE CommandReply
    <3>1. CASE wk.reply = "ok" /\ Succeed
      BY <2>3, <3>1, AbstractSuccess DEF CommandReply
    <3>2. CASE CloseGoesOn \/ Raise
      BY <2>3, <3>2, AbstractRaise DEF CommandReply
    <3> QED
      BY <2>3, <3>1, <3>2 DEF CommandReply
  <2>4. CASE LostWorker
    BY <2>4, AbstractGiveUp DEF LostWorker
  <2>5. CASE CloseWorker
    <3>1. CASE CloseEnds
      BY <2>5, <3>1, AbstractCloseEnds DEF CloseWorker
    <3>2. CASE stage' = "send" /\ UNCHANGED <<phase, call, proxy, wk>>
      BY <2>5, <3>2, AbstractLose DEF CloseWorker, CallShape, Status
    <3> QED
      BY <2>5, <3>1, <3>2 DEF CloseWorker
  <2>6. CASE CloseReply
    BY <2>6, AbstractCloseEnds DEF CloseReply
  <2> QED
    BY <1>9, <2>1, <2>2, <2>3, <2>4, <2>5, <2>6 DEF CallStep
<1>10. CASE Fault
  <2>1. CASE OpenBusFails
    BY <2>1, AbstractStutter DEF OpenBusFails
  <2>2. CASE AccessFails
    <3>1. CASE dac' = Written(wk.pc)
      BY <2>2, <3>1, AbstractAccess DEF AccessFails
    <3>2. CASE dac' = dac
      BY <2>2, <3>2, AbstractStutter DEF AccessFails
    <3> QED
      BY <2>2, <3>1, <3>2 DEF AccessFails
  <2>3. CASE WorkerDies
    BY <2>3, AbstractStutter DEF WorkerDies, DacTypeOK, Proxies
  <2>4. CASE CommandTimeout
    BY <2>4, AbstractGiveUp DEF CommandTimeout
  <2>5. CASE CloseTimeout
    BY <2>5, AbstractCloseEnds DEF CloseTimeout
  <2> QED
    BY <1>10, <2>1, <2>2, <2>3, <2>4, <2>5 DEF Fault
<1>11. CASE UNCHANGED dacVars
  BY <1>11, AbstractStutter DEF dacVars
<1> QED
  BY <1>1, <1>2, <1>3, <1>4, <1>5, <1>6, <1>7, <1>8, <1>9, <1>10, <1>11 DEF DacNext

\* The core implements FanSafety: for all constants, the outputs move only on
\* behalf of an operation that started from a trusted state, or to zero, and
\* trust comes back only over outputs that are off.
THEOREM Refinement == DacSpec => ImplementsFanSafety
<1>1. IInv /\ [DacNext]_dacVars => [Abstract!Next]_(Abstract!vars)
  BY AbstractNext DEF AbstractStep
<1> QED
  BY <1>1, AbstractInit, Invariance, PTL DEF DacSpec, ImplementsFanSafety, Abstract!Spec

==============================================================================
