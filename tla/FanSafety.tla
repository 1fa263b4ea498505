------------------------------ MODULE FanSafety ------------------------------
(***************************************************************************)
(* What the fan-control core promises to whoever reads its status: the     *)
(* two analogue outputs move only on behalf of an operation that started   *)
(* from a trusted state; a trusted state reports exactly what the outputs  *)
(* carry; and trust, once lost, comes back only with both outputs at zero. *)
(* The core's processes, timeouts and I2C accesses are invisible here;     *)
(* DacControl is shown to implement this specification.                    *)
(***************************************************************************)
EXTENDS Naturals

CONSTANTS
  Channels,   \* the analogue outputs
  Codes,      \* the values an output can carry, 0 among them
  Goals       \* what an operation may ask of the outputs

VARIABLES
  out,        \* what each output carries
  status,     \* "trusted", "working" (an operation is moving them), "unknown"
  promise,    \* what the core reports while it is trusted
  goal        \* what the operation in progress was asked for

vars == <<out, status, promise, goal>>

Off == [c \in Channels |-> 0]

Init ==
  /\ out \in [Channels -> Codes]
  /\ status = "unknown"
  /\ promise = Off
  /\ goal = Off

\* An operation starts, and only from a trusted state.
Begin(g) ==
  /\ status = "trusted"
  /\ status' = "working"
  /\ goal' = g
  /\ UNCHANGED <<out, promise>>

\* One output is moved to what the operation asked for.
Drive(c) ==
  /\ status = "working"
  /\ out' = [out EXCEPT ![c] = goal[c]]
  /\ UNCHANGED <<status, promise, goal>>

\* One output is switched off: allowed whenever the state is not a promise.
SwitchOff(c) ==
  /\ status # "trusted"
  /\ out' = [out EXCEPT ![c] = 0]
  /\ UNCHANGED <<status, promise, goal>>

\* The operation is reported done: the outputs carry what it asked for.
Commit ==
  /\ status = "working"
  /\ out = goal
  /\ status' = "trusted"
  /\ promise' = goal
  /\ goal' = Off
  /\ UNCHANGED out

\* A failure, a crash or a shutdown: nothing is promised any more.
Lose ==
  /\ status' = "unknown"
  /\ promise' = Off
  /\ goal' = Off
  /\ UNCHANGED out

\* Trust comes back only over outputs that are off.
Restore ==
  /\ status = "unknown"
  /\ out = Off
  /\ status' = "trusted"
  /\ UNCHANGED <<out, promise, goal>>

Next ==
  \/ \E g \in Goals : Begin(g)
  \/ \E c \in Channels : Drive(c) \/ SwitchOff(c)
  \/ Commit
  \/ Lose
  \/ Restore

Spec == Init /\ [][Next]_vars
==============================================================================
