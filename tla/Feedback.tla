------------------------------ MODULE Feedback ------------------------------
(***************************************************************************)
(* What the core hears of the fans and of its own supply: the TACHO        *)
(* monitor (tacho_monitor.py, domain/tacho.py), one worker thread per GPIO *)
(* line that turns edges into a speed, and the monitor of the firmware's   *)
(* power flags (system_power_monitor.py).                                  *)
(*                                                                         *)
(* Time is counted in units in which a line has at most one edge; the      *)
(* kernel stamps an edge when it happens and keeps it in a bounded buffer  *)
(* until the worker reads it.  The speed itself is the mean of the periods *)
(* kept, so that the model keeps the periods.                              *)
(***************************************************************************)
EXTENDS Integers, Sequences

CONSTANTS Lines,        \* GPIO lines of the fans' TACHO outputs
          EdgeTimeout,      \* longest time between two edges of a turning fan
          MinPeriod,    \* shorter periods are bounces
          Averaging,    \* periods kept
          BufferSize,   \* edges the kernel keeps
          LastMoment,   \* units of time explored
          MaxFailures   \* failures of a worker or of a reading of the flags

ASSUME FeedbackAssumption ==
  /\ EdgeTimeout \in Nat \ {0} /\ MinPeriod \in Nat \ {0}
  /\ Averaging \in Nat \ {0} /\ BufferSize \in Nat \ {0}
  /\ LastMoment \in Nat /\ MaxFailures \in Nat

VARIABLES
  moment,     \* units of time since the start
  turned,     \* per line: the edges of the fan so far
  lost,       \* per line: an edge was pushed out of the buffer
  channel,    \* per line: the worker thread and its estimator
  stopping,   \* the stop event of the monitor
  supply,     \* the supply of the computer: "good" or "low"
  power,      \* RaspberryPiSystemPowerMonitor._state
  lastRead,   \* what the last successful reading of the flags said
  failuresLeft

feedbackVars == <<moment, turned, lost, channel, stopping, supply, power, lastRead, failuresLeft>>

Never == -1

FreshChannel ==
  [thread |-> "opening", error |-> FALSE, since |-> Never, buffer |-> <<>>,
   periods |-> <<>>, last |-> Never]

FeedbackInit ==
  /\ moment = 0
  /\ turned = [l \in Lines |-> {}] /\ lost = [l \in Lines |-> FALSE]
  /\ channel = [l \in Lines |-> FreshChannel]
  /\ stopping = FALSE
  /\ supply = "good"
  /\ power = [available |-> FALSE, low |-> "unknown"]
  /\ lastRead = "nothing"
  /\ failuresLeft = MaxFailures

-----------------------------------------------------------------------------
(* The world *)

NextMoment ==
  /\ moment < LastMoment
  /\ moment' = moment + 1
  /\ UNCHANGED <<turned, lost, channel, stopping, supply, power, lastRead, failuresLeft>>

(* The fan's output rises; the kernel keeps the newest BufferSize edges of  *)
(* a line that is requested.                                                *)
Edge(l) ==
  LET buffer == channel[l].buffer
      full == Len(buffer) = BufferSize
  IN /\ moment \notin turned[l]
     /\ turned' = [turned EXCEPT ![l] = @ \cup {moment}]
     /\ IF channel[l].thread = "counting"
          THEN /\ channel' = [channel EXCEPT
                      ![l].buffer = Append(IF full THEN Tail(buffer) ELSE buffer, moment)]
               /\ lost' = [lost EXCEPT ![l] = @ \/ full]
          ELSE UNCHANGED <<channel, lost>>
     /\ UNCHANGED <<moment, stopping, supply, power, lastRead, failuresLeft>>

SupplyChanges ==
  /\ supply' = IF supply = "good" THEN "low" ELSE "good"
  /\ UNCHANGED <<moment, turned, lost, channel, stopping, power, lastRead, failuresLeft>>

-----------------------------------------------------------------------------
(* The worker of a line: _run *)

(* Mutant of Requested: the estimator is not reset. *)
RequestedAsWas(c) ==
  [c EXCEPT !.thread = "counting", !.error = FALSE, !.since = moment, !.buffer = <<>>]

Requested(c) ==
  [c EXCEPT !.thread = "counting", !.error = FALSE, !.since = moment, !.buffer = <<>>,
            !.periods = <<>>, !.last = Never]

RequestLine(l) ==
  /\ channel[l].thread = "opening"
  /\ channel' = [channel EXCEPT ![l] = Requested(@)]
  /\ lost' = [lost EXCEPT ![l] = FALSE]
  /\ UNCHANGED <<moment, turned, stopping, supply, power, lastRead, failuresLeft>>

(* The chip, the line or a wait for edges fails: the thread ends, and what  *)
(* the estimator holds stays.                                               *)
WorkerFails(l) ==
  /\ channel[l].thread \in {"opening", "counting"} /\ failuresLeft > 0
  /\ channel' = [channel EXCEPT ![l].thread = "ended", ![l].error = TRUE, ![l].buffer = <<>>]
  /\ failuresLeft' = failuresLeft - 1
  /\ UNCHANGED <<moment, turned, lost, stopping, supply, power, lastRead>>

Newest(periods) ==
  IF Len(periods) > Averaging THEN SubSeq(periods, 2, Len(periods)) ELSE periods

(* TachoEstimator.add_edge: a pause forgets the periods, a bounce is not    *)
(* counted but moves the last edge.                                         *)
Added(c, edge) ==
  LET period == edge - c.last
  IN [c EXCEPT !.last = edge, !.buffer = Tail(@),
               !.periods = IF c.last = Never THEN @
                           ELSE IF period > EdgeTimeout THEN <<>>
                           ELSE IF period >= MinPeriod THEN Newest(Append(@, period))
                           ELSE @]

AddEdge(l) ==
  /\ channel[l].thread = "counting" /\ ~stopping /\ channel[l].buffer # <<>>
  /\ channel' = [channel EXCEPT ![l] = Added(@, Head(@.buffer))]
  /\ UNCHANGED <<moment, turned, lost, stopping, supply, power, lastRead, failuresLeft>>

(* The loop sees the stop event. *)
WorkerStops(l) ==
  /\ channel[l].thread = "counting" /\ stopping
  /\ channel' = [channel EXCEPT ![l].thread = "ended", ![l].buffer = <<>>]
  /\ UNCHANGED <<moment, turned, lost, stopping, supply, power, lastRead, failuresLeft>>

-----------------------------------------------------------------------------
(* The core *)

(* RaspberryPiSystemPowerMonitor.poll: a failed reading keeps an observed   *)
(* undervoltage, and nothing else.                                          *)
ReadPower ==
  /\ power' = [available |-> TRUE, low |-> IF supply = "low" THEN "yes" ELSE "no"]
  /\ lastRead' = supply
  /\ UNCHANGED failuresLeft

PowerUnread ==
  /\ failuresLeft > 0
  /\ power' = [available |-> FALSE, low |-> IF power.low = "yes" THEN "yes" ELSE "unknown"]
  /\ failuresLeft' = failuresLeft - 1
  /\ UNCHANGED lastRead

(* health_check: ended workers are started anew, then the flags are read.   *)
FeedbackHealthCheck ==
  /\ channel' = [l \in Lines |->
                   IF channel[l].thread = "ended" /\ ~stopping
                     THEN [channel[l] EXCEPT !.thread = "opening"] ELSE channel[l]]
  /\ ReadPower \/ PowerUnread
  /\ UNCHANGED <<moment, turned, lost, stopping, supply>>

CloseFeedback ==
  /\ ~stopping
  /\ stopping' = TRUE
  /\ UNCHANGED <<moment, turned, lost, channel, supply, power, lastRead, failuresLeft>>

FeedbackNext ==
  \/ NextMoment \/ SupplyChanges \/ FeedbackHealthCheck \/ CloseFeedback
  \/ \E l \in Lines : Edge(l) \/ RequestLine(l) \/ WorkerFails(l) \/ AddEdge(l) \/ WorkerStops(l)

-----------------------------------------------------------------------------
(* What the core shows *)

(* TachoEstimator.read: a speed, or a stopped fan. *)
Turning(c) ==
  /\ c.last # Never /\ moment - c.last <= EdgeTimeout
  /\ c.periods # <<>>

(* The alert tacho:monitor, and system:undervoltage. *)
MonitorSignal == \E l \in Lines : channel[l].thread = "ended" \/ channel[l].error
UndervoltageSignal == power.low = "yes"

-----------------------------------------------------------------------------
(* Consecutive edges of the fan. *)
Gaps(l) ==
  {g \in turned[l] \X turned[l] : g[1] < g[2] /\ \A e \in turned[l] : e <= g[1] \/ e >= g[2]}

(* The speed shown is the fan's: as long as the kernel lost no edge, each   *)
(* period behind it lies between two edges that followed one another, none  *)
(* of them from before a worker's failure to after it; a fan that stopped   *)
(* is shown stopped after the time-out, and one whose last two edges a      *)
(* worker counted is shown turning.  (tacho_monitor.py:155, :170-172 and    *)
(* domain/tacho.py:120-133: the reset of the estimator, pauses, bounces.)   *)
(* A supply seen low stays signalled until it is seen good.                 *)
FeedbackTrue ==
  /\ \A l \in Lines :
       LET c == channel[l]
       IN /\ Turning(c) => \E e \in turned[l] : moment - e <= EdgeTimeout
          /\ Turning(c) /\ ~lost[l] =>
               \A i \in DOMAIN c.periods :
                 \E g \in Gaps(l) : g[2] - g[1] = c.periods[i] /\ g[2] <= c.last
          /\ \A g \in Gaps(l) :
               /\ c.thread = "counting" /\ c.buffer = <<>> /\ ~lost[l] /\ ~stopping
               /\ \A e \in turned[l] : e <= g[2]
               /\ g[1] > c.since /\ g[2] - g[1] \in MinPeriod..EdgeTimeout
               /\ moment - g[2] <= EdgeTimeout
               => Turning(c)
          /\ c.thread # "counting" /\ c.since # Never /\ ~stopping => MonitorSignal
  /\ UndervoltageSignal <=> lastRead = "low"

=============================================================================
