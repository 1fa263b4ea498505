------------------------------ MODULE Schedule ------------------------------
(***************************************************************************)
(* The weekly schedule of the zones: windows (domain/schedule.py), their   *)
(* replacement by a client (schedule_controller.py) and the table they are *)
(* kept in (sqlite_schedule_store.py).                                     *)
(*                                                                         *)
(* A week of Days days of DayLength minutes; local time is a minute of the *)
(* week.  The schedule is evaluated afresh whenever the state is asked     *)
(* for, so that evaluation is an operator, not an action.                  *)
(***************************************************************************)
EXTENDS Integers, Sequences, FiniteSets

CONSTANTS Zones, Days, DayLength,
          Expectations,   \* of a window
          MaxWindows,     \* windows in one replacement
          MaxEdits        \* replacements explored

ASSUME ScheduleAssumption ==
  /\ Days \in Nat \ {0, 1} /\ DayLength \in Nat \ {0, 1}
  /\ MaxWindows \in Nat /\ MaxEdits \in Nat
  /\ {"UNKNOWN", "UNOCCUPIED_EXPECTED"} \cap Expectations = {}

VARIABLES
  table,    \* per zone: the windows in the database
  store,    \* "fit", or "failing": the database cannot be read or written
  edits     \* replacements left

scheduleVars == <<table, store, edits>>

Minutes == 0..(DayLength - 1)
Week == Days * DayLength
Instants == 0..(Week - 1)

(* ScheduleWindow.__post_init__ *)
Windows == {w \in [weekday : 1..Days, start : Minutes, end : Minutes,
                   expectation : Expectations, enabled : BOOLEAN] : w.start # w.end}
Configurations == UNION {[1..k -> Windows] : k \in 0..MaxWindows}

ScheduleTypeOK ==
  /\ table \in [Zones -> Configurations]
  /\ store \in {"fit", "failing"} /\ edits \in 0..MaxEdits

ScheduleInit ==
  /\ table = [z \in Zones |-> <<>>]
  /\ store = "fit" /\ edits = MaxEdits

-----------------------------------------------------------------------------
(* matches *)
WeekdayAt(t) == t \div DayLength + 1
MinuteAt(t) == t % DayLength
NextDay(d) == IF d = Days THEN 1 ELSE d + 1

Matches(w, t) ==
  /\ w.enabled
  /\ IF w.end > w.start
       THEN WeekdayAt(t) = w.weekday /\ w.start <= MinuteAt(t) /\ MinuteAt(t) < w.end
       ELSE \/ WeekdayAt(t) = w.weekday /\ MinuteAt(t) >= w.start
            \/ WeekdayAt(t) = NextDay(w.weekday) /\ MinuteAt(t) < w.end

(* Mutant of WeekSegments: a window over the end of the week is not split. *)
UnsplitSegments(w) ==
  LET start == (w.weekday - 1) * DayLength + w.start
      end == (w.weekday - 1) * DayLength + w.end
               + (IF w.end <= w.start THEN DayLength ELSE 0)
  IN IF w.enabled THEN {<<start, end>>} ELSE {}

(* week_segments *)
WeekSegments(w) ==
  LET start == (w.weekday - 1) * DayLength + w.start
      end == (w.weekday - 1) * DayLength + w.end
               + (IF w.end <= w.start THEN DayLength ELSE 0)
  IN IF ~w.enabled THEN {}
     ELSE IF end <= Week THEN {<<start, end>>}
     ELSE {<<start, Week>>, <<0, end - Week>>}

(* validate_windows, of one zone: segments of two windows that overlap. *)
Overlapping(config) ==
  \E i, j \in DOMAIN config :
    /\ i # j
    /\ \E s \in WeekSegments(config[i]), u \in WeekSegments(config[j]) :
         s[1] < u[2] /\ u[1] < s[2]

-----------------------------------------------------------------------------
(* CoreScheduleManager.replace_zone: a refused replacement changes nothing, *)
(* one that fails in the transaction is rolled back.  (What was committed   *)
(* is read back for the answer: a store that fails there tells the client   *)
(* of an error though the replacement stands.)                              *)
ReplaceZone(z, config) ==
  /\ edits > 0 /\ edits' = edits - 1
  /\ IF Overlapping(config) \/ store = "failing"
       THEN UNCHANGED table
       ELSE table' = [table EXCEPT ![z] = config]
  /\ UNCHANGED store

StoreFails == store = "fit" /\ store' = "failing" /\ UNCHANGED <<table, edits>>
StoreRecovers == store = "failing" /\ store' = "fit" /\ UNCHANGED <<table, edits>>

ScheduleNext ==
  \/ \E z \in Zones, config \in Configurations :
       ReplaceZone(z, config)
  \/ StoreFails \/ StoreRecovers

-----------------------------------------------------------------------------
Matching(z, t) == {i \in DOMAIN table[z] : Matches(table[z][i], t)}

(* current_state: any error makes every zone UNKNOWN. *)
Broken(t) ==
  \/ store = "failing"
  \/ \E z \in Zones : Overlapping(table[z]) \/ Cardinality(Matching(z, t)) > 1

Expectation(z, t) ==
  IF Broken(t) THEN "UNKNOWN"
  ELSE IF Matching(z, t) = {} THEN "UNOCCUPIED_EXPECTED"
  ELSE table[z][CHOOSE i \in Matching(z, t) : TRUE].expectation

-----------------------------------------------------------------------------
(* What a window means: from its start, as many minutes as it is long, over *)
(* midnight and over the end of the week.                                   *)
Covered(w) ==
  LET length == (w.end - w.start + DayLength) % DayLength
      start == (w.weekday - 1) * DayLength + w.start
  IN IF w.enabled THEN {(start + k) % Week : k \in 0..(length - 1)} ELSE {}

(* At every minute of the week a zone has the expectation of the one window *)
(* that covers it, or UNOCCUPIED if there is none, and UNKNOWN only while   *)
(* the table cannot be read: what validation lets in never meets in one     *)
(* minute when it is evaluated.                                             *)
ScheduleIsExact ==
  /\ \A z \in Zones, t \in Instants :
       LET covering == {i \in DOMAIN table[z] : t \in Covered(table[z][i])} IN
       IF store = "failing" THEN Expectation(z, t) = "UNKNOWN"
       ELSE IF covering = {} THEN Expectation(z, t) = "UNOCCUPIED_EXPECTED"
       ELSE \E i \in covering : covering = {i} /\ Expectation(z, t) = table[z][i].expectation
  /\ \A z \in Zones : \A i, j \in DOMAIN table[z] :
       i # j => Covered(table[z][i]) \cap Covered(table[z][j]) = {}
=============================================================================
