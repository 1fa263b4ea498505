---------------------------- MODULE ServicePage ----------------------------
(***************************************************************************)
(* The SERVICE page of the panel: ServiceStatusProvider asks one source    *)
(* after the other (web/service_status.py) and sums them up in tiles; the  *)
(* browser polls it and keeps what it drew when a poll fails               *)
(* (service-dashboard.js).                                                 *)
(*                                                                         *)
(* A source is good, bad, or gone (no answer, or it does not report):      *)
(* alerts are bad when one is critical, the AI server and the telemetry    *)
(* unit when they do not run.                                              *)
(***************************************************************************)
EXTENDS Naturals

CONSTANTS MaxChanges,    \* changes of the sources explored
          NoTiles

ASSUME ServicePageAssumption == MaxChanges \in Nat

InStatus == {"core", "sensor_bus", "aero", "zigbee"}
Sources == InStatus \cup {"alerts", "power", "telemetry", "ai"}
Health == {"good", "bad", "gone"}

VARIABLES
  faulty,     \* the sources that are not good, as they are
  asking,     \* what the provider asks for next, "idle" between polls
  read,       \* what it was told of the sources asked so far
  met,        \* <<source, health>> that was, since the poll began
  screen,     \* [connection, tiles, during]: the page, "during" is met of its poll
  changes     \* changes left

pageVars == <<faulty, asking, read, met, screen, changes>>

HealthOf(s) == IF s \in DOMAIN faulty THEN faulty[s] ELSE "good"

With(f, s, value) == [x \in DOMAIN f \cup {s} |-> IF x = s THEN value ELSE f[x]]
Without(f, s) == [x \in DOMAIN f \ {s} |-> f[x]]
NoneAt == [s \in {} |-> "good"]

PageInit ==
  /\ \/ faulty = NoneAt
     \/ \E s \in Sources : faulty = With(NoneAt, s, "bad")
  /\ asking = "idle" /\ read = NoneAt /\ met = {}
  /\ screen = [connection |-> "none", tiles |-> NoTiles, during |-> {}]
  /\ changes = MaxChanges

SourceChanges(s, h) ==
  /\ changes > 0 /\ changes' = changes - 1
  /\ HealthOf(s) # h
  /\ s = "ai" => h # "gone"
  /\ faulty' = IF h = "good" THEN Without(faulty, s) ELSE With(faulty, s, h)
  /\ met' = IF asking = "idle" THEN met ELSE met \cup {<<s, h>>}
  /\ UNCHANGED <<asking, read, screen>>

-----------------------------------------------------------------------------
(* get_snapshot, a request after the other. *)

PollStarts ==
  /\ asking = "idle"
  /\ asking' = "core" /\ read' = NoneAt /\ met' = {<<s, HealthOf(s)>> : s \in Sources}
  /\ UNCHANGED <<faulty, screen, changes>>

AskStatus ==
  /\ asking = "core"
  /\ IF HealthOf("core") = "gone"
       THEN asking' = "power" /\ read' = read
       ELSE asking' = "alerts" /\ read' = [s \in InStatus |-> HealthOf(s)]
  /\ UNCHANGED <<faulty, met, screen, changes>>

AskAlerts ==
  /\ asking = "alerts" /\ asking' = "power"
  /\ read' = IF HealthOf("core") = "gone" THEN read ELSE With(read, "alerts", HealthOf("alerts"))
  /\ UNCHANGED <<faulty, met, screen, changes>>

(* Power, units and network: each is asked for itself. *)
AskSource(s, next) ==
  /\ asking = s /\ asking' = next
  /\ read' = With(read, s, HealthOf(s))
  /\ UNCHANGED <<faulty, met, screen, changes>>

AskRest ==
  \/ AskSource("power", "telemetry") \/ AskSource("telemetry", "ai") \/ AskSource("ai", "summary")

Reads(s, h) == s \in DOMAIN read /\ read[s] = h

(* state_from_bool; what was not read is not known. *)
Tile(s) == CASE Reads(s, "good") -> "ok"
             [] Reads(s, "bad") -> "warning"
             [] OTHER -> "unavailable"

(* _summary *)
Tiles ==
  [system |-> IF Reads("power", "bad") THEN "critical" ELSE Tile("power"),
   core |-> IF "core" \notin DOMAIN read \/ Reads("alerts", "bad") THEN "critical" ELSE Tile("core"),
   dac |-> Tile("core"),
   sensor_bus |-> Tile("sensor_bus"),
   aero |-> Tile("aero"),
   zigbee |-> Tile("zigbee"),
   ai |-> Tile("ai"),
   telemetry |-> IF Reads("telemetry", "good") THEN "ok" ELSE "warning"]

(* renderSnapshot *)
Draw ==
  /\ asking = "summary" /\ asking' = "idle"
  /\ screen' = [connection |-> "good", tiles |-> Tiles, during |-> met]
  /\ UNCHANGED <<faulty, read, met, changes>>

(* get_snapshot raises: the page is cleared. *)
SnapshotRaises ==
  /\ asking # "idle" /\ asking' = "idle"
  /\ screen' = [screen EXCEPT !.connection = "bad", !.tiles = NoTiles]
  /\ UNCHANGED <<faulty, read, met, changes>>

(* No answer: the tiles stay, under a line that says so. *)
PollFails ==
  /\ asking # "idle" /\ asking' = "idle"
  /\ screen' = [screen EXCEPT !.connection = "bad"]
  /\ UNCHANGED <<faulty, read, met, changes>>

PageNext ==
  \/ \E s \in Sources, h \in Health : SourceChanges(s, h)
  \/ PollStarts \/ AskStatus \/ AskAlerts \/ AskRest \/ Draw \/ SnapshotRaises \/ PollFails

-----------------------------------------------------------------------------
SourceOf(t) == CASE t = "system" -> "power" [] t = "dac" -> "core" [] OTHER -> t

(* A tile under a good connection was true at some moment of its poll: "ok" *)
(* only if the source was good, "warning" and "critical" only if it was     *)
(* bad or gone, so that a fault that lasted through the poll is on show.    *)
(* The one exception is in the code: while the alerts cannot be asked, the  *)
(* core tile is "ok" whether or not a critical alert stands.                *)
TilesTrue ==
  screen.connection = "good" =>
    LET Was(s, h) == <<s, h>> \in screen.during
    IN /\ \A t \in DOMAIN screen.tiles :
            CASE screen.tiles[t] = "ok" -> Was(SourceOf(t), "good")
              [] screen.tiles[t] = "unavailable" -> Was(SourceOf(t), "gone") \/ Was("core", "gone")
              [] OTHER -> \/ Was(SourceOf(t), "bad") \/ Was(SourceOf(t), "gone")
                          \/ t = "core" /\ Was("alerts", "bad")
       /\ screen.tiles.core = "ok" =>
            Was("alerts", "good") \/ Was("alerts", "gone") \/ Was("core", "gone")
=============================================================================
