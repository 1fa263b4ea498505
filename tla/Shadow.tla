------------------------------- MODULE Shadow -------------------------------
(***************************************************************************)
(* The SHADOW evaluator (shadow_controller.py) and its thresholds          *)
(* (shadow_policy.py): what the controller would set for a zone, from the  *)
(* readings of its node, the schedule and the safety state.  It is a pure  *)
(* function of the core's state and of a tuning, which is read once at the *)
(* start; it moves nothing.                                                *)
(***************************************************************************)
EXTENDS Integers, FiniteSets

CONSTANTS Absent,     \* a reading or a tuning value that is not there
          Readings,   \* records of pm, voc, nox and temperature
          Tunings     \* tunings that the start may find

(* A number, or none. *)
Quantity == Int \cup {Absent}
Bands == {"NORMAL", "LIMITING", "MINIMUM", "PROTECTION"}
Levels == 0..3  \* AirQualityLevel: NORMAL, BOOST, HIGH, MAX

(* Every reading is a number or is not there, and so is every value of a    *)
(* tuning.                                                                  *)
ASSUME ShadowAssumption ==
  /\ Absent \notin Int
  /\ Readings \subseteq [pm : Quantity, voc : Quantity, nox : Quantity, temperature : Quantity]
  /\ Tunings \subseteq [air : [Levels -> Quantity], limit : [Bands -> Quantity],
                        aero : [Levels -> Quantity], bias : Quantity, dynamics : BOOLEAN]

VARIABLE tuning       \* the tuning in force

Kinds == {"fans", "aero"}
Normal == 0

(* classify_pm2_5, classify_nox: strict thresholds. *)
Strict(v, boost, high, max) ==
  IF v = Absent THEN Absent
  ELSE IF v > max THEN 3 ELSE IF v > high THEN 2 ELSE IF v > boost THEN 1 ELSE 0

(* classify_voc: contiguous ranges. *)
Contiguous(v, boost, high, max) ==
  IF v = Absent THEN Absent
  ELSE IF v > max THEN 3 ELSE IF v >= high THEN 2 ELSE IF v >= boost THEN 1 ELSE 0

LevelOf(input, r) ==
  CASE input = "PM2_5" -> Strict(r.pm, 15, 25, 50)
    [] input = "VOC" -> Contiguous(r.voc, 150, 200, 300)
    [] input = "NOX" -> Strict(r.nox, 10, 50, 100)

Inputs == {"PM2_5", "VOC", "NOX"}
Available(r) == {i \in Inputs : LevelOf(i, r) # Absent}

(* Mutant of AirLevel: the first input that is there decides. *)
FirstLevel(r) ==
  IF Available(r) = {} THEN Absent
  ELSE IF "PM2_5" \in Available(r) THEN LevelOf("PM2_5", r)
  ELSE IF "VOC" \in Available(r) THEN LevelOf("VOC", r) ELSE LevelOf("NOX", r)

(* classify_air_quality: the worst of the inputs that are there. *)
AirLevel(r) ==
  IF Available(r) = {} THEN Absent
  ELSE CHOOSE l \in {LevelOf(i, r) : i \in Available(r)} :
         \A i \in Available(r) : LevelOf(i, r) <= l

(* classify_temperature *)
Band(t) ==
  IF t = Absent THEN "UNKNOWN"
  ELSE IF t > 20 THEN "NORMAL" ELSE IF t >= 18 THEN "LIMITING"
  ELSE IF t >= 16 THEN "MINIMUM" ELSE "PROTECTION"

(* ShadowOutputTuning: air[level] and limit[band] in percent, aero[level],  *)
(* the extract's bias, and whether the dynamics are set.                    *)
Rising(f) == (\A l \in Levels : f[l] # Absent) => \A k, l \in Levels : k <= l => f[k] <= f[l]
Falling(f) ==
  (\A b \in Bands : f[b] # Absent) =>
    f["NORMAL"] >= f["LIMITING"] /\ f["LIMITING"] >= f["MINIMUM"] /\ f["MINIMUM"] >= f["PROTECTION"]

Ranged(t) ==
  /\ \A l \in Levels : t.air[l] \in (0..100) \cup {Absent} /\ t.aero[l] \in (0..3) \cup {Absent}
  /\ \A b \in Bands : t.limit[b] \in (0..100) \cup {Absent}
  /\ t.bias \in (0..100) \cup {Absent}

(* __post_init__ *)
ValidTuning(t) == Ranged(t) /\ Rising(t.air) /\ Falling(t.limit) /\ Rising(t.aero)

(* The defaults: nothing is tuned, and nothing but the defaults is in use    *)
(* yet.                                                                      *)
Untuned == [air |-> [l \in Levels |-> Absent], limit |-> [b \in Bands |-> Absent],
            aero |-> [l \in Levels |-> Absent], bias |-> Absent, dynamics |-> FALSE]

(* A tuning out of range or not monotonic stops the start. *)
ShadowInit == tuning \in {t \in Tunings : ValidTuning(t)}

FansConfigured(t) ==
  t.bias # Absent /\ (\A l \in Levels : t.air[l] # Absent) /\ (\A b \in Bands : t.limit[b] # Absent)
AeroConfigured(t) == \A l \in Levels : t.aero[l] # Absent

Least2(a, b) == IF a <= b THEN a ELSE b

(* air_request_pct, temperature_limit_pct and aero_speed: a level or a band  *)
(* that is not known has none.                                               *)
AirRequest(level, t) == IF level = Absent THEN Absent ELSE t.air[level]
TemperatureLimit(band, t) == IF band \in Bands THEN t.limit[band] ELSE Absent
AeroSpeed(level, t) == IF level = Absent THEN Absent ELSE t.aero[level]

Supply(level, band, t) ==
  LET request == AirRequest(level, t)  limit == TemperatureLimit(band, t)
  IN IF request # Absent /\ level = Normal /\ limit # Absent
       THEN Least2(request, limit)
       ELSE request

Extract(supply, t) ==
  IF supply = Absent THEN Absent
  ELSE Least2(100, supply + (IF t.bias = Absent THEN 0 ELSE t.bias))

(* _control_reason; the driver of the air's level is left out. *)
Reason(level, band, usable, expectation, blocked) ==
  IF blocked THEN "safety"
  ELSE IF expectation = "UNKNOWN" THEN "schedule"
  ELSE IF ~usable THEN "sensor"
  ELSE IF level = Absent THEN "air_unknown"
  ELSE IF band = "UNKNOWN" THEN "temperature_unknown"
  ELSE IF level # Normal THEN "air"
  ELSE IF band \in {"NORMAL", "NOT_APPLICABLE"} THEN "normal" ELSE "thermal"

(* evaluate, for one zone *)
Advice(kind, r, usable, expectation, blocked, t) ==
  LET level == AirLevel(r)
      band == IF kind = "fans" THEN Band(r.temperature) ELSE "NOT_APPLICABLE"
      speaks == (FansConfigured(t) \/ AeroConfigured(t)) /\ ~blocked /\ usable
      supply == IF speaks /\ kind = "fans" THEN Supply(level, band, t) ELSE Absent
  IN [supply |-> supply, extract |-> Extract(supply, t),
      speed |-> IF speaks /\ kind = "aero" THEN AeroSpeed(level, t) ELSE Absent,
      override |-> /\ kind = "fans" /\ level # Absent /\ level # Normal
                   /\ band \in {"LIMITING", "MINIMUM", "PROTECTION"},
      degraded |-> \/ expectation = "UNKNOWN" \/ ~usable \/ level = Absent
                   \/ kind = "fans" /\ band = "UNKNOWN",
      reason |-> Reason(level, band, usable, expectation, blocked)]

Status(blocked, degraded, t) ==
  IF blocked THEN "BLOCKED_SAFETY"
  ELSE IF degraded THEN "DEGRADED"
  ELSE IF ~(FansConfigured(t) /\ AeroConfigured(t) /\ t.dynamics) THEN "TUNING_REQUIRED"
  ELSE "READY"

-----------------------------------------------------------------------------
(* The same temperature, and no input that is there is better in s. *)
Worse(r, s) ==
  /\ \A i \in {"pm", "voc", "nox"} : IF r[i] = Absent THEN s[i] = Absent ELSE s[i] # Absent /\ s[i] >= r[i]
  /\ r.temperature = s.temperature

Alone(r, input) == [i \in DOMAIN r |-> IF i \in {input, "temperature"} THEN r[i] ELSE Absent]

AtLeast(a, b) == b # Absent => a # Absent /\ a >= b

Tuned(kind, t) == IF kind = "fans" THEN FansConfigured(t) ELSE AeroConfigured(t)

(* Air quality outranks temperature.  Where a kind of actuator is tuned,    *)
(* worse air never lowers what is asked of a zone, no input alone asks for  *)
(* more than all of them together, once the air is bad the temperature no   *)
(* longer matters, and the extract is never below the supply.  Whatever is  *)
(* tuned, nothing is asked of a zone that safety blocks or whose node is    *)
(* not usable, and READY says that every zone is judged by its readings.    *)
AdviceSound ==
  \A kind \in Kinds, r \in Readings :
    LET Ask(s) == Advice(kind, s, TRUE, "OCCUPIED_EXPECTED", FALSE, tuning) IN
    /\ Tuned(kind, tuning) =>
         /\ \A s \in {s \in Readings : Worse(r, s)} :
              AtLeast(Ask(s).supply, Ask(r).supply) /\ AtLeast(Ask(s).speed, Ask(r).speed)
         /\ \A input \in {"pm", "voc", "nox"} :
              AirLevel(Alone(r, input)) \notin {Absent, Normal} =>
                LET a == Ask(Alone(r, input)) IN
                AtLeast(Ask(r).supply, a.supply) /\ AtLeast(Ask(r).speed, a.speed)
         /\ AirLevel(r) \notin {Absent, Normal} =>
              \A s \in {[r EXCEPT !.temperature = q.temperature] : q \in Readings} :
                Ask(s).supply = Ask(r).supply
         /\ AtLeast(Ask(r).extract, Ask(r).supply)
    /\ \A usable, blocked \in BOOLEAN, expectation \in {"OCCUPIED_EXPECTED", "UNKNOWN"} :
         LET a == Advice(kind, r, usable, expectation, blocked, tuning) IN
         /\ blocked \/ ~usable => a.supply = Absent /\ a.extract = Absent /\ a.speed = Absent
         /\ Status(blocked, a.degraded, tuning) = "READY" => a.reason \in {"air", "normal", "thermal"}
=============================================================================
