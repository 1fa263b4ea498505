--------------------------- MODULE TelemetryHistory ---------------------------
(***************************************************************************)
(* What the Web front end shows of the telemetry: the reader's queries of  *)
(* the store the agent writes, and the series HistorySeriesService makes   *)
(* of their rows.  A query is one read of the database in whatever state   *)
(* the agent has left it.                                                  *)
(***************************************************************************)
EXTENDS Telemetry, Sequences

CONSTANTS
  Devices,  \* the Zigbee devices a sample lists: a sequence of [role, temp]
  Roles,    \* the roles a series may ask for
  NoValue,  \* a temperature that is not there
  Kept      \* how long the agent keeps each resolution, in days

\* RESOLUTION_SECONDS, and the ranges the panel offers, in seconds: RANGE_PRESETS.
Day == 86400
StepSeconds == {5, 60, 900, 3600, Day}
Presets == {3600, Day, 7 * Day, 30 * Day, 90 * Day, 365 * Day}

\* What the agent asks of its own settings, and what it sets itself
\* (TelemetryAgent, LongRangeTelemetryStore.prune_history).
RetentionAccepted ==
  /\ Kept \in [StepSeconds -> Nat]
  /\ Kept[5] >= 1 /\ Kept[60] >= 1
  /\ Kept[900] >= 1095 /\ Kept[3600] = 1825 /\ Kept[Day] = 3650

ASSUME HistoryAssumption ==
  /\ Devices \in [Seqs -> Seq([role : Roles, temp : Nat \cup {NoValue}])]
  /\ RetentionAccepted
  /\ "raw" \notin Resolutions

Greatest(S) == CHOOSE x \in S : \A y \in S : y <= x

------------------------------------------------------------------------------
(* Rollups: summarize_metrics *)

\* _flatten gives a device's values the paths devices[i].role and
\* devices[i].temperature, by its place in the list; a null is left out.
Listing(S, i) == {n \in S : i \in DOMAIN Devices[n]}
Measured(S, i) == {n \in Listing(S, i) : Devices[n][i].temp # NoValue}
Temps(S, i) == {Devices[n][i].temp : n \in Measured(S, i)}
Places(S) == UNION {DOMAIN Devices[n] : n \in S}

\* A signal: a numeric path over the samples of a bucket.
Signal(S, i) ==
  [count |-> Cardinality(Measured(S, i)), min |-> Least(Temps(S, i)),
   max |-> Greatest(Temps(S, i)), last |-> Devices[Greatest(Measured(S, i))][i].temp]

\* A state: a path that holds a string.
Neighbours(S, m, n) == m \in S /\ n \in S /\ m < n /\ ~ \E k \in S : m < k /\ k < n
StateOf(S, i) ==
  LET has == Listing(S, i)
  IN  [count |-> Cardinality(has), last |-> Devices[Greatest(has)][i].role,
       changes |-> Cardinality({n \in has : \E m \in has :
                     Neighbours(has, m, n) /\ Devices[m][i].role # Devices[n][i].role})]

------------------------------------------------------------------------------
(* Queries *)

\* ORDER BY key DESC LIMIT.
Newest(S, key, limit) == {x \in S : Cardinality({y \in S : key[x] < key[y]}) < limit}

QueryRaw(start, end, limit) ==
  LET found == {q \in rows : start <= q.at /\ q.at <= end}
  IN  Newest(found, [q \in found |-> q.seq], limit)

\* The bounds are compared as text: a bucket's "+00:00" is less than a bound's "Z",
\* so a bucket that ends when the range begins is not in it, one that starts when
\* it ends is.
QueryRollup(r, start, end, limit) ==
  LET found == {b \in rollups[r] : start < b.start + Width[r] /\ b.start <= end}
  IN  Newest(found, [b \in found |-> b.start], limit)

\* Mutant of SourceLimit: nothing for the edges.
SourceLimitBare(step, start, end) == ((end - start) + step - 1) \div step

\* _source_limit: the buckets of the range, and two for its edges.
SourceLimit(step, start, end) == ((end - start) + step - 1) \div step + 2

\* _auto_resolution: the resolution a range gets if the browser asks for none, by
\* its step in seconds.
AutoStep(span) ==
  IF span <= 7200 THEN 5
  ELSE IF span <= 2 * Day THEN 60
  ELSE IF span <= 14 * Day THEN 900
  ELSE IF span <= 120 * Day THEN 3600 ELSE Day

\* The reader's query, of the samples or of a rollup.
Query(r, start, end, limit) ==
  IF r = "raw" THEN QueryRaw(start, end, limit) ELSE QueryRollup(r, start, end, limit)

\* HistorySeriesService.query: what the browser's answer is made of.
Answer(r, start, end) ==
  Query(r, start, end, SourceLimit(IF r = "raw" THEN 1 ELSE Width[r], start, end))

------------------------------------------------------------------------------
(* Series *)

\* _zigbee_raw_value: the first device of the sample that has the role.
PlacesOf(n, role) == {i \in DOMAIN Devices[n] : Devices[n][i].role = role}
RawValue(n, role) ==
  IF PlacesOf(n, role) = {} THEN NoValue ELSE Devices[n][Least(PlacesOf(n, role))].temp

\* _zigbee_rollup_signal: the first place whose last role it is and that has a
\* temperature.
SignalPlaces(S, role) == {i \in Places(S) : StateOf(S, i).last = role /\ Measured(S, i) # {}}

RollupPoint(b, role) ==
  LET at == SignalPlaces(b.seqs, role)
  IN  IF at = {} THEN [count |-> 0, min |-> NoValue, max |-> NoValue, last |-> NoValue]
      ELSE Signal(b.seqs, Least(at))

\* _mark_gaps: the neighbours more than two and a half steps apart.
Gaps(points, step) ==
  {gap \in points \X points :
     /\ gap[1].start < gap[2].start
     /\ ~ \E p \in points : gap[1].start < p.start /\ p.start < gap[2].start
     /\ 2 * gap[2].start > 5 * step + 2 * gap[1].start}

------------------------------------------------------------------------------
(* Properties *)

Ranges == {range \in (0..MaxClock) \X (0..MaxClock) : range[1] < range[2]}
Buckets == UNION {{[r |-> r, b |-> b] : b \in rollups[r]} : r \in Resolutions}

\* The limit "protects range edges/bucket overlap without silently truncating the
\* start": every bucket with a sample of the range is in the answer, and every raw
\* sample too, as long as the agent has kept to its interval: it was not started
\* again and the clock was not set back (history_series._source_limit,
\* history._query_rollup, history._query_raw).
QueryComplete ==
  \A range \in Ranges :
    /\ \A r \in Resolutions : \A b \in rollups[r] :
         (\E t \in taken : t.seq \in b.seqs /\ range[1] <= t.at /\ t.at <= range[2])
           => b \in Answer(r, range[1], range[2])
    /\ faults = 0 /\ range[2] < MaxClock =>
         {q \in rows : range[1] <= q.at /\ q.at <= range[2]}
           = Answer("raw", range[1], range[2])

\* The temperatures of a role in a rollup are readings of that role, if no device
\* changed its place in the list within the bucket: the places are all the rollup
\* knows devices by (rollup._flatten, history_series._zigbee_rollup_signal).
RoleSeriesFaithful ==
  \A x \in Buckets, role \in Roles :
    LET S == x.b.seqs
        point == RollupPoint(x.b, role)
        readings == {RawValue(n, role) : n \in S} \ {NoValue}
        alone == \A n \in S : Cardinality(PlacesOf(n, role)) <= 1
    IN  /\ alone
        /\ \A i \in Places(S) : StateOf(S, i).changes = 0
        => IF point.count = 0 THEN readings = {}
           ELSE {point.min, point.max, point.last} \subseteq readings

\* A gap in a series of rollups is a time without samples: between its two points
\* nothing was captured in time (history_series._mark_gaps, store._build_resolution).
GapsAreEmpty ==
  \A r \in Resolutions : \A gap \in Gaps(Answer(r, 0, MaxClock), Width[r]), t \in taken :
    t.seq \notin late => ~(gap[1].start + Width[r] <= t.at /\ t.at < gap[2].start)

\* A range the panel offers is answered: the resolution it gets fits the reader's
\* limit and is kept for as long as the range is, whatever retention the agent was
\* given (history_series._auto_resolution, RANGE_PRESETS, MAX_SOURCE_SAMPLES,
\* LongRangeTelemetryStore).  A range the browser makes up may not be: two days at
\* one minute are more than the limit.
PresetsAnswered ==
  \A span \in Presets :
    SourceLimit(AutoStep(span), 0, span) <= 2500 /\ Kept[AutoStep(span)] * Day >= span

\* Together: the history shows what was captured, of whom it was captured, and its
\* gaps are times without samples.
HistoryFaithful == PresetsAnswered /\ QueryComplete /\ RoleSeriesFaithful /\ GapsAreEmpty
==============================================================================
