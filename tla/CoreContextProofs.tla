------------------------- MODULE CoreContextProofs -------------------------
(***************************************************************************)
(* What the parts around the control guarantee for every value of their   *)
(* constants.                                                              *)
(*                                                                         *)
(* The schedule: what a window's segments cover, what matches it and what  *)
(* it means are one test of the time (Within), and validated windows are   *)
(* apart.  The removal: while nothing crosses, the dialog is that of the   *)
(* removal under way (Undisturbed).  The sensor: no row is newer than what *)
(* was sent, and a connected monitor knows what the bridge remembers       *)
(* (RowInv, AirInv).  The bus: of a live worker the core is one state      *)
(* behind at most (Followed).  The reports: whatever is held of them is of *)
(* an analysis that was made (ReportsInv).  The SERVICE page: what the     *)
(* poll was told was so during it (Told).  The policy: one in use was      *)
(* validated.  The advice: each step of it rises with its input.  The      *)
(* feedback: the periods kept are gaps of the fan (OnLine).  The journal:  *)
(* a list covers its day down to its cursor (Covers).  The registry of the *)
(* Zigbee roles: the last inventory on its way is the network's            *)
(* (Arriving), and what a command found is still so until a step overtakes *)
(* it (Captures, Gone).                                                    *)
(***************************************************************************)
EXTENDS CoreContext, FiniteSetTheorems, TLAPS

LEMMA Numbers ==
  /\ Days \in Nat /\ Days > 1 /\ DayLength \in Nat /\ DayLength > 1
  /\ Week \in Nat /\ Week = Days * DayLength
<1>1. Days \in Nat /\ Days > 1 /\ DayLength \in Nat /\ DayLength > 1
  BY ScheduleAssumption
<1>2. Days * DayLength \in Nat
  BY <1>1
<1> QED
  BY <1>1, <1>2 DEF Week

LEMMA Division ==
  ASSUME NEW t \in Nat, NEW d \in Nat, d > 0
  PROVE  \E q \in Nat, m \in 0..(d - 1) :
           q = t \div d /\ m = t % d /\ t = d * q + m
<1>1. PICK q, m : q = t \div d /\ m = t % d
  OBVIOUS
<1>2. q \in Nat /\ m \in 0..(d - 1)
  BY <1>1
<1>3. t = d * q + m
  BY <1>1, <1>2, Z3
<1> QED
  BY <1>1, <1>2, <1>3

LEMMA Multiples ==
  ASSUME NEW k \in Int, NEW l \in Int, NEW d \in Nat, k < l
  PROVE  /\ k * d \in Int /\ l * d \in Int /\ k * d + d <= l * d
<1>1. k * d + d = (k + 1) * d
  OBVIOUS
<1>2. (k + 1) * d <= l * d
  OBVIOUS
<1> QED
  BY <1>1, <1>2

LEMMA Remainder ==
  ASSUME NEW x \in Nat, NEW d \in Nat, d > 0
  PROVE  /\ x < d => x % d = x
         /\ d <= x /\ x < d + d => x % d = x - d
  OBVIOUS

(* An instant lies in the day that it is counted to. *)
DayStart(d) == (d - 1) * DayLength

LEMMA DayTimes ==
  ASSUME NEW d \in 1..Days
  PROVE  /\ DayStart(d) \in Nat /\ DayStart(d) + DayLength <= Week
         /\ d < Days => DayStart(d + 1) = DayStart(d) + DayLength
         /\ d < Days => DayStart(d) + DayLength + DayLength <= Week
         /\ d = Days => DayStart(d) + DayLength = Week
         /\ DayStart(1) = 0
<1>1. /\ d \in Nat /\ d - 1 \in Nat /\ 0 <= d - 1 /\ d <= Days
      /\ DayLength \in Nat /\ Days \in Nat
  BY Numbers
<1>2. DayStart(d) \in Nat
  BY <1>1 DEF DayStart
<1>3. ASSUME NEW k \in Int, NEW l \in Int, k < l
      PROVE  k * DayLength \in Int /\ l * DayLength \in Int
             /\ k * DayLength + DayLength <= l * DayLength
  BY <1>1, <1>3, Multiples
<1>4. DayStart(d) + DayLength <= Week
  BY <1>1, <1>3, Numbers DEF DayStart
<1>5. d < Days => DayStart(d + 1) = DayStart(d) + DayLength
  <2>1. (d - 1) * DayLength + DayLength = d * DayLength
    BY <1>1
  <2>2. (d + 1) - 1 = d
    BY <1>1
  <2> QED
    BY <2>1, <2>2 DEF DayStart
<1>6. d < Days => DayStart(d) + DayLength + DayLength <= Week
  <2>1. d < Days => d * DayLength + DayLength <= Days * DayLength
    BY <1>1, <1>3
  <2>2. (d - 1) * DayLength + DayLength = d * DayLength
    BY <1>1
  <2> QED
    BY <1>1, <2>1, <2>2, Numbers DEF DayStart
<1>7. d = Days => DayStart(d) + DayLength = Week
  <2>1. (d - 1) * DayLength + DayLength = d * DayLength
    BY <1>1
  <2> QED
    BY <2>1, Numbers DEF DayStart
<1>8. DayStart(1) = 0
  BY Numbers DEF DayStart
<1> QED
  BY <1>2, <1>4, <1>5, <1>6, <1>7, <1>8

LEMMA DayOfInstant ==
  ASSUME NEW t \in Instants, NEW d \in 1..Days
  PROVE  /\ t \in Nat /\ t < Week /\ MinuteAt(t) \in Minutes
         /\ WeekdayAt(t) = d <=> DayStart(d) <= t /\ t < DayStart(d) + DayLength
         /\ WeekdayAt(t) = d => MinuteAt(t) = t - DayStart(d)
<1>1. t \in Nat /\ t < Week
  BY Numbers DEF Instants
<1>2. d \in Nat /\ d - 1 \in Int /\ DayLength \in Nat /\ DayLength > 0
  BY Numbers
<1>3. PICK q \in Nat, m \in 0..(DayLength - 1) :
        q = t \div DayLength /\ m = t % DayLength /\ t = DayLength * q + m
  BY <1>1, <1>2, Division
<1>4. q \in Nat /\ m \in 0..(DayLength - 1) /\ t = DayLength * q + m
  BY <1>3
<1>11. WeekdayAt(t) = q + 1 /\ MinuteAt(t) = m
  BY <1>3 DEF WeekdayAt, MinuteAt
<1>5. q < d - 1 => q * DayLength + DayLength <= DayStart(d)
  BY <1>2, <1>4, Multiples DEF DayStart
<1>6. d - 1 < q => DayStart(d) + DayLength <= q * DayLength
  BY <1>2, <1>4, Multiples DEF DayStart
<1>7. DayStart(d) \in Nat /\ DayLength * q = q * DayLength /\ q * DayLength \in Nat
  BY <1>2, <1>4, DayTimes
<1>8. q = d - 1 => q * DayLength = DayStart(d)
  BY <1>2, <1>4 DEF DayStart
<1>9. MinuteAt(t) \in Minutes
  BY <1>4, <1>11 DEF Minutes
<1>10. ASSUME NEW x \in Nat, x = q * DayLength
       PROVE  /\ q + 1 = d <=> DayStart(d) <= t /\ t < DayStart(d) + DayLength
              /\ q + 1 = d => m = t - DayStart(d)
  <2>1. t = x + m
    BY <1>4, <1>7, <1>10
  <2>2. /\ q < d - 1 => x + DayLength <= DayStart(d)
        /\ d - 1 < q => DayStart(d) + DayLength <= x
        /\ q = d - 1 => x = DayStart(d)
    BY <1>5, <1>6, <1>8, <1>10
  <2> QED
    BY <1>1, <1>2, <1>4, <1>7, <2>1, <2>2
<1> QED
  BY <1>1, <1>11, <1>7, <1>9, <1>10

-----------------------------------------------------------------------------
(* Segments, matching and meaning of a window agree. *)

Length(w) == IF w.end > w.start THEN w.end - w.start ELSE w.end - w.start + DayLength
First(w) == DayStart(w.weekday) + w.start
Within(w, t) ==
  IF First(w) + Length(w) <= Week THEN First(w) <= t /\ t < First(w) + Length(w)
  ELSE First(w) <= t \/ t < First(w) + Length(w) - Week
InSegments(w, t) == \E s \in WeekSegments(w) : s[1] <= t /\ t < s[2]

LEMMA WindowTimes ==
  ASSUME NEW w \in Windows
  PROVE  /\ w.weekday \in 1..Days /\ w.enabled \in BOOLEAN
         /\ w.start \in Nat /\ w.start < DayLength /\ w.end \in Nat /\ w.end < DayLength
         /\ w.start # w.end
         /\ Length(w) \in Nat /\ 0 < Length(w) /\ Length(w) < DayLength
         /\ First(w) \in Nat /\ First(w) < Week
         /\ DayLength \in Nat /\ DayLength <= Week /\ Week \in Nat
<1>1. /\ w.weekday \in 1..Days /\ w.enabled \in BOOLEAN
      /\ w.start \in Minutes /\ w.end \in Minutes /\ w.start # w.end
  BY DEF Windows
<1>2. /\ w.start \in Nat /\ w.start < DayLength /\ w.end \in Nat /\ w.end < DayLength
      /\ DayLength \in Nat /\ Week \in Nat
  BY <1>1, Numbers DEF Minutes
<1>3. DayStart(w.weekday) \in Nat /\ DayStart(w.weekday) + DayLength <= Week
  BY <1>1, DayTimes
<1> QED
  BY <1>1, <1>2, <1>3 DEF Length, First

LEMMA SegmentsAreTimes ==
  ASSUME NEW w \in Windows, NEW t \in Instants
  PROVE  /\ InSegments(w, t) <=> w.enabled /\ Within(w, t)
         /\ \A s \in WeekSegments(w) : s[1] \in Int /\ s[2] \in Int
<1>1. t \in Nat /\ t < Week
  BY Numbers DEF Instants
<1> DEFINE a == (w.weekday - 1) * DayLength + w.start
           e == (w.weekday - 1) * DayLength + w.end
                  + (IF w.end <= w.start THEN DayLength ELSE 0)
<1>2. e = First(w) + Length(w) /\ a = First(w)
  <2>1. DayStart(w.weekday) \in Nat
    BY WindowTimes, DayTimes
  <2>2. e = DayStart(w.weekday) + w.end + (IF w.end <= w.start THEN DayLength ELSE 0)
    BY DEF DayStart
  <2>3. First(w) = DayStart(w.weekday) + w.start /\ a = First(w)
    BY DEF First, DayStart
  <2>4. w.end \in Nat /\ w.start \in Nat /\ DayLength \in Nat /\ w.end # w.start
    BY WindowTimes
  <2> HIDE DEF a, e
  <2> QED
    BY <2>1, <2>2, <2>3, <2>4 DEF Length
<1>3. /\ ~w.enabled => WeekSegments(w) = {}
      /\ w.enabled /\ e <= Week => WeekSegments(w) = {<<a, e>>}
      /\ w.enabled /\ ~(e <= Week) => WeekSegments(w) = {<<a, Week>>, <<0, e - Week>>}
  BY Zenon DEF WeekSegments
<1> HIDE DEF a, e
<1>4. /\ e <= Week => (Within(w, t) <=> a <= t /\ t < e)
      /\ ~(e <= Week) => (Within(w, t) <=> a <= t \/ t < e - Week)
  BY <1>1, <1>2, WindowTimes DEF Within
<1>5. ASSUME ~w.enabled
      PROVE  InSegments(w, t) <=> w.enabled /\ Within(w, t)
  BY <1>3, <1>5 DEF InSegments
<1>6. ASSUME w.enabled /\ e <= Week
      PROVE  InSegments(w, t) <=> w.enabled /\ Within(w, t)
  <2>1. WeekSegments(w) = {<<a, e>>}
    BY <1>3, <1>6
  <2>2. InSegments(w, t) <=> a <= t /\ t < e
    BY <2>1 DEF InSegments
  <2> QED
    BY <1>4, <1>6, <2>2
<1>7. ASSUME w.enabled /\ ~(e <= Week)
      PROVE  InSegments(w, t) <=> w.enabled /\ Within(w, t)
  <2>1. WeekSegments(w) = {<<a, Week>>, <<0, e - Week>>}
    BY <1>3, <1>7
  <2>2. InSegments(w, t) <=> (a <= t /\ t < Week) \/ (0 <= t /\ t < e - Week)
    BY <2>1 DEF InSegments
  <2> QED
    BY <1>1, <1>4, <1>7, <2>2
<1>8. a \in Int /\ e \in Int /\ Week \in Int
  BY <1>2, WindowTimes
<1>9. ASSUME NEW s \in WeekSegments(w)
      PROVE  s[1] \in Int /\ s[2] \in Int
  <2>1. s \in {<<a, e>>, <<a, Week>>, <<0, e - Week>>}
    BY <1>3, WindowTimes
  <2> QED
    BY <1>8, <2>1
<1> QED
  BY <1>5, <1>6, <1>7, <1>9, WindowTimes

LEMMA CoveredTimes ==
  ASSUME NEW w \in Windows, NEW t \in Instants
  PROVE  t \in Covered(w) <=> w.enabled /\ Within(w, t)
<1>1. t \in Nat /\ t < Week
  BY Numbers DEF Instants
<1> DEFINE L == Length(w)
           A == First(w)
<1>2. (w.end - w.start + DayLength) % DayLength = L
  <2>1. PICK x : x = w.end - w.start + DayLength
    OBVIOUS
  <2>2. /\ x \in Nat /\ DayLength \in Nat /\ DayLength > 0
        /\ w.end > w.start => DayLength <= x /\ x < DayLength + DayLength
                              /\ x - DayLength = w.end - w.start
        /\ ~(w.end > w.start) => x < DayLength
    BY <2>1, WindowTimes
  <2>3. x % DayLength = IF w.end > w.start THEN x - DayLength ELSE x
    BY <2>2, Remainder
  <2> QED
    BY <2>1, <2>2, <2>3 DEF Length
<1>3. (w.weekday - 1) * DayLength + w.start = A
  BY DEF First, DayStart
<1>4. A \in Nat /\ A < Week /\ L \in Nat /\ 0 < L /\ L < Week /\ Week \in Nat
  BY WindowTimes
<1>5. Covered(w) = IF w.enabled THEN {(A + k) % Week : k \in 0..(L - 1)} ELSE {}
  BY <1>2, <1>3 DEF Covered
<1> HIDE DEF A, L
<1>6. ASSUME NEW k \in 0..(L - 1)
      PROVE  (A + k) % Week = IF A + k < Week THEN A + k ELSE A + k - Week
  <2>1. A + k \in Nat /\ A + k < Week + Week
    BY <1>4
  <2> QED
    BY <1>4, <2>1, Remainder
<1>7. Within(w, t) <=> IF A + L <= Week THEN A <= t /\ t < A + L
                                        ELSE A <= t \/ t < A + L - Week
  BY DEF Within, A, L
<1>8. ASSUME NEW k \in 0..(L - 1), t = (A + k) % Week
      PROVE  Within(w, t)
  BY <1>1, <1>4, <1>6, <1>7, <1>8
<1>9. ASSUME Within(w, t)
      PROVE  \E k \in 0..(L - 1) : t = (A + k) % Week
  <2>1. CASE A <= t /\ t < A + L
    <3>1. t - A \in 0..(L - 1) /\ A + (t - A) = t
      BY <1>1, <1>4, <2>1
    <3>2. t = (A + (t - A)) % Week
      BY <1>1, <1>6, <3>1
    <3> QED
      BY <3>1, <3>2
  <2>2. CASE t < A + L - Week
    <3>1. t - A + Week \in 0..(L - 1) /\ A + (t - A + Week) = t + Week
      BY <1>1, <1>4, <2>2
    <3>2. t = (A + (t - A + Week)) % Week
      BY <1>1, <1>4, <1>6, <3>1
    <3> QED
      BY <3>1, <3>2
  <2> QED
    BY <1>1, <1>4, <1>7, <1>9, <2>1, <2>2
<1> QED
  BY <1>5, <1>8, <1>9, WindowTimes

LEMMA MatchingTimes ==
  ASSUME NEW w \in Windows, NEW t \in Instants
  PROVE  Matches(w, t) <=> w.enabled /\ Within(w, t)
<1> DEFINE d == w.weekday
           s == w.start
           e == w.end
           S == DayStart(d)
           m == MinuteAt(t)
           D == DayLength
           A == First(w)
<1>1. t \in Nat /\ t < Week /\ Week \in Nat /\ D \in Nat /\ D > 0
  BY Numbers DEF Instants
<1>2. /\ d \in 1..Days /\ s \in Nat /\ s < D /\ e \in Nat /\ e < D /\ s # e
      /\ d \in Nat /\ Days \in Nat /\ 1 \in 1..Days
  BY WindowTimes, Numbers
<1>3. S \in Nat /\ S + D <= Week
  BY <1>2, DayTimes
<1>4. /\ WeekdayAt(t) = d <=> S <= t /\ t < S + D
      /\ WeekdayAt(t) = d => m = t - S
      /\ m \in Nat
  BY <1>2, DayOfInstant DEF Minutes
<1>5. A = S + s
  BY DEF First
<1>6. Length(w) = IF e > s THEN e - s ELSE e - s + D
  BY DEF Length
<1>7. Within(w, t) <=> IF A + Length(w) <= Week THEN A <= t /\ t < A + Length(w)
                       ELSE A <= t \/ t < A + Length(w) - Week
  BY DEF Within
<1>8. Matches(w, t) <=>
        /\ w.enabled
        /\ IF e > s THEN WeekdayAt(t) = d /\ s <= m /\ m < e
           ELSE (WeekdayAt(t) = d /\ m >= s) \/ (WeekdayAt(t) = NextDay(d) /\ m < e)
  BY DEF Matches
<1>9. CASE e > s
  <2> HIDE DEF d, s, e, S, m, D, A
  <2> QED
    BY <1>1, <1>2, <1>3, <1>4, <1>5, <1>6, <1>7, <1>8, <1>9
<1>10. CASE ~(e > s) /\ d # Days
  <2>1. d + 1 \in 1..Days /\ NextDay(d) = d + 1
    BY <1>2, <1>10 DEF NextDay
  <2>2. DayStart(d + 1) = S + D /\ S + D + D <= Week
    BY <1>2, <1>10, DayTimes
  <2>3. /\ WeekdayAt(t) = NextDay(d) <=> S + D <= t /\ t < S + D + D
        /\ WeekdayAt(t) = NextDay(d) => m = t - (S + D)
    BY <2>1, <2>2, DayOfInstant
  <2> HIDE DEF d, s, e, S, m, D, A
  <2> QED
    BY <1>1, <1>2, <1>3, <1>4, <1>5, <1>6, <1>7, <1>8, <1>10, <2>2, <2>3
<1>11. CASE ~(e > s) /\ d = Days
  <2>1. NextDay(d) = 1 /\ DayStart(1) = 0 /\ S + D = Week
    BY <1>2, <1>11, DayTimes DEF NextDay
  <2>2. /\ WeekdayAt(t) = NextDay(d) <=> 0 <= t /\ t < D
        /\ WeekdayAt(t) = NextDay(d) => m = t
    BY <1>1, <1>2, <2>1, DayOfInstant
  <2> HIDE DEF d, s, e, S, m, D, A
  <2> QED
    BY <1>1, <1>2, <1>3, <1>4, <1>5, <1>6, <1>7, <1>8, <1>11, <2>1, <2>2
<1> QED
  BY <1>9, <1>10, <1>11

LEMMA CoveredInstants ==
  ASSUME NEW w \in Windows
  PROVE  Covered(w) \subseteq Instants
<1>1. ASSUME NEW x \in Int
      PROVE  x % Week \in Instants
  BY Numbers, WindowTimes DEF Instants
<1> DEFINE a == (w.weekday - 1) * DayLength + w.start
           l == (w.end - w.start + DayLength) % DayLength
<1>2. a = First(w) /\ a \in Int
  BY WindowTimes DEF First, DayStart
<1>3. l \in Int
  <2>1. PICK x : x = w.end - w.start + DayLength
    OBVIOUS
  <2>2. x \in Int /\ DayLength \in Nat /\ DayLength > 0
    BY <2>1, WindowTimes
  <2> QED
    BY <2>1, <2>2
<1>4. Covered(w) = IF w.enabled THEN {(a + k) % Week : k \in 0..(l - 1)} ELSE {}
  BY DEF Covered
<1> HIDE DEF a, l
<1>5. \A k \in 0..(l - 1) : a + k \in Int
  BY <1>2, <1>3
<1> QED
  BY <1>1, <1>4, <1>5

LEMMA WindowsOf ==
  ASSUME NEW c \in Configurations, NEW i \in DOMAIN c
  PROVE  c[i] \in Windows
  BY DEF Configurations

LEMMA WindowsApart ==
  ASSUME NEW c \in Configurations, ~Overlapping(c), NEW i \in DOMAIN c, NEW j \in DOMAIN c,
         i # j, NEW t \in Instants
  PROVE  ~(InSegments(c[i], t) /\ InSegments(c[j], t))
<1> SUFFICES ASSUME InSegments(c[i], t), InSegments(c[j], t)
             PROVE  FALSE
  OBVIOUS
<1>1. PICK s \in WeekSegments(c[i]) : s[1] <= t /\ t < s[2]
  BY DEF InSegments
<1>2. PICK u \in WeekSegments(c[j]) : u[1] <= t /\ t < u[2]
  BY DEF InSegments
<1>3. s[1] \in Int /\ s[2] \in Int /\ u[1] \in Int /\ u[2] \in Int
  BY WindowsOf, SegmentsAreTimes
<1>4. t \in Int
  BY Numbers DEF Instants
<1>5. s[1] < u[2] /\ u[1] < s[2]
  BY <1>1, <1>2, <1>3, <1>4
<1> QED
  BY <1>5 DEF Overlapping

-----------------------------------------------------------------------------
(* The schedule *)

ScheduleInv ==
  /\ table \in [Zones -> Configurations]
  /\ \A z \in Zones : ~Overlapping(table[z])

LEMMA ScheduleStarts == ScheduleInit => ScheduleInv
<1> SUFFICES ASSUME ScheduleInit
             PROVE  ScheduleInv
  OBVIOUS
<1>1. table = [z \in Zones |-> <<>>]
  BY DEF ScheduleInit
<1>2. <<>> \in Configurations
  <2>1. <<>> \in [1..0 -> Windows] /\ 0 \in 0..MaxWindows
    BY ScheduleAssumption
  <2> QED
    BY <2>1 DEF Configurations
<1>3. ~Overlapping(<<>>)
  BY DEF Overlapping
<1> QED
  BY <1>1, <1>2, <1>3 DEF ScheduleInv

LEMMA ScheduleSteps == ScheduleInv /\ [ScheduleNext]_scheduleVars => ScheduleInv'
<1> SUFFICES ASSUME ScheduleInv, [ScheduleNext]_scheduleVars
             PROVE  ScheduleInv'
  OBVIOUS
<1>1. ASSUME UNCHANGED table
      PROVE  ScheduleInv'
  BY <1>1 DEF ScheduleInv
<1>2. ASSUME NEW z \in Zones, NEW config \in Configurations, ReplaceZone(z, config)
      PROVE  ScheduleInv'
  <2>1. CASE UNCHANGED table
    BY <1>1, <2>1
  <2>2. CASE ~Overlapping(config) /\ table' = [table EXCEPT ![z] = config]
    BY <2>2 DEF ScheduleInv
  <2> QED
    BY <1>2, <2>1, <2>2 DEF ReplaceZone
<1>3. CASE StoreFails \/ StoreRecovers
  BY <1>1, <1>3 DEF StoreFails, StoreRecovers
<1>4. CASE UNCHANGED scheduleVars
  BY <1>1, <1>4 DEF scheduleVars
<1> QED
  BY <1>2, <1>3, <1>4 DEF ScheduleNext

\* At no minute do two windows of a zone match, and one matches if it covers it.
LEMMA OneMatches ==
  ASSUME ScheduleInv, NEW z \in Zones, NEW t \in Instants
  PROVE  /\ Matching(z, t) = {i \in DOMAIN table[z] : t \in Covered(table[z][i])}
         /\ \A i, j \in Matching(z, t) : i = j
         /\ Cardinality(Matching(z, t)) <= 1
         /\ Cardinality(Matching(z, t)) \in Int
<1>1. table[z] \in Configurations /\ ~Overlapping(table[z])
  BY DEF ScheduleInv
<1>2. ASSUME NEW i \in DOMAIN table[z]
      PROVE  /\ Matches(table[z][i], t) <=> t \in Covered(table[z][i])
             /\ Matches(table[z][i], t) <=> InSegments(table[z][i], t)
  BY <1>1, WindowsOf, CoveredTimes, MatchingTimes, SegmentsAreTimes
<1>3. Matching(z, t) = {i \in DOMAIN table[z] : t \in Covered(table[z][i])}
  BY <1>2 DEF Matching
<1>4. \A i, j \in Matching(z, t) : i = j
  BY <1>1, <1>2, WindowsApart DEF Matching
<1>5. CASE Matching(z, t) = {}
  BY <1>3, <1>4, <1>5, FS_EmptySet
<1>6. CASE Matching(z, t) # {}
  <2>1. PICK i : Matching(z, t) = {i}
    BY <1>4, <1>6
  <2>2. Cardinality(Matching(z, t)) = 1
    BY <2>1, FS_Singleton
  <2> QED
    BY <1>3, <1>4, <2>2
<1> QED
  BY <1>5, <1>6

LEMMA ScheduleExact == ScheduleInv => ScheduleIsExact
<1> SUFFICES ASSUME ScheduleInv
             PROVE  ScheduleIsExact
  OBVIOUS
<1>1. ASSUME NEW t \in Instants
      PROVE  Broken(t) <=> store = "failing"
  <2>1. \A z \in Zones : ~Overlapping(table[z])
    BY DEF ScheduleInv
  <2>2. \A z \in Zones : ~(Cardinality(Matching(z, t)) > 1)
    BY OneMatches
  <2>3. ~\E z \in Zones : Overlapping(table[z]) \/ Cardinality(Matching(z, t)) > 1
    BY <2>1, <2>2
  <2>4. store = "failing" => Broken(t)
    BY DEF Broken
  <2>5. Broken(t) => store = "failing"
    BY <2>3 DEF Broken
  <2> QED
    BY <2>4, <2>5
<1>2. ASSUME NEW z \in Zones, NEW t \in Instants
      PROVE  LET covering == {i \in DOMAIN table[z] : t \in Covered(table[z][i])} IN
             IF store = "failing" THEN Expectation(z, t) = "UNKNOWN"
             ELSE IF covering = {} THEN Expectation(z, t) = "UNOCCUPIED_EXPECTED"
             ELSE \E i \in covering :
                    covering = {i} /\ Expectation(z, t) = table[z][i].expectation
  <2> DEFINE covering == {i \in DOMAIN table[z] : t \in Covered(table[z][i])}
  <2>1. covering = Matching(z, t) /\ \A i, j \in covering : i = j
    BY OneMatches
  <2> HIDE DEF covering
  <2>2. ASSUME store = "failing"
        PROVE  Expectation(z, t) = "UNKNOWN"
    BY <1>1, <2>2 DEF Expectation
  <2>3. ASSUME store # "failing" /\ covering = {}
        PROVE  Expectation(z, t) = "UNOCCUPIED_EXPECTED"
    BY <1>1, <2>1, <2>3 DEF Expectation
  <2>4. ASSUME store # "failing" /\ covering # {}
        PROVE  \E i \in covering :
                 covering = {i} /\ Expectation(z, t) = table[z][i].expectation
    <3>1. PICK i \in covering : covering = {i}
      BY <2>1, <2>4
    <3>2. (CHOOSE j \in Matching(z, t) : TRUE) = i
      BY <2>1, <3>1
    <3>3. Expectation(z, t) = table[z][i].expectation
      BY <1>1, <2>1, <2>4, <3>2 DEF Expectation
    <3> QED
      BY <2>4, <3>1, <3>3
  <2>5. IF store = "failing" THEN Expectation(z, t) = "UNKNOWN"
        ELSE IF covering = {} THEN Expectation(z, t) = "UNOCCUPIED_EXPECTED"
        ELSE \E i \in covering :
               covering = {i} /\ Expectation(z, t) = table[z][i].expectation
    BY <2>2, <2>3, <2>4
  <2> QED
    BY <2>5 DEF covering
<1>3. ASSUME NEW z \in Zones, NEW i \in DOMAIN table[z], NEW j \in DOMAIN table[z], i # j
      PROVE  Covered(table[z][i]) \cap Covered(table[z][j]) = {}
  <2> SUFFICES ASSUME NEW t \in Covered(table[z][i]), t \in Covered(table[z][j])
               PROVE  FALSE
    OBVIOUS
  <2>1. table[z][i] \in Windows
    BY WindowsOf DEF ScheduleInv
  <2>2. t \in Instants
    BY <2>1, CoveredInstants
  <2>3. i \in Matching(z, t) /\ j \in Matching(z, t)
    BY <2>2, OneMatches
  <2> QED
    BY <1>3, <2>2, <2>3, OneMatches
<1> QED
  BY <1>2, <1>3 DEF ScheduleIsExact

-----------------------------------------------------------------------------
(* The dialog of a removal *)

DialogRecords == [id : Dialogs, dev : Sensors, error : BOOLEAN]
Trails == [issued : 0..MaxDialogs, of : [Dialogs -> Sensors \cup {NoDialog}],
           confirmed : SUBSET Dialogs, closed : SUBSET Dialogs,
           sent : SUBSET (Dialogs \X Sensors), crossed : BOOLEAN]

RemovalTypes ==
  /\ dialog \in DialogRecords \cup {NoDialog}
  /\ answering \in [Panels -> DialogRecords \cup {NoDialog}]
  /\ told \in [Panels -> [id : 0..MaxDialogs,
                          outcome : {"nothing", "refused", "cancelled", "removed", "failed"}]]
  /\ trail \in Trails

\* A dialog there is, or that a coroutine has captured, was issued for its device.
KnownDialog(d) == d # NoDialog => d.id \in Issued /\ trail.of[d.id] = d.dev

\* What is sent was confirmed; who is told of an end was told of a closed dialog.
Recorded ==
  /\ trail.closed \subseteq Issued /\ overdue \subseteq Issued
  /\ KnownDialog(dialog) /\ \A p \in Panels : KnownDialog(answering[p])
  /\ \A s \in trail.sent :
       s[1] \in trail.confirmed /\ s[1] \in Issued /\ trail.of[s[1]] = s[2]
  /\ \A p \in Panels :
       told[p].outcome \in {"cancelled", "removed"} => told[p].id \in trail.closed

\* As long as nothing overtook a removal: the dialog is that of the removal under way
\* and of every dialog not closed, and it is closed when it is overdue and only then.
Undisturbed ==
  /\ \A p, q \in InProgress : p = q
  /\ \A p \in InProgress :
       dialog # NoDialog /\ dialog.id = answering[p].id /\ dialog.id \notin overdue
  /\ \A id \in Issued \ trail.closed : dialog # NoDialog /\ dialog.id = id
  /\ dialog # NoDialog => (dialog.id \in overdue <=> dialog.id \in trail.closed)
  /\ \A p, q \in Panels :
       told[p].outcome = "cancelled" /\ told[q].outcome = "removed" => told[p].id # told[q].id

RemovalInv == RemovalTypes /\ Recorded /\ (~trail.crossed => Undisturbed)

LEMMA SmallSet ==
  ASSUME NEW S, \A x, y \in S : x = y
  PROVE  Cardinality(S) <= 1
<1>1. CASE S = {}
  BY <1>1, FS_EmptySet
<1>2. CASE S # {}
  <2>1. PICK x : S = {x}
    BY <1>2
  <2>2. Cardinality(S) = 1
    BY <2>1, FS_Singleton
  <2> QED
    BY <2>2
<1> QED
  BY <1>1, <1>2

LEMMA RemovalHolds == RemovalInv => RemovalAsked
<1> SUFFICES ASSUME RemovalInv
             PROVE  RemovalAsked
  OBVIOUS
<1>1. \A s \in trail.sent : s[1] \in trail.confirmed /\ trail.of[s[1]] = s[2]
  BY DEF RemovalInv, Recorded
<1>2. ASSUME ~trail.crossed
      PROVE  Cardinality(InProgress) <= 1
  BY <1>2, SmallSet DEF RemovalInv, Undisturbed
<1> QED
  BY <1>1, <1>2 DEF RemovalInv, Undisturbed, RemovalAsked

LEMMA RemovalStarts == RemovalInit => RemovalInv
<1> SUFFICES ASSUME RemovalInit
             PROVE  RemovalInv
  OBVIOUS
<1>1. MaxDialogs \in Nat /\ 0 \in 0..MaxDialogs
  BY ZigbeeRemovalAssumption
<1>2. /\ trail.issued = 0 /\ trail.sent = {} /\ trail.closed = {} /\ trail \in Trails
      /\ Issued = {}
  BY <1>1 DEF RemovalInit, Trails, Issued
<1>3. /\ dialog = NoDialog /\ \A p \in Panels : answering[p] = NoDialog
      /\ \A p \in Panels : told[p].outcome = "nothing"
      /\ InProgress = {} /\ overdue = {}
  BY DEF RemovalInit, InProgress
<1>4. RemovalTypes
  BY <1>1, <1>2 DEF RemovalInit, RemovalTypes
<1> QED
  BY <1>2, <1>3, <1>4 DEF RemovalInv, Recorded, KnownDialog, Undisturbed

LEMMA IssuedDialogs ==
  ASSUME RemovalInv
  PROVE  /\ trail \in Trails /\ MaxDialogs \in Nat /\ trail.issued \in 0..MaxDialogs
         /\ Issued \subseteq Dialogs
         /\ \A id \in Issued : id \in Nat /\ 0 < id /\ id <= trail.issued
         /\ dialog # NoDialog => dialog \in DialogRecords /\ dialog.id \in Issued
         /\ \A p \in InProgress : p \in Panels /\ answering[p] \in DialogRecords
                                  /\ answering[p] # NoDialog
  BY ZigbeeRemovalAssumption
     DEF RemovalInv, RemovalTypes, Trails, Issued, Dialogs, Recorded, KnownDialog, InProgress

LEMMA ClosingTrail ==
  ASSUME RemovalInv, NEW id \in Issued, trail' = Closing(id)
  PROVE  /\ trail' \in Trails /\ Issued' = Issued
         /\ trail'.of = trail.of /\ trail'.confirmed = trail.confirmed
         /\ trail'.sent = trail.sent /\ trail'.closed = trail.closed \cup {id}
         /\ trail'.crossed = (trail.crossed \/ InProgress # {})
  BY IssuedDialogs DEF Trails, Closing, Issued

\* The records that say what was sent, confirmed and told, when a dialog is closed.
LEMMA ClosingKeeps ==
  ASSUME RemovalInv, NEW id \in Issued, trail' = Closing(id),
         dialog' = dialog \/ dialog' = NoDialog, UNCHANGED answering,
         overdue' \subseteq overdue \cup {id},
         \/ UNCHANGED told
         \/ \E p \in Panels :
              told' = [told EXCEPT ![p] = [id |-> id, outcome |-> "cancelled"]]
  PROVE  RemovalTypes' /\ Recorded'
<1>1. /\ trail' \in Trails /\ Issued' = Issued
      /\ trail'.of = trail.of /\ trail'.confirmed = trail.confirmed
      /\ trail'.sent = trail.sent /\ trail'.closed = trail.closed \cup {id}
  BY ClosingTrail
<1>2. id \in 0..MaxDialogs
  BY IssuedDialogs DEF Dialogs
<1>3. RemovalTypes'
  BY <1>1, <1>2 DEF RemovalInv, RemovalTypes
<1>4. KnownDialog(dialog)' /\ \A p \in Panels : KnownDialog(answering[p])'
  BY <1>1 DEF RemovalInv, Recorded, KnownDialog
<1>5. \A p \in Panels :
        told'[p].outcome \in {"cancelled", "removed"} => told'[p].id \in trail'.closed
  BY <1>1 DEF RemovalInv, RemovalTypes, Recorded
<1> QED
  BY <1>1, <1>3, <1>4, <1>5 DEF RemovalInv, Recorded

LEMMA OverdueKeeps ==
  ASSUME RemovalInv, NEW id \in Issued, Overdue(id)
  PROVE  RemovalInv'
<1>1. overdue' = overdue \cup {id} /\ UNCHANGED <<dialog, answering, told>>
  BY DEF Overdue
<1>2. InProgress' = InProgress
  BY <1>1 DEF InProgress
<1>3. CASE dialog # NoDialog /\ dialog.id = id
  <2>1. trail' = Closing(id)
    BY <1>3 DEF Overdue
  <2>2. RemovalTypes' /\ Recorded'
    BY <1>1, <2>1, ClosingKeeps
  <2>3. /\ Issued' = Issued /\ trail'.closed = trail.closed \cup {id}
        /\ trail'.crossed = (trail.crossed \/ InProgress # {})
    BY <2>1, ClosingTrail
  <2>4. ASSUME ~trail'.crossed
        PROVE  Undisturbed'
    BY <1>1, <1>2, <1>3, <2>3, <2>4 DEF RemovalInv, Undisturbed
  <2> QED
    BY <2>2, <2>4 DEF RemovalInv
<1>4. CASE ~(dialog # NoDialog /\ dialog.id = id)
  <2>1. trail' = trail
    BY <1>4 DEF Overdue
  <2>2. RemovalTypes' /\ Recorded'
    BY <1>1, <2>1 DEF RemovalInv, RemovalTypes, Recorded, KnownDialog, Issued
  <2>3. ASSUME ~trail'.crossed
        PROVE  Undisturbed'
    BY <1>1, <1>2, <1>4, <2>1, <2>3 DEF RemovalInv, Undisturbed, Issued
  <2> QED
    BY <2>2, <2>3 DEF RemovalInv
<1> QED
  BY <1>3, <1>4

LEMMA AskKeeps ==
  ASSUME RemovalInv, NEW d \in Sensors, Ask(d)
  PROVE  RemovalInv'
<1> DEFINE k == trail.issued + 1
           new == [id |-> k, dev |-> d, error |-> FALSE]
<1>1. /\ dialog' = new /\ UNCHANGED <<overdue, answering, told>>
      /\ trail' = [trail EXCEPT !.issued = k, !.of[k] = d]
      /\ Current = NoDialog
  BY DEF Ask
<1>2. trail \in Trails /\ trail.issued \in 0..MaxDialogs /\ k \in Dialogs /\ k \notin Issued
      /\ k \in 0..MaxDialogs
  <2>1. trail.issued < MaxDialogs
    BY DEF Ask
  <2> QED
    BY <2>1, IssuedDialogs DEF Dialogs, Issued
<1>3. new \in DialogRecords /\ new # NoDialog /\ new.id = k /\ new.dev = d
  <2>1. new \in DialogRecords /\ new.id = k /\ new.dev = d
    BY <1>2 DEF DialogRecords
  <2>2. NoDialog \notin DialogRecords
    BY ZigbeeRemovalAssumption DEF DialogRecords, Dialogs
  <2> QED
    BY <2>1, <2>2
<1>4. /\ trail' \in Trails /\ trail'.issued = k
      /\ trail'.of = [trail.of EXCEPT ![k] = d] /\ trail'.confirmed = trail.confirmed
      /\ trail'.sent = trail.sent /\ trail'.closed = trail.closed
      /\ trail'.crossed = trail.crossed
  <2>1. trail.of \in [Dialogs -> Sensors \cup {NoDialog}]
    BY <1>2 DEF Trails
  <2>2. [trail.of EXCEPT ![k] = d] \in [Dialogs -> Sensors \cup {NoDialog}]
    BY <2>1
  <2> HIDE DEF k
  <2> QED
    BY <1>1, <1>2, <2>1, <2>2 DEF Trails
<1> HIDE DEF new
<1>5. Issued' = Issued \cup {k}
  BY <1>2, <1>4 DEF Issued
<1> HIDE DEF k
<1>6. InProgress' = InProgress
  BY <1>1 DEF InProgress
<1>7. \A i \in Issued : trail'.of[i] = trail.of[i]
  BY <1>2, <1>4, IssuedDialogs DEF Trails
<1>8. trail'.of[k] = d
  BY <1>2, <1>4 DEF Trails
<1>9. RemovalTypes'
  BY <1>1, <1>3, <1>4 DEF RemovalInv, RemovalTypes
<1>10. Recorded'
  <2>1. KnownDialog(dialog)' /\ \A p \in Panels : KnownDialog(answering[p])'
    BY <1>1, <1>3, <1>5, <1>7, <1>8 DEF RemovalInv, Recorded, KnownDialog
  <2>2. \A s \in trail'.sent :
          s[1] \in trail'.confirmed /\ s[1] \in Issued' /\ trail'.of[s[1]] = s[2]
    BY <1>4, <1>5, <1>7 DEF RemovalInv, Recorded
  <2> QED
    BY <1>1, <1>4, <1>5, <2>1, <2>2 DEF RemovalInv, Recorded
<1>11. ASSUME ~trail'.crossed
       PROVE  Undisturbed'
  <2>1. Undisturbed
    BY <1>4, <1>11 DEF RemovalInv
  <2>2. dialog = NoDialog \/ dialog.id \in overdue
    BY <1>1 DEF Current
  <2>3. InProgress = {} /\ Issued \subseteq trail.closed
    BY <2>1, <2>2 DEF Undisturbed
  <2>4. k \notin trail'.closed /\ k \notin overdue'
    BY <1>1, <1>2, <1>4 DEF RemovalInv, Recorded
  <2> QED
    BY <1>1, <1>3, <1>4, <1>5, <1>6, <2>1, <2>3, <2>4 DEF Undisturbed
<1> QED
  BY <1>9, <1>10, <1>11 DEF RemovalInv

LEMMA RefuseKeeps ==
  ASSUME RemovalInv, NEW p \in Panels, NEW id \in Issued, Refuse(p, id)
  PROVE  RemovalInv'
<1>1. /\ dialog' = Current /\ UNCHANGED <<overdue, answering, trail>>
      /\ told' = [told EXCEPT ![p] = [id |-> id, outcome |-> "refused"]]
      /\ InProgress' = InProgress /\ Issued' = Issued
  BY DEF Refuse, InProgress, Issued
<1>2. dialog' = dialog \/ (dialog' = NoDialog /\ dialog # NoDialog /\ dialog.id \in overdue)
  BY <1>1 DEF Current
<1>3. id \in 0..MaxDialogs
  BY IssuedDialogs DEF Dialogs
<1>4. RemovalTypes'
  BY <1>1, <1>2, <1>3 DEF RemovalInv, RemovalTypes
<1>5. \A q \in Panels : told'[q] = told[q] \/ told'[q].outcome = "refused"
  BY <1>1 DEF RemovalInv, RemovalTypes
<1>6. Recorded'
  BY <1>1, <1>2, <1>5 DEF RemovalInv, Recorded, KnownDialog
<1>7. ASSUME ~trail'.crossed
      PROVE  Undisturbed'
  <2>1. Undisturbed
    BY <1>1, <1>7 DEF RemovalInv
  <2>2. CASE dialog' = dialog
    BY <1>1, <1>5, <2>1, <2>2 DEF Undisturbed
  <2>3. CASE dialog' = NoDialog /\ dialog # NoDialog /\ dialog.id \in overdue
    <3>1. InProgress = {} /\ Issued \subseteq trail.closed
      BY <2>1, <2>3 DEF Undisturbed
    <3> QED
      BY <1>1, <1>5, <2>1, <2>3, <3>1 DEF Undisturbed
  <2> QED
    BY <1>2, <2>2, <2>3
<1> QED
  BY <1>4, <1>6, <1>7 DEF RemovalInv

LEMMA CancelKeeps ==
  ASSUME RemovalInv, NEW p \in Panels, NEW id \in Issued, Cancel(p, id)
  PROVE  RemovalInv'
<1>1. /\ dialog' = NoDialog /\ trail' = Closing(id) /\ UNCHANGED <<overdue, answering>>
      /\ told' = [told EXCEPT ![p] = [id |-> id, outcome |-> "cancelled"]]
      /\ InProgress' = InProgress
  BY DEF Cancel, InProgress
<1>2. dialog # NoDialog /\ dialog.id = id /\ dialog.id \notin overdue
  BY DEF Cancel, Addressed, Current
<1>3. RemovalTypes' /\ Recorded'
  BY <1>1, ClosingKeeps
<1>4. /\ Issued' = Issued /\ trail'.closed = trail.closed \cup {id}
      /\ trail'.crossed = (trail.crossed \/ InProgress # {})
  BY <1>1, ClosingTrail
<1>5. ASSUME ~trail'.crossed
      PROVE  Undisturbed'
  <2>1. Undisturbed /\ InProgress = {} /\ id \notin trail.closed
    BY <1>2, <1>4, <1>5 DEF RemovalInv, Undisturbed
  <2>2. \A q \in Panels : told[q].outcome = "removed" => told[q].id # id
    BY <2>1 DEF RemovalInv, Recorded
  <2>3. \A q \in Panels : told'[q] = IF q = p THEN [id |-> id, outcome |-> "cancelled"]
                                              ELSE told[q]
    BY <1>1 DEF RemovalInv, RemovalTypes
  <2>4. \A q, r \in Panels :
          told'[q].outcome = "cancelled" /\ told'[r].outcome = "removed" =>
            told'[q].id # told'[r].id
    BY <2>1, <2>2, <2>3 DEF Undisturbed
  <2> QED
    BY <1>1, <1>2, <1>4, <2>1, <2>4 DEF Undisturbed
<1> QED
  BY <1>3, <1>5 DEF RemovalInv

LEMMA ConfirmKeeps ==
  ASSUME RemovalInv, NEW p \in Panels, NEW id \in Issued, ConfirmRemoval(p, id)
  PROVE  RemovalInv'
<1>1. /\ UNCHANGED <<joined, overdue, dialog, told>>
      /\ answering' = [answering EXCEPT ![p] = dialog]
      /\ trail' = [trail EXCEPT !.confirmed = @ \cup {id}, !.sent = @ \cup {<<id, dialog.dev>>},
                                !.crossed = @ \/ InProgress # {}]
  BY DEF ConfirmRemoval
<1>2. dialog # NoDialog /\ dialog.id = id /\ dialog.id \notin overdue
  BY DEF ConfirmRemoval, Addressed, Current
<1>3. /\ dialog \in DialogRecords /\ id \in Dialogs /\ dialog.dev \in Sensors
      /\ trail.of[id] = dialog.dev
  BY <1>2, IssuedDialogs DEF DialogRecords, RemovalInv, Recorded, KnownDialog
<1>4. /\ trail' \in Trails /\ trail'.issued = trail.issued /\ trail'.of = trail.of
      /\ trail'.confirmed = trail.confirmed \cup {id}
      /\ trail'.sent = trail.sent \cup {<<id, dialog.dev>>} /\ trail'.closed = trail.closed
      /\ trail'.crossed = (trail.crossed \/ InProgress # {})
  <2>1. trail \in Trails
    BY IssuedDialogs
  <2>2. trail.sent \cup {<<id, dialog.dev>>} \in SUBSET (Dialogs \X Sensors)
    BY <1>3, <2>1 DEF Trails
  <2> QED
    BY <1>1, <1>3, <2>1, <2>2 DEF Trails
<1>5. Issued' = Issued
  BY <1>4 DEF Issued
<1>6. /\ answering' \in [Panels -> DialogRecords \cup {NoDialog}]
      /\ \A q \in Panels : answering'[q] = IF q = p THEN dialog ELSE answering[q]
  BY <1>1, <1>3 DEF RemovalInv, RemovalTypes
<1>7. RemovalTypes'
  BY <1>1, <1>4, <1>6 DEF RemovalInv, RemovalTypes
<1>8. Recorded'
  <2>1. KnownDialog(dialog)' /\ \A q \in Panels : KnownDialog(answering[q])'
    BY <1>1, <1>4, <1>5, <1>6 DEF RemovalInv, Recorded, KnownDialog
  <2>2. \A s \in trail'.sent :
          s[1] \in trail'.confirmed /\ s[1] \in Issued' /\ trail'.of[s[1]] = s[2]
    BY <1>3, <1>4, <1>5 DEF RemovalInv, Recorded
  <2> QED
    BY <1>1, <1>4, <1>5, <2>1, <2>2 DEF RemovalInv, Recorded
<1>9. ASSUME ~trail'.crossed
      PROVE  Undisturbed'
  <2>1. Undisturbed /\ InProgress = {}
    BY <1>4, <1>9 DEF RemovalInv
  <2>2. InProgress' = {p}
    BY <1>2, <1>6, <2>1 DEF InProgress
  <2> QED
    BY <1>1, <1>2, <1>4, <1>5, <1>6, <2>1, <2>2 DEF Undisturbed
<1> QED
  BY <1>7, <1>8, <1>9 DEF RemovalInv

\* A coroutine ends: nothing is in progress any more, unless something crossed.
LEMMA Ended ==
  ASSUME RemovalInv, NEW p \in InProgress, answering' = [answering EXCEPT ![p] = NoDialog]
  PROVE  /\ answering' \in [Panels -> DialogRecords \cup {NoDialog}]
         /\ \A q \in Panels : answering'[q] = NoDialog \/ answering'[q] = answering[q]
         /\ ~trail.crossed =>
              /\ InProgress' = {} /\ dialog # NoDialog /\ dialog.id = answering[p].id
              /\ dialog.id \notin overdue /\ dialog.id \notin trail.closed
              /\ Issued \ trail.closed \subseteq {dialog.id}
<1>1. p \in Panels
  BY IssuedDialogs
<1>2. /\ answering' \in [Panels -> DialogRecords \cup {NoDialog}]
      /\ \A q \in Panels : answering'[q] = IF q = p THEN NoDialog ELSE answering[q]
  BY <1>1 DEF RemovalInv, RemovalTypes
<1>3. ASSUME ~trail.crossed
      PROVE  InProgress' = {}
  BY <1>2, <1>3 DEF RemovalInv, Undisturbed, InProgress
<1> QED
  BY <1>2, <1>3 DEF RemovalInv, Undisturbed

LEMMA DoneKeeps ==
  ASSUME RemovalInv, NEW p \in Panels, RemovalDone(p)
  PROVE  RemovalInv'
<1> DEFINE k == answering[p].id
<1>1. /\ dialog' = NoDialog /\ answering' = [answering EXCEPT ![p] = NoDialog]
      /\ told' = [told EXCEPT ![p] = [id |-> k, outcome |-> "removed"]]
      /\ trail' = [trail EXCEPT !.closed = @ \cup {k}] /\ overdue' = overdue
      /\ p \in InProgress
  BY DEF RemovalDone, InProgress
<1>2. k \in Issued /\ k \in Dialogs /\ k \in 0..MaxDialogs
  <2>1. answering[p] # NoDialog /\ KnownDialog(answering[p])
    BY <1>1 DEF InProgress, RemovalInv, Recorded
  <2> QED
    BY <2>1, IssuedDialogs DEF KnownDialog, Dialogs
<1> HIDE DEF k
<1>3. /\ trail' \in Trails /\ trail'.issued = trail.issued /\ trail'.of = trail.of
      /\ trail'.confirmed = trail.confirmed /\ trail'.sent = trail.sent
      /\ trail'.closed = trail.closed \cup {k} /\ trail'.crossed = trail.crossed
  BY <1>1, <1>2, IssuedDialogs DEF Trails
<1>4. Issued' = Issued
  BY <1>3 DEF Issued
<1>5. \A q \in Panels : told'[q] = IF q = p THEN [id |-> k, outcome |-> "removed"] ELSE told[q]
  BY <1>1 DEF RemovalInv, RemovalTypes
<1>6. RemovalTypes'
  BY <1>1, <1>2, <1>3, Ended DEF RemovalInv, RemovalTypes
<1>7. Recorded'
  <2>1. KnownDialog(dialog)' /\ \A q \in Panels : KnownDialog(answering[q])'
    BY <1>1, <1>3, <1>4, Ended DEF RemovalInv, Recorded, KnownDialog
  <2>2. \A q \in Panels :
          told'[q].outcome \in {"cancelled", "removed"} => told'[q].id \in trail'.closed
    BY <1>3, <1>5 DEF RemovalInv, Recorded
  <2> QED
    BY <1>1, <1>2, <1>3, <1>4, <2>1, <2>2 DEF RemovalInv, Recorded
<1>8. ASSUME ~trail'.crossed
      PROVE  Undisturbed'
  <2>1. Undisturbed /\ ~trail.crossed
    BY <1>3, <1>8 DEF RemovalInv
  <2>2. /\ InProgress' = {} /\ dialog.id = k /\ k \notin trail.closed
        /\ Issued \ trail.closed \subseteq {k}
    BY <1>1, <2>1, Ended DEF k
  <2>3. \A q \in Panels : told[q].outcome = "cancelled" => told[q].id # k
    BY <2>2 DEF RemovalInv, Recorded
  <2>4. \A q, r \in Panels :
          told'[q].outcome = "cancelled" /\ told'[r].outcome = "removed" =>
            told'[q].id # told'[r].id
    BY <1>5, <2>1, <2>3 DEF Undisturbed
  <2> QED
    BY <1>1, <1>3, <1>4, <2>2, <2>4 DEF Undisturbed
<1> QED
  BY <1>6, <1>7, <1>8 DEF RemovalInv

LEMMA FailsKeeps ==
  ASSUME RemovalInv, NEW p \in Panels, NEW left \in BOOLEAN, RemovalFails(p, left)
  PROVE  RemovalInv'
<1> DEFINE d == answering[p]
           e == [d EXCEPT !.error = TRUE]
<1>1. /\ dialog' = e /\ answering' = [answering EXCEPT ![p] = NoDialog]
      /\ told' = [told EXCEPT ![p] = [id |-> d.id, outcome |-> "failed"]]
      /\ UNCHANGED <<overdue, trail>> /\ p \in InProgress
  BY DEF RemovalFails, InProgress
<1>2. /\ d \in DialogRecords /\ d.id \in Issued /\ d.id \in 0..MaxDialogs
      /\ trail.of[d.id] = d.dev
  <2>1. d # NoDialog /\ KnownDialog(d) /\ d \in DialogRecords
    BY <1>1, IssuedDialogs DEF InProgress, RemovalInv, Recorded
  <2> QED
    BY <2>1, IssuedDialogs DEF KnownDialog, Dialogs
<1>3. e \in DialogRecords /\ e # NoDialog /\ e.id = d.id /\ e.dev = d.dev
  <2>1. e \in DialogRecords /\ e.id = d.id /\ e.dev = d.dev
    BY <1>2 DEF DialogRecords
  <2>2. NoDialog \notin DialogRecords
    BY ZigbeeRemovalAssumption DEF DialogRecords, Dialogs
  <2> QED
    BY <2>1, <2>2
<1> HIDE DEF e
<1>4. Issued' = Issued
  BY <1>1 DEF Issued
<1>5. \A q \in Panels : told'[q] = told[q] \/ told'[q].outcome = "failed"
  BY <1>1 DEF RemovalInv, RemovalTypes
<1>6. RemovalTypes'
  BY <1>1, <1>2, <1>3, Ended DEF RemovalInv, RemovalTypes
<1>7. Recorded'
  <2>1. KnownDialog(dialog)' /\ \A q \in Panels : KnownDialog(answering[q])'
    BY <1>1, <1>2, <1>3, <1>4, Ended DEF RemovalInv, Recorded, KnownDialog
  <2> QED
    BY <1>1, <1>4, <1>5, <2>1 DEF RemovalInv, Recorded
<1>8. ASSUME ~trail'.crossed
      PROVE  Undisturbed'
  <2>1. Undisturbed /\ ~trail.crossed
    BY <1>1, <1>8 DEF RemovalInv
  <2>2. /\ InProgress' = {} /\ dialog # NoDialog /\ dialog'.id = dialog.id
    BY <1>1, <1>3, <2>1, Ended
  <2>3. dialog' # NoDialog
    BY <1>1, <1>3
  <2> QED
    BY <1>1, <1>4, <1>5, <2>1, <2>2, <2>3 DEF Undisturbed
<1> QED
  BY <1>6, <1>7, <1>8 DEF RemovalInv

LEMMA RemovalSteps == RemovalInv /\ [RemovalNext]_removalVars => RemovalInv'
<1> SUFFICES ASSUME RemovalInv, [RemovalNext]_removalVars
             PROVE  RemovalInv'
  OBVIOUS
<1>1. ASSUME UNCHANGED <<dialog, overdue, answering, told, trail>>
      PROVE  RemovalInv'
  BY <1>1 DEF RemovalInv, RemovalTypes, Recorded, KnownDialog, Undisturbed, InProgress, Issued
<1>2. CASE \E id \in Issued : Overdue(id)
  BY <1>2, OverdueKeeps
<1>3. CASE \E d \in Sensors : Ask(d) \/ JoinsAgain(d)
  BY <1>1, <1>3, AskKeeps DEF JoinsAgain
<1>4. CASE \E p \in Panels, id \in Issued :
             Refuse(p, id) \/ Cancel(p, id) \/ ConfirmRemoval(p, id)
  BY <1>4, RefuseKeeps, CancelKeeps, ConfirmKeeps
<1>5. CASE \E p \in Panels : RemovalDone(p) \/ \E left \in BOOLEAN : RemovalFails(p, left)
  BY <1>5, DoneKeeps, FailsKeeps
<1>6. CASE UNCHANGED removalVars
  BY <1>1, <1>6 DEF removalVars
<1> QED
  BY <1>2, <1>3, <1>4, <1>5, <1>6 DEF RemovalNext

-----------------------------------------------------------------------------
(* A sensor and the alerts about it *)

Availabilities == {"unknown", "online", "offline"}
Times == Nat \cup {NoTime}
Messages == [at : Nat, good : BOOLEAN]
RowRecords == [available : Availabilities, seen : Times, message : Times,
               messages : BOOLEAN, error : BOOLEAN]
HandledRecords == [again : BOOLEAN, sent : Times]

\* What the rows of the sensor say of the messages they were made from.
RowInv ==
  /\ role \in RowRecords /\ listed \in RowRecords /\ handled \in HandledRecords
  /\ listed.available = role.available /\ (role.messages => listed.messages)
  /\ role.seen # NoTime =>
       /\ Stamps = "text" /\ listed.seen # NoTime /\ listed.seen >= role.seen
       /\ bridge.memory # NoMessage /\ role.seen <= bridge.memory.at
  /\ role.messages =>
       /\ role.message # NoTime /\ role.message <= hour
       /\ handled.sent # NoTime /\ handled.sent <= role.message
       /\ Stamps = "text" => role.seen = handled.sent
       /\ ~handled.again => sent # NoTime /\ role.message <= sent

BridgeRecords == [up : BOOLEAN, setup : Setups, memory : Messages \cup {NoMessage}]
RetainedRecords == [bridge : {"online", "offline"}, available : Availabilities,
                    reading : Messages \cup {NoMessage}]
ClientRecords == [connected : BOOLEAN, parted : BOOLEAN, error : BOOLEAN,
                  bridge : Availabilities]

\* What the bridge remembers and the broker retains was sent, and a connected monitor
\* knows of it.
AirInv ==
  /\ hour \in Nat /\ sent \in Times /\ (sent # NoTime => sent <= hour)
  /\ bridge \in BridgeRecords /\ retained \in RetainedRecords /\ client \in ClientRecords
  /\ bridge.memory # NoMessage => sent # NoTime /\ bridge.memory.at <= sent
  /\ retained.reading # NoMessage => bridge.setup.retain /\ retained.reading = bridge.memory
  /\ retained.bridge = IF bridge.up THEN "online" ELSE "offline"
  /\ client.connected => client.bridge = retained.bridge
  /\ retained.available = "unknown" => role.available = "unknown"
  /\ client.connected /\ bridge.setup.tracked =>
       (role.available = "offline" <=> retained.available = "offline")

SensorInv == RowInv /\ AirInv

LEMMA SensorHolds == SensorInv => SilenceSignalled
<1> SUFFICES ASSUME SensorInv
             PROVE  SilenceSignalled
  OBVIOUS
<1>1. /\ StaleAfter \in Nat /\ NoTime \notin Nat /\ hour \in Nat
      /\ sent \in Nat \cup {NoTime} /\ (sent # NoTime => sent <= hour)
      /\ role.seen \in Nat \cup {NoTime} /\ role.message \in Nat \cup {NoTime}
      /\ handled.sent \in Nat \cup {NoTime} /\ listed.seen \in Nat \cup {NoTime}
      /\ role.messages \in BOOLEAN
  BY ZigbeeSensorAssumption
     DEF SensorInv, RowInv, AirInv, RowRecords, HandledRecords, Times
<1>2. role.seen # NoTime =>
        /\ Stamps = "text" /\ listed.seen # NoTime /\ listed.seen >= role.seen
        /\ sent # NoTime /\ role.seen <= sent
  <2>1. bridge.memory # NoMessage => bridge.memory.at \in Nat
    BY DEF SensorInv, AirInv, BridgeRecords, Messages
  <2> QED
    BY <1>1, <2>1 DEF SensorInv, RowInv, AirInv
<1>3. role.messages =>
        /\ role.message # NoTime /\ role.message <= hour
        /\ handled.sent # NoTime /\ handled.sent <= role.message
        /\ Stamps = "text" => role.seen = handled.sent
        /\ ~handled.again => sent # NoTime /\ role.message <= sent
  BY DEF SensorInv, RowInv
<1>4. role.messages => DataTime \in Nat /\ handled.sent <= DataTime
                       /\ (Stamps = "text" => DataTime = role.seen)
                       /\ (Stamps # "text" => DataTime = role.message)
  BY <1>1, <1>2, <1>3 DEF DataTime
<1>5. role.messages /\ Silence > StaleAfter /\ (~handled.again \/ Stamps = "text") =>
        UnavailableSignal \/ StaleSignal
  BY <1>1, <1>2, <1>3, <1>4 DEF Silence, StaleSignal
<1>6. handled.sent = sent /\ Silence <= StaleAfter => ~StaleSignal
  BY <1>1, <1>3, <1>4 DEF Silence, StaleSignal
<1>7. client.parted => (ConnectionSignal <=> ~client.connected)
  BY DEF ConnectionSignal
<1>8. client.connected => ~ConnectionSignal /\ (BridgeSignal <=> ~bridge.up)
  BY DEF ConnectionSignal, BridgeSignal, SensorInv, AirInv
<1>9. client.connected /\ bridge.setup.tracked =>
        (UnavailableSignal <=> retained.available = "offline")
  BY DEF UnavailableSignal, SensorInv, AirInv
<1>10. listed.available = role.available /\ (role.messages => listed.messages)
  BY DEF SensorInv, RowInv
<1> QED
  BY <1>1, <1>2, <1>5, <1>6, <1>7, <1>8, <1>9, <1>10 DEF SilenceSignalled

LEMMA NewRows ==
  /\ NewRow \in RowRecords /\ NoneHandled \in HandledRecords /\ NewClient \in ClientRecords
  /\ NewRow.available = "unknown" /\ NewRow.seen = NoTime /\ ~NewRow.messages
  /\ ~NewClient.connected
  BY DEF NewRow, NoneHandled, NewClient, RowRecords, HandledRecords, ClientRecords, Times,
         Availabilities

LEMMA SensorStarts ==
  ASSUME NEW setup \in Setups, SensorSetup(setup)
  PROVE  SensorInv
<1>1. /\ hour = 0 /\ sent = NoTime /\ client = NewClient
      /\ role = NewRow /\ listed = NewRow /\ handled = NoneHandled
      /\ bridge = [up |-> TRUE, setup |-> setup, memory |-> NoMessage]
      /\ retained = [bridge |-> "online", available |-> "unknown", reading |-> NoMessage]
  BY DEF SensorSetup
<1>2. RowInv
  BY <1>1, NewRows DEF RowInv
<1>3. bridge \in BridgeRecords /\ retained \in RetainedRecords
  BY <1>1 DEF BridgeRecords, RetainedRecords, Availabilities
<1>4. AirInv
  BY <1>1, <1>3, NewRows DEF AirInv, Times
<1> QED
  BY <1>2, <1>4 DEF SensorInv

\* What a message, or an availability alone, makes of the rows.
LEMMA Received ==
  ASSUME RowInv, hour \in Nat, NEW m \in Messages \cup {NoMessage},
         NEW a \in Availabilities, Receive(m, a)
  PROVE  /\ role' \in RowRecords /\ listed' \in RowRecords /\ handled' \in HandledRecords
         /\ role'.available = IF a = "unknown" THEN role.available ELSE a
         /\ listed'.available = IF a = "unknown" THEN listed.available ELSE a
         /\ m = NoMessage \/ ~(m.good /\ Stamps # "number") =>
              /\ role'.seen = role.seen /\ role'.message = role.message
              /\ role'.messages = role.messages /\ handled' = handled
         /\ m = NoMessage =>
              listed'.seen = listed.seen /\ listed'.messages = listed.messages
         /\ m # NoMessage =>
              /\ listed'.messages
              /\ listed'.seen = IF Stamps = "text" THEN m.at ELSE listed.seen
         /\ m # NoMessage /\ m.good /\ Stamps # "number" =>
              /\ role'.messages /\ role'.message = hour
              /\ role'.seen = IF Stamps = "text" THEN m.at ELSE role.seen
              /\ handled'.again = (m.at # hour) /\ handled'.sent = m.at
<1> DEFINE r == Availability(role, a)
           l == Availability(listed, a)
<1>1. role \in RowRecords /\ listed \in RowRecords /\ handled \in HandledRecords
  BY DEF RowInv
<1>2. ASSUME NEW x \in RowRecords
      PROVE  /\ Availability(x, a) \in RowRecords
             /\ Availability(x, a).available = IF a = "unknown" THEN x.available ELSE a
             /\ Availability(x, a).seen = x.seen /\ Availability(x, a).message = x.message
             /\ Availability(x, a).messages = x.messages
  BY <1>2 DEF Availability, RowRecords
<1>3. r \in RowRecords /\ l \in RowRecords
  BY <1>1, <1>2
<1>4. CASE m = NoMessage
  <2>1. role' = r /\ listed' = l /\ handled' = handled
    BY <1>4 DEF Receive
  <2> QED
    BY <1>1, <1>2, <1>4, <2>1
<1>5. CASE m # NoMessage
  <2>1. m \in Messages /\ m.at \in Nat
    BY <1>5 DEF Messages
  <2>2. /\ role' = Merged(r, m) /\ listed' = MergedByValue(l, m)
        /\ handled' = IF role'.error THEN handled ELSE [again |-> m.at # hour, sent |-> m.at]
    BY <1>5 DEF Receive
  <2>3. hour \in Times /\ m.at \in Times
    BY <2>1 DEF Times
  <2> HIDE DEF r, l
  <2>4. /\ listed' \in RowRecords /\ listed'.available = l.available /\ listed'.messages
        /\ listed'.seen = IF Stamps = "text" THEN m.at ELSE l.seen
    BY <1>3, <2>1, <2>2, <2>3 DEF MergedByValue, RowRecords, Messages
  <2>5. CASE m.good /\ Stamps # "number"
    <3>1. /\ role' \in RowRecords /\ role'.available = r.available /\ role'.messages
          /\ role'.message = hour /\ ~role'.error
          /\ role'.seen = IF Stamps = "text" THEN m.at ELSE r.seen
      BY <1>3, <2>2, <2>3, <2>5 DEF Merged, RowRecords
    <3>2. handled' = [again |-> m.at # hour, sent |-> m.at]
      BY <2>2, <3>1
    <3>3. handled' \in HandledRecords
      BY <2>3, <3>2 DEF HandledRecords
    <3> QED
      BY <1>1, <1>2, <1>5, <2>4, <2>5, <3>1, <3>2, <3>3 DEF r, l
  <2>6. CASE ~(m.good /\ Stamps # "number")
    <3>1. /\ role' \in RowRecords /\ role'.available = r.available /\ role'.error
          /\ role'.seen = r.seen /\ role'.message = r.message /\ role'.messages = r.messages
      BY <1>3, <2>2, <2>6 DEF Merged, RowRecords
    <3> QED
      BY <1>1, <1>2, <1>5, <2>2, <2>4, <2>6, <3>1 DEF r, l
  <2> QED
    BY <2>5, <2>6
<1> QED
  BY <1>4, <1>5

\* The rows stay true to the messages when a message is received, or nothing is.
LEMMA RowsKeep ==
  ASSUME SensorInv, NEW m \in Messages \cup {NoMessage}, NEW a \in Availabilities,
         Receive(m, a) \/ UNCHANGED <<role, listed, handled>>,
         hour' = hour, bridge'.setup = bridge.setup,
         sent' = sent \/ sent' = hour,
         bridge.memory # NoMessage =>
           bridge'.memory # NoMessage /\ bridge.memory.at <= bridge'.memory.at,
         bridge'.memory \in Messages \cup {NoMessage},
         m # NoMessage => m = bridge'.memory,
         m # NoMessage => sent' # NoTime /\ m.at <= sent'
  PROVE  RowInv'
<1>1. /\ hour \in Nat /\ NoTime \notin Nat /\ (sent # NoTime => sent \in Nat /\ sent <= hour)
      /\ sent' # NoTime => sent' \in Nat /\ sent' <= hour
      /\ sent # NoTime => sent' # NoTime /\ sent <= sent'
  BY ZigbeeSensorAssumption DEF SensorInv, AirInv, Times
<1>2. /\ role \in RowRecords /\ listed \in RowRecords /\ handled \in HandledRecords
      /\ role.seen \in Times /\ listed.seen \in Times /\ role.message \in Times
      /\ handled.sent \in Times
  BY DEF SensorInv, RowInv, RowRecords, HandledRecords
<1>3. /\ bridge.memory # NoMessage => bridge.memory.at \in Nat
      /\ bridge'.memory # NoMessage => bridge'.memory.at \in Nat
      /\ m # NoMessage => m.at \in Nat
  BY DEF SensorInv, AirInv, BridgeRecords, Messages
<1>4. Stamps' = Stamps
  BY DEF Stamps
<1>5. role.seen # NoTime =>
        /\ Stamps = "text" /\ listed.seen # NoTime /\ listed.seen >= role.seen
        /\ bridge.memory # NoMessage /\ role.seen <= bridge.memory.at
        /\ bridge'.memory # NoMessage /\ role.seen <= bridge'.memory.at
  BY <1>1, <1>2, <1>3 DEF SensorInv, RowInv, Times
<1>6. role.messages =>
        /\ role.message # NoTime /\ role.message <= hour
        /\ handled.sent # NoTime /\ handled.sent <= role.message
        /\ Stamps = "text" => role.seen = handled.sent
        /\ ~handled.again => sent' # NoTime /\ role.message <= sent'
  BY <1>1, <1>2 DEF SensorInv, RowInv, Times
<1>7. CASE UNCHANGED <<role, listed, handled>>
  BY <1>2, <1>4, <1>5, <1>6, <1>7 DEF SensorInv, RowInv
<1>8. CASE Receive(m, a)
  <2>1. /\ role' \in RowRecords /\ listed' \in RowRecords /\ handled' \in HandledRecords
        /\ role'.available = IF a = "unknown" THEN role.available ELSE a
        /\ listed'.available = IF a = "unknown" THEN listed.available ELSE a
    BY <1>1, <1>8, Received DEF SensorInv
  <2>2. listed'.available = role'.available
    BY <2>1 DEF SensorInv, RowInv
  <2>3. CASE m = NoMessage
    <3>1. /\ role'.seen = role.seen /\ role'.message = role.message
          /\ role'.messages = role.messages /\ handled' = handled
          /\ listed'.seen = listed.seen /\ listed'.messages = listed.messages
      BY <1>1, <1>8, <2>3, Received DEF SensorInv
    <3>2. role.messages => listed.messages
      BY DEF SensorInv, RowInv
    <3> QED
      BY <1>4, <1>5, <1>6, <2>1, <2>2, <3>1, <3>2 DEF RowInv
  <2>4. CASE m # NoMessage /\ m.good /\ Stamps # "number"
    <3>1. /\ listed'.messages /\ listed'.seen = IF Stamps = "text" THEN m.at ELSE listed.seen
          /\ role'.messages /\ role'.message = hour
          /\ role'.seen = IF Stamps = "text" THEN m.at ELSE role.seen
          /\ handled'.again = (m.at # hour) /\ handled'.sent = m.at
      BY <1>1, <1>8, <2>4, Received DEF SensorInv
    <3>2. m = bridge'.memory /\ m.at \in Nat /\ sent' # NoTime /\ m.at <= sent' /\ m.at <= hour
          /\ m.at # NoTime /\ hour # NoTime
      BY <1>1, <1>3, <2>4
    <3>3. role'.seen # NoTime =>
            /\ Stamps' = "text" /\ listed'.seen # NoTime /\ listed'.seen >= role'.seen
            /\ bridge'.memory # NoMessage /\ role'.seen <= bridge'.memory.at
      BY <1>4, <1>5, <2>4, <3>1, <3>2
    <3>4. /\ role'.message # NoTime /\ role'.message <= hour'
          /\ handled'.sent # NoTime /\ handled'.sent <= role'.message
          /\ Stamps' = "text" => role'.seen = handled'.sent
          /\ ~handled'.again => sent' # NoTime /\ role'.message <= sent'
      <4>1. ~handled'.again => m.at = hour
        BY <3>1
      <4>2. ~handled'.again => hour <= sent'
        BY <3>2, <4>1
      <4> QED
        BY <1>1, <1>4, <3>1, <3>2, <4>2
    <3> QED
      BY <2>1, <2>2, <3>1, <3>3, <3>4 DEF RowInv
  <2>5. CASE m # NoMessage /\ ~(m.good /\ Stamps # "number")
    <3>1. /\ listed'.messages /\ listed'.seen = IF Stamps = "text" THEN m.at ELSE listed.seen
          /\ role'.seen = role.seen /\ role'.message = role.message
          /\ role'.messages = role.messages /\ handled' = handled
      BY <1>1, <1>8, <2>5, Received DEF SensorInv
    <3>2. m = bridge'.memory /\ m.at \in Nat /\ m.at # NoTime
      BY <1>1, <1>3, <2>5
    <3>3. role'.seen # NoTime =>
            /\ Stamps' = "text" /\ listed'.seen # NoTime /\ listed'.seen >= role'.seen
            /\ bridge'.memory # NoMessage /\ role'.seen <= bridge'.memory.at
      BY <1>2, <1>4, <1>5, <3>1, <3>2 DEF Times
    <3> QED
      BY <1>4, <1>6, <2>1, <2>2, <3>1, <3>3 DEF RowInv
  <2> QED
    BY <2>3, <2>4, <2>5
<1> QED
  BY <1>7, <1>8

\* The availability a row shows, when a message is received, or nothing is.
LEMMA AvailabilityKept ==
  ASSUME SensorInv, NEW m \in Messages \cup {NoMessage}, NEW a \in Availabilities
  PROVE  /\ Receive(m, a) => role'.available = IF a = "unknown" THEN role.available ELSE a
         /\ UNCHANGED role => role'.available = role.available
<1>1. ASSUME Receive(m, a)
      PROVE  role'.available = IF a = "unknown" THEN role.available ELSE a
  BY <1>1, Received DEF SensorInv, AirInv
<1> QED
  BY <1>1

LEMMA HourKeeps ==
  ASSUME SensorInv, HourPasses
  PROVE  SensorInv'
<1>1. /\ hour' = hour + 1 /\ hour \in Nat /\ sent \in Times
      /\ UNCHANGED <<bridge, sent, retained, client, role, listed, handled>>
  BY DEF HourPasses, SensorInv, AirInv
<1>2. Stamps' = Stamps
  BY <1>1 DEF Stamps
<1>3. role.message \in Times /\ NoTime \notin Nat
  BY ZigbeeSensorAssumption DEF SensorInv, RowInv, RowRecords
<1>4. role.messages => role.message <= hour'
  BY <1>1, <1>3 DEF SensorInv, RowInv, Times
<1>5. RowInv'
  BY <1>1, <1>2, <1>4 DEF SensorInv, RowInv
<1>6. sent' # NoTime => sent' <= hour'
  BY <1>1, <1>3 DEF SensorInv, AirInv, Times
<1>7. AirInv'
  BY <1>1, <1>6 DEF SensorInv, AirInv
<1> QED
  BY <1>5, <1>7 DEF SensorInv

LEMMA TransmitKeeps ==
  ASSUME SensorInv, NEW good \in BOOLEAN, Transmit(good)
  PROVE  SensorInv'
<1> DEFINE a == IF bridge.setup.tracked THEN "online" ELSE "unknown"
           m == [at |-> hour, good |-> good]
<1>1. /\ sent' = hour /\ UNCHANGED <<hour, client, upsets>>
      /\ IF bridge.up
           THEN /\ bridge' = [bridge EXCEPT !.memory = m]
                /\ retained' = [retained EXCEPT
                     !.available = IF a = "unknown" THEN @ ELSE a,
                     !.reading = IF bridge.setup.retain THEN m ELSE @]
                /\ IF client.connected THEN Receive(m, a) ELSE UNCHANGED <<role, listed, handled>>
           ELSE UNCHANGED <<bridge, retained, role, listed, handled>>
  BY DEF Transmit
<1>2. /\ hour \in Nat /\ hour # NoTime /\ NoTime \notin Nat /\ NoMessage \notin Messages
      /\ sent # NoTime => sent \in Nat /\ sent <= hour
      /\ bridge \in BridgeRecords /\ retained \in RetainedRecords
  BY ZigbeeSensorAssumption DEF SensorInv, AirInv, Times, Messages
<1>3. m \in Messages /\ m # NoMessage /\ m.at = hour
  BY <1>2 DEF Messages
<1>4. a \in Availabilities /\ (a = "unknown" <=> ~bridge.setup.tracked) /\ a # "offline"
  BY <1>2 DEF Availabilities, BridgeRecords, Setups
<1> HIDE DEF a, m
<1>5. bridge.memory # NoMessage => bridge.memory.at \in Nat /\ bridge.memory.at <= hour
  BY <1>2 DEF SensorInv, AirInv, BridgeRecords, Messages
<1>6. CASE ~bridge.up
  <2>1. UNCHANGED <<bridge, retained, role, listed, handled>>
    BY <1>1, <1>6
  <2>2. NoMessage \in Messages \cup {NoMessage} /\ bridge.memory \in Messages \cup {NoMessage}
    BY <1>2 DEF BridgeRecords
  <2>3. RowInv'
    BY <1>1, <1>4, <1>5, <2>1, <2>2, RowsKeep
  <2>4. AirInv'
    BY <1>1, <1>2, <1>5, <2>1 DEF SensorInv, AirInv, Times
  <2> QED
    BY <2>3, <2>4 DEF SensorInv
<1>7. CASE bridge.up
  <2>1. /\ bridge' \in BridgeRecords /\ bridge'.memory = m /\ bridge'.setup = bridge.setup
        /\ bridge'.up = bridge.up
    BY <1>1, <1>2, <1>3, <1>7 DEF BridgeRecords
  <2>2. /\ retained' \in RetainedRecords /\ retained'.bridge = retained.bridge
        /\ retained'.available = IF a = "unknown" THEN retained.available ELSE a
        /\ retained'.reading = IF bridge.setup.retain THEN m ELSE retained.reading
    BY <1>1, <1>2, <1>3, <1>4, <1>7 DEF RetainedRecords
  <2>3. Receive(m, a) \/ UNCHANGED <<role, listed, handled>>
    BY <1>1, <1>7
  <2>4. RowInv'
    BY <1>1, <1>2, <1>3, <1>4, <1>5, <2>1, <2>3, RowsKeep
  <2>5. role'.available = IF client.connected /\ a # "unknown" THEN a ELSE role.available
    BY <1>1, <1>3, <1>4, <1>7, AvailabilityKept
  <2>6. retained'.reading # NoMessage =>
          bridge'.setup.retain /\ retained'.reading = bridge'.memory
    BY <2>1, <2>2 DEF SensorInv, AirInv
  <2>7. AirInv'
    BY <1>1, <1>2, <1>3, <1>4, <1>7, <2>1, <2>2, <2>5, <2>6 DEF SensorInv, AirInv, Times
  <2> QED
    BY <2>4, <2>7 DEF SensorInv
<1> QED
  BY <1>6, <1>7

\* Every other step of the radio: time, the last transmission and what is remembered
\* of it stay, and a message that is received is the one remembered.
LEMMA QuietAir ==
  ASSUME SensorInv, NEW m \in Messages \cup {NoMessage}, NEW a \in Availabilities,
         Receive(m, a) \/ UNCHANGED <<role, listed, handled>>,
         m # NoMessage => m = bridge.memory,
         UNCHANGED <<hour, sent>>, bridge'.memory = bridge.memory,
         bridge'.setup = bridge.setup
  PROVE  RowInv'
<1>1. /\ bridge.memory \in Messages \cup {NoMessage}
      /\ bridge.memory # NoMessage => bridge.memory.at \in Nat
      /\ bridge.memory # NoMessage => sent # NoTime /\ bridge.memory.at <= sent
  BY DEF SensorInv, AirInv, BridgeRecords, Messages
<1> QED
  BY <1>1, RowsKeep

LEMMA OfflineKeeps ==
  ASSUME SensorInv, MarkOffline
  PROVE  SensorInv'
<1>1. /\ UNCHANGED <<hour, bridge, sent, client>>
      /\ retained' = [retained EXCEPT !.available = "offline"]
      /\ IF client.connected THEN Receive(NoMessage, "offline")
                             ELSE UNCHANGED <<role, listed, handled>>
  BY DEF MarkOffline
<1>2. NoMessage \in Messages \cup {NoMessage} /\ "offline" \in Availabilities
  BY DEF Availabilities
<1>3. /\ retained' \in RetainedRecords /\ retained'.bridge = retained.bridge
      /\ retained'.available = "offline" /\ retained'.reading = retained.reading
  BY <1>1, <1>2 DEF SensorInv, AirInv, RetainedRecords
<1>4. RowInv'
  BY <1>1, <1>2, QuietAir
<1>5. client.connected => role'.available = "offline"
  BY <1>1, <1>2, AvailabilityKept
<1>6. AirInv'
  BY <1>1, <1>3, <1>5 DEF SensorInv, AirInv
<1> QED
  BY <1>4, <1>6 DEF SensorInv

LEMMA StopKeeps ==
  ASSUME SensorInv, BridgeStops
  PROVE  SensorInv'
<1>1. /\ bridge' = [bridge EXCEPT !.up = FALSE]
      /\ retained' = [retained EXCEPT !.bridge = "offline"]
      /\ client' = IF client.connected THEN [client EXCEPT !.bridge = "offline"] ELSE client
      /\ UNCHANGED <<hour, sent, role, listed, handled>>
  BY DEF BridgeStops
<1>2. NoMessage \in Messages \cup {NoMessage} /\ "offline" \in Availabilities
  BY DEF Availabilities
<1>3. /\ bridge' \in BridgeRecords /\ bridge'.memory = bridge.memory
      /\ bridge'.setup = bridge.setup /\ ~bridge'.up
  BY <1>1 DEF SensorInv, AirInv, BridgeRecords
<1>4. /\ retained' \in RetainedRecords /\ retained'.bridge = "offline"
      /\ retained'.available = retained.available /\ retained'.reading = retained.reading
  BY <1>1 DEF SensorInv, AirInv, RetainedRecords
<1>5. /\ client' \in ClientRecords /\ client'.connected = client.connected
      /\ client'.connected => client'.bridge = "offline"
  BY <1>1, <1>2 DEF SensorInv, AirInv, ClientRecords
<1>6. RowInv'
  BY <1>1, <1>2, <1>3, QuietAir
<1>7. AirInv'
  BY <1>1, <1>3, <1>4, <1>5 DEF SensorInv, AirInv
<1> QED
  BY <1>6, <1>7 DEF SensorInv

LEMMA StartKeeps ==
  ASSUME SensorInv, BridgeStarts
  PROVE  SensorInv'
<1>1. /\ bridge' = [bridge EXCEPT !.up = TRUE]
      /\ retained' = [retained EXCEPT !.bridge = "online"]
      /\ client' = IF client.connected THEN [client EXCEPT !.bridge = "online"] ELSE client
      /\ IF client.connected THEN Receive(bridge.memory, "unknown")
                             ELSE UNCHANGED <<role, listed, handled>>
      /\ UNCHANGED <<hour, sent>>
  BY DEF BridgeStarts
<1>2. /\ bridge.memory \in Messages \cup {NoMessage} /\ "online" \in Availabilities
      /\ "unknown" \in Availabilities
  BY DEF Availabilities, SensorInv, AirInv, BridgeRecords
<1>3. /\ bridge' \in BridgeRecords /\ bridge'.memory = bridge.memory
      /\ bridge'.setup = bridge.setup /\ bridge'.up
  BY <1>1 DEF SensorInv, AirInv, BridgeRecords
<1>4. /\ retained' \in RetainedRecords /\ retained'.bridge = "online"
      /\ retained'.available = retained.available /\ retained'.reading = retained.reading
  BY <1>1 DEF SensorInv, AirInv, RetainedRecords
<1>5. /\ client' \in ClientRecords /\ client'.connected = client.connected
      /\ client'.connected => client'.bridge = "online"
  BY <1>1, <1>2 DEF SensorInv, AirInv, ClientRecords
<1>6. RowInv'
  BY <1>1, <1>2, <1>3, QuietAir
<1>7. role'.available = role.available
  BY <1>1, <1>2, AvailabilityKept
<1>8. AirInv'
  BY <1>1, <1>3, <1>4, <1>5, <1>7 DEF SensorInv, AirInv
<1> QED
  BY <1>6, <1>8 DEF SensorInv

LEMMA ConnectKeeps ==
  ASSUME SensorInv, ConnectSensor
  PROVE  SensorInv'
<1>1. /\ client' = [client EXCEPT !.connected = TRUE, !.error = FALSE,
                                  !.bridge = retained.bridge]
      /\ Receive(retained.reading, retained.available)
      /\ UNCHANGED <<hour, bridge, sent, retained>>
  BY DEF ConnectSensor
<1>2. /\ retained.reading \in Messages \cup {NoMessage}
      /\ retained.available \in Availabilities /\ retained.bridge \in Availabilities
      /\ retained.reading # NoMessage => retained.reading = bridge.memory
  BY DEF SensorInv, AirInv, RetainedRecords, Availabilities
<1>3. client' \in ClientRecords /\ client'.connected /\ client'.bridge = retained.bridge
  BY <1>1, <1>2 DEF SensorInv, AirInv, ClientRecords
<1>4. RowInv'
  BY <1>1, <1>2, QuietAir
<1>5. role'.available = IF retained.available = "unknown" THEN role.available
                                                          ELSE retained.available
  BY <1>1, <1>2, AvailabilityKept
<1>6. AirInv'
  BY <1>1, <1>3, <1>5 DEF SensorInv, AirInv
<1> QED
  BY <1>4, <1>6 DEF SensorInv

\* The connection fails or is lost.
LEMMA PartingKeeps ==
  ASSUME SensorInv, ConnectFails \/ DisconnectSensor
  PROVE  SensorInv'
<1>1. /\ UNCHANGED <<hour, bridge, sent, retained, role, listed, handled>>
      /\ \/ client' = [client EXCEPT !.error = TRUE]
         \/ client' = [client EXCEPT !.connected = FALSE, !.parted = TRUE, !.error = TRUE]
  BY DEF ConnectFails, DisconnectSensor
<1>2. /\ client' \in ClientRecords /\ client'.bridge = client.bridge
      /\ client'.connected => client.connected
  BY <1>1 DEF SensorInv, AirInv, ClientRecords
<1>3. Stamps' = Stamps
  BY <1>1 DEF Stamps
<1>4. RowInv'
  BY <1>1, <1>3 DEF SensorInv, RowInv
<1>5. AirInv'
  BY <1>1, <1>2 DEF SensorInv, AirInv
<1> QED
  BY <1>4, <1>5 DEF SensorInv

LEMMA RestartKeeps ==
  ASSUME SensorInv, CoreRestarts
  PROVE  SensorInv'
<1>1. /\ client' = NewClient /\ role' = NewRow /\ listed' = NewRow /\ handled' = NoneHandled
      /\ UNCHANGED <<hour, bridge, sent, retained>>
  BY DEF CoreRestarts
<1>2. RowInv'
  BY <1>1, NewRows DEF RowInv
<1>3. AirInv'
  BY <1>1, NewRows DEF SensorInv, AirInv
<1> QED
  BY <1>2, <1>3 DEF SensorInv

LEMMA SensorSteps == SensorInv /\ [SensorNext]_sensorVars => SensorInv'
<1> SUFFICES ASSUME SensorInv, [SensorNext]_sensorVars
             PROVE  SensorInv'
  OBVIOUS
<1>1. CASE HourPasses \/ MarkOffline
  BY <1>1, HourKeeps, OfflineKeeps
<1>2. CASE BridgeStops \/ BridgeStarts
  BY <1>2, StopKeeps, StartKeeps
<1>3. CASE ConnectSensor \/ ConnectFails \/ DisconnectSensor \/ CoreRestarts
  BY <1>3, ConnectKeeps, PartingKeeps, RestartKeeps
<1>4. CASE \E good \in BOOLEAN : Transmit(good)
  BY <1>4, TransmitKeeps
<1>5. CASE UNCHANGED sensorVars
  BY <1>5 DEF sensorVars, SensorInv, RowInv, AirInv, Stamps
<1> QED
  BY <1>1, <1>2, <1>3, <1>4, <1>5 DEF SensorNext

-----------------------------------------------------------------------------
(* The SENSOR BUS *)

NodeRecords == [online : BOOLEAN, usable : BOOLEAN, valid : BOOLEAN, stale : BOOLEAN,
                at : Nat, polls : Nat, failures : Nat, invalid : Nat, old : Nat]
BusStates == [ready : BOOLEAN, error : BOOLEAN, opening : BOOLEAN,
              nodes : [Addresses -> NodeRecords]]
WorkerRecords == [alive : BOOLEAN, turn : {"due", "done"}, open : BOOLEAN, state : BusStates]

SensingTypes ==
  /\ now \in Nat /\ worker \in WorkerRecords /\ core \in BusStates
  /\ queue \in Seq(BusStates)

\* A state speaks for itself, or what it calls usable is k intervals old at most.
Excused(s) == s.opening \/ (~s.ready /\ s.error)
Young(s, k) == \A a \in Addresses : Usable(s.nodes[a]) => now <= s.nodes[a].at + k
Good(s, k) == Excused(s) \/ Young(s, k)

\* Of a live worker, its own state is as young as its turn tells; the last in the queue
\* is that state; and the core, which may have missed one, is one interval behind.
Followed ==
  worker.alive =>
    /\ Good(worker.state, IF worker.turn = "done" THEN 0 ELSE 1)
    /\ queue # <<>> => queue[Len(queue)] = worker.state
    /\ queue = <<>> => Good(core, IF worker.turn = "done" THEN 1 ELSE 2)

SensingInv == SensingTypes /\ Followed /\ OldReadingsAreSignalled

LEMMA GoodLasts ==
  ASSUME NEW s \in BusStates, now \in Nat, now' \in Nat, NEW k \in Nat, NEW l \in Nat,
         now' <= now + l, Good(s, k)
  PROVE  Excused(s) \/ \A a \in Addresses : Usable(s.nodes[a]) => now' <= s.nodes[a].at + (k + l)
<1>1. \A a \in Addresses : s.nodes[a].at \in Nat
  BY DEF BusStates, NodeRecords
<1> QED
  BY <1>1 DEF Good, Young

LEMMA GoodRelaxed ==
  ASSUME NEW s \in BusStates, now \in Nat, NEW k \in Nat, NEW l \in Nat, k <= l, Good(s, k)
  PROVE  Good(s, l)
<1>1. \A a \in Addresses : s.nodes[a].at \in Nat
  BY DEF BusStates, NodeRecords
<1> QED
  BY <1>1 DEF Good, Young

LEMMA NewStates ==
  /\ NewState \in BusStates /\ \A k \in Nat : Good(NewState, k)
  /\ \A a \in Addresses : ~Usable(NewState.nodes[a])
<1>1. NewNode \in NodeRecords /\ ~Usable(NewNode)
  BY DEF NewNode, NodeRecords, Usable
<1>2. NewState \in BusStates
  BY <1>1 DEF NewState, BusStates
<1>3. \A a \in Addresses : NewState.nodes[a] = NewNode
  BY DEF NewState
<1> QED
  BY <1>1, <1>2, <1>3 DEF Good, Young

LEMMA SensingStarts == SensingInit => SensingInv
<1> SUFFICES ASSUME SensingInit
             PROVE  SensingInv
  OBVIOUS
<1>1. /\ now = 0 /\ worker = FreshWorker /\ queue = <<>> /\ core = NewState
      /\ shown = [at |-> 0, alive |-> TRUE, state |-> NewState]
  BY DEF SensingInit
<1>2. SensingTypes
  BY <1>1, NewStates DEF SensingTypes, FreshWorker, WorkerRecords
<1>3. Followed
  BY <1>1, NewStates DEF Followed, FreshWorker
<1>4. OldReadingsAreSignalled
  BY <1>1, NewStates DEF OldReadingsAreSignalled
<1> QED
  BY <1>2, <1>3, <1>4 DEF SensingInv

LEMMA LastState ==
  ASSUME SensingInv
  PROVE  /\ Drained \in BusStates
         /\ worker.alive => Good(Drained, IF worker.turn = "done" THEN 1 ELSE 2)
         /\ queue # <<>> /\ worker.alive =>
              Good(Drained, IF worker.turn = "done" THEN 0 ELSE 1)
<1>1. /\ queue \in Seq(BusStates) /\ core \in BusStates /\ now \in Nat
      /\ worker \in WorkerRecords /\ worker.state \in BusStates
      /\ worker.turn \in {"due", "done"}
  BY DEF SensingInv, SensingTypes, WorkerRecords
<1>2. CASE queue = <<>>
  BY <1>1, <1>2 DEF Drained, SensingInv, Followed
<1>3. CASE queue # <<>>
  <2>1. Drained \in BusStates /\ (worker.alive => Drained = worker.state)
    BY <1>1, <1>3 DEF Drained, SensingInv, Followed
  <2>2. worker.alive => Good(Drained, IF worker.turn = "done" THEN 0 ELSE 1)
    BY <2>1 DEF SensingInv, Followed
  <2>3. worker.alive => Good(Drained, IF worker.turn = "done" THEN 1 ELSE 2)
    <3>1. CASE worker.turn = "done"
      BY <1>1, <2>1, <2>2, <3>1, GoodRelaxed
    <3>2. CASE worker.turn = "due"
      BY <1>1, <2>1, <2>2, <3>2, GoodRelaxed
    <3> QED
      BY <1>1, <3>1, <3>2
  <2> QED
    BY <1>3, <2>1, <2>2, <2>3
<1> QED
  BY <1>2, <1>3

\* What the core shows is signalled, excused or young.
LEMMA ShowHolds ==
  ASSUME SensingInv, Show
  PROVE  OldReadingsAreSignalled'
<1>1. shown'.at = now /\ shown'.alive = worker.alive /\ shown'.state = Drained
  BY DEF Show
<1>2. Drained \in BusStates /\ now \in Nat /\ worker.turn \in {"due", "done"}
  BY LastState DEF SensingInv, SensingTypes, WorkerRecords
<1>3. worker.alive => Good(Drained, 2)
  BY <1>2, LastState, GoodRelaxed
<1> QED
  BY <1>1, <1>3 DEF OldReadingsAreSignalled, BusSignal, Good, Excused, Young

LEMMA PushedLast ==
  ASSUME SensingInv, NEW s \in BusStates
  PROVE  /\ Pushed(s) \in Seq(BusStates) /\ Pushed(s) # <<>>
         /\ Pushed(s)[Len(Pushed(s))] = s
<1> DEFINE q == IF Len(queue) < QueueSize THEN queue ELSE Tail(queue)
<1>1. queue \in Seq(BusStates) /\ QueueSize \in Nat \ {0}
  BY SensingAssumption DEF SensingInv, SensingTypes
<1>2. q \in Seq(BusStates)
  BY <1>1
<1>3. Pushed(s) = Append(q, s)
  BY DEF Pushed
<1> HIDE DEF q
<1> QED
  BY <1>2, <1>3

\* The worker publishes a state, or finds the queue full while the core drains it.
LEMMA PublishKeeps ==
  ASSUME SensingInv, worker.alive, worker.turn = "due", NEW s \in BusStates,
         NEW turn \in {"due", "done"}, NEW open \in BOOLEAN,
         Good(s, 0), Publish(s, turn, open)
  PROVE  SensingInv'
<1>1. /\ worker' = [worker EXCEPT !.turn = turn, !.open = open, !.state = s]
      /\ now' = now
  BY DEF Publish
<1>2. /\ worker \in WorkerRecords /\ now \in Nat /\ core \in BusStates
      /\ QueueSize \in Nat /\ QueueSize > 0
  BY SensingAssumption DEF SensingInv, SensingTypes
<1>3. worker' \in WorkerRecords /\ worker'.state = s /\ worker'.turn = turn /\ worker'.alive
  BY <1>1, <1>2 DEF WorkerRecords
<1>4. Good(s, IF turn = "done" THEN 0 ELSE 1)
  BY <1>2, GoodRelaxed
<1>5. CASE queue' = Pushed(s) /\ UNCHANGED <<core, shown>>
  <2>1. SensingTypes'
    BY <1>1, <1>2, <1>3, <1>5, PushedLast DEF SensingTypes
  <2>2. queue' # <<>> /\ queue'[Len(queue')] = s
    BY <1>5, PushedLast
  <2>3. Followed'
    BY <1>1, <1>3, <1>4, <2>2 DEF Followed, Good, Young
  <2>4. OldReadingsAreSignalled'
    BY <1>5 DEF SensingInv, OldReadingsAreSignalled
  <2> QED
    BY <2>1, <2>3, <2>4 DEF SensingInv
<1>6. CASE Len(queue) = QueueSize /\ Show
  <2>1. core' = Drained /\ queue' = <<>> /\ Drained \in BusStates
    BY <1>6, LastState DEF Show
  <2>2. queue # <<>>
    BY <1>2, <1>6
  <2>3. Good(Drained, 1)
    BY <2>2, LastState
  <2>4. Good(Drained, IF turn = "done" THEN 1 ELSE 2)
    BY <1>2, <2>1, <2>3, GoodRelaxed
  <2>5. SensingTypes'
    BY <1>1, <1>2, <1>3, <2>1 DEF SensingTypes
  <2>6. Followed'
    BY <1>1, <1>3, <1>4, <2>1, <2>4 DEF Followed, Good, Young
  <2> QED
    BY <1>6, <2>5, <2>6, ShowHolds DEF SensingInv
<1> QED
  BY <1>5, <1>6 DEF Publish

\* What a cycle leaves of the nodes: a reached one that is usable was read now.
LEMMA NodesPolled ==
  ASSUME SensingInv, NEW reached \in SUBSET Addresses, NEW polled \in PolledNodes(reached)
  PROVE  /\ polled \in [Addresses -> NodeRecords]
         /\ \A a \in reached : Usable(polled[a]) => polled[a].at = now
<1>1. now \in Nat /\ worker.state.nodes \in [Addresses -> NodeRecords]
  BY DEF SensingInv, SensingTypes, WorkerRecords, BusStates
<1>2. /\ DOMAIN polled = Addresses /\ polled = [a \in Addresses |-> polled[a]]
      /\ \A a \in Addresses :
           polled[a] \in IF a \in reached THEN Polled(worker.state.nodes[a]) ELSE {worker.state.nodes[a]}
  BY DEF PolledNodes
<1>3. \A n \in Nat : More(n) \in Nat
  BY SensingAssumption DEF More
<1>4. ASSUME NEW node \in NodeRecords
      PROVE  Silent(node) \in NodeRecords /\ ~Usable(Silent(node))
  <2>1. /\ More(node.polls) \in Nat /\ More(node.failures) \in Nat
    BY <1>3 DEF NodeRecords
  <2> QED
    BY <2>1 DEF Silent, NodeRecords, Usable
<1>5. ASSUME NEW node \in NodeRecords, NEW answer \in Answers
      PROVE  Answered(node, answer) \in NodeRecords /\ Answered(node, answer).at = now
  <2>1. /\ More(node.polls) \in Nat /\ More(node.invalid) \in Nat /\ More(node.old) \in Nat
        /\ node.invalid \in Nat /\ node.old \in Nat
    BY <1>3 DEF NodeRecords
  <2>2. Answered(node, answer).at = now
    BY DEF Answered
  <2>3. Answered(node, answer) \in NodeRecords
    BY <1>1, <2>1 DEF Answered, NodeRecords
  <2> QED
    BY <2>2, <2>3
<1>6. ASSUME NEW a \in Addresses
      PROVE  /\ polled[a] \in NodeRecords
             /\ a \in reached => (Usable(polled[a]) => polled[a].at = now)
  <2>1. worker.state.nodes[a] \in NodeRecords
    BY <1>1
  <2>2. \/ polled[a] = worker.state.nodes[a] /\ a \notin reached
        \/ polled[a] = Silent(worker.state.nodes[a])
        \/ \E answer \in Answers : polled[a] = Answered(worker.state.nodes[a], answer)
    BY <1>2 DEF Polled
  <2> QED
    BY <1>4, <1>5, <2>1, <2>2
<1> QED
  BY <1>2, <1>6

LEMMA CycleKeeps ==
  ASSUME SensingInv, Cycle
  PROVE  SensingInv'
<1>1. /\ worker.alive /\ worker.turn = "due" /\ now \in Nat
  BY DEF Cycle, SensingInv, SensingTypes
<1>2. PICK polled \in PolledNodes(Addresses) :
        Publish([ready |-> TRUE, error |-> FALSE, opening |-> FALSE, nodes |-> polled],
                "done", TRUE)
  BY DEF Cycle
<1>3. /\ polled \in [Addresses -> NodeRecords]
      /\ \A a \in Addresses : Usable(polled[a]) => polled[a].at = now
  BY NodesPolled
<1> DEFINE s == [ready |-> TRUE, error |-> FALSE, opening |-> FALSE, nodes |-> polled]
<1>4. s \in BusStates
  BY <1>3 DEF BusStates
<1>5. Good(s, 0)
  BY <1>1, <1>3 DEF Good, Young
<1>6. Publish(s, "done", TRUE)
  BY <1>2
<1> HIDE DEF s
<1> QED
  BY <1>1, <1>4, <1>5, <1>6, PublishKeeps

LEMMA PortKeeps ==
  ASSUME SensingInv, OpenPort \/ SerialFailure
  PROVE  SensingInv'
<1>1. worker.state \in BusStates /\ worker.alive /\ worker.turn = "due"
  BY DEF OpenPort, SerialFailure, SensingInv, SensingTypes, WorkerRecords
<1>2. CASE OpenPort
  <2> DEFINE s == [worker.state EXCEPT !.ready = TRUE, !.error = FALSE, !.opening = TRUE]
  <2>1. s \in BusStates /\ Good(s, 0) /\ Publish(s, "due", TRUE)
    BY <1>1, <1>2 DEF OpenPort, BusStates, Good, Excused
  <2> HIDE DEF s
  <2> QED
    BY <1>1, <2>1, PublishKeeps
<1>3. CASE SerialFailure
  <2>1. PICK reached \in SUBSET Addresses : \E polled \in PolledNodes(reached) :
          Publish([ready |-> FALSE, error |-> TRUE, opening |-> FALSE, nodes |-> polled],
                  "done", FALSE)
    BY <1>3 DEF SerialFailure
  <2>2. PICK polled \in PolledNodes(reached) :
          Publish([ready |-> FALSE, error |-> TRUE, opening |-> FALSE, nodes |-> polled],
                  "done", FALSE)
    BY <2>1
  <2>3. polled \in [Addresses -> NodeRecords]
    BY NodesPolled
  <2> DEFINE s == [ready |-> FALSE, error |-> TRUE, opening |-> FALSE, nodes |-> polled]
  <2>4. s \in BusStates /\ Good(s, 0) /\ Publish(s, "done", FALSE)
    BY <2>2, <2>3 DEF BusStates, Good, Excused
  <2> HIDE DEF s
  <2> QED
    BY <1>1, <2>4, PublishKeeps
<1> QED
  BY <1>2, <1>3

LEMMA DeathKeeps ==
  ASSUME SensingInv, WorkerDies
  PROVE  SensingInv'
<1>1. worker' = [worker EXCEPT !.alive = FALSE] /\ UNCHANGED <<now, queue, core, shown>>
  BY DEF WorkerDies
<1>2. worker' \in WorkerRecords /\ ~worker'.alive
  BY <1>1 DEF SensingInv, SensingTypes, WorkerRecords
<1> QED
  BY <1>1, <1>2 DEF SensingInv, SensingTypes, Followed, OldReadingsAreSignalled

LEMMA TickKeeps ==
  ASSUME SensingInv, Tick
  PROVE  SensingInv'
<1>1. /\ worker' = [worker EXCEPT !.turn = "due"] /\ now' = now + 1
      /\ UNCHANGED <<queue, core, shown>> /\ (worker.alive => worker.turn = "done")
  BY DEF Tick
<1>2. /\ now \in Nat /\ now' \in Nat /\ now' <= now + 1 /\ worker \in WorkerRecords
      /\ core \in BusStates /\ worker.state \in BusStates
  BY <1>1 DEF SensingInv, SensingTypes, WorkerRecords
<1>3. /\ worker' \in WorkerRecords /\ worker'.turn = "due" /\ worker'.state = worker.state
      /\ worker'.alive = worker.alive
  BY <1>1, <1>2 DEF WorkerRecords
<1>4. Good(worker.state, 0) => Good(worker.state, 1)'
  <2>1. ASSUME Good(worker.state, 0)
        PROVE  \/ Excused(worker.state)
               \/ \A a \in Addresses :
                    Usable(worker.state.nodes[a]) => now' <= worker.state.nodes[a].at + (0 + 1)
    BY <1>2, <2>1, GoodLasts
  <2> QED
    BY <1>3, <2>1 DEF Good, Young, Excused
<1>5. Good(core, 1) => Good(core, 2)'
  <2>1. ASSUME Good(core, 1)
        PROVE  \/ Excused(core)
               \/ \A a \in Addresses : Usable(core.nodes[a]) => now' <= core.nodes[a].at + (1 + 1)
    BY <1>2, <2>1, GoodLasts
  <2> QED
    BY <1>1, <2>1 DEF Good, Young, Excused
<1>6. Followed'
  BY <1>1, <1>3, <1>4, <1>5 DEF SensingInv, Followed
<1> QED
  BY <1>1, <1>2, <1>3, <1>6 DEF SensingInv, SensingTypes, OldReadingsAreSignalled

LEMMA ViewKeeps ==
  ASSUME SensingInv, View
  PROVE  SensingInv'
<1>1. /\ core' = Drained /\ queue' = <<>> /\ UNCHANGED <<now, worker>> /\ Show
  BY DEF View, Show
<1>2. SensingTypes'
  BY <1>1, LastState DEF SensingInv, SensingTypes
<1>3. Followed'
  BY <1>1, LastState DEF SensingInv, Followed, Good, Young
<1> QED
  BY <1>1, <1>2, <1>3, ShowHolds DEF SensingInv

LEMMA HealthKeeps ==
  ASSUME SensingInv, HealthCheck
  PROVE  SensingInv'
<1>1. queue' = <<>> /\ UNCHANGED <<now, shown>>
  BY DEF HealthCheck
<1>2. OldReadingsAreSignalled'
  BY <1>1 DEF SensingInv, OldReadingsAreSignalled
<1>3. CASE worker.alive
  <2>1. core' = Drained /\ worker' = worker
    BY <1>3 DEF HealthCheck
  <2>2. SensingTypes'
    BY <1>1, <2>1, LastState DEF SensingInv, SensingTypes
  <2>3. Followed'
    BY <1>1, <2>1, LastState DEF SensingInv, Followed, Good, Young
  <2> QED
    BY <1>2, <2>2, <2>3 DEF SensingInv
<1>4. CASE ~worker.alive
  <2>1. core' = Buried(Drained) /\ worker' = [FreshWorker EXCEPT !.turn = worker.turn]
    BY <1>4 DEF HealthCheck
  <2>2. core' \in BusStates /\ \A k \in Nat : Good(core', k)
    BY <2>1, LastState DEF Buried, BusStates, Good, Excused
  <2>3. /\ worker' \in WorkerRecords /\ worker'.state = NewState
        /\ worker'.turn \in {"due", "done"}
    BY <2>1, NewStates DEF FreshWorker, WorkerRecords, SensingInv, SensingTypes
  <2>4. SensingTypes'
    BY <1>1, <2>2, <2>3 DEF SensingInv, SensingTypes
  <2>5. Followed'
    BY <1>1, <2>2, <2>3, NewStates DEF Followed, Good, Young, Excused
  <2> QED
    BY <1>2, <2>4, <2>5 DEF SensingInv
<1> QED
  BY <1>3, <1>4

LEMMA SensingSteps == SensingInv /\ [SensingNext]_sensingVars => SensingInv'
<1> SUFFICES ASSUME SensingInv, [SensingNext]_sensingVars
             PROVE  SensingInv'
  OBVIOUS
<1>1. ASSUME UNCHANGED <<now, worker, queue, core, shown>>
      PROVE  SensingInv'
  BY <1>1 DEF SensingInv, SensingTypes, Followed, Good, Young, OldReadingsAreSignalled
<1>2. CASE OpenPort \/ Cycle \/ SerialFailure
  BY <1>2, PortKeeps, CycleKeeps
<1>3. CASE WorkerDies \/ Tick \/ View \/ HealthCheck
  BY <1>3, DeathKeeps, TickKeeps, ViewKeeps, HealthKeeps
<1>4. CASE PortLost \/ PortBack \/ UNCHANGED sensingVars
  BY <1>1, <1>4 DEF PortLost, PortBack, sensingVars
<1> QED
  BY <1>2, <1>3, <1>4 DEF SensingNext

-----------------------------------------------------------------------------
(* The reports from outside *)

\* Payloads that pass the validation, with an analysis dated as a bridge dates one.
Dated == {a \in Analyses : a.id # 0 /\ a.made <= a.end /\ a.end <= a.made + BridgeAhead}
Goods == {p \in Payloads : ValidDelivery(p) /\ p.analysis \in Dated}
AdviceFiles == [report : Goods]
WeatherFiles == [weather : Weathers]

\* The analyses that are about: the bridge's, the agent's, those on the disk.
InFile(f) == IF f \in {NoFile, Torn} THEN {} ELSE {f.report.analysis}
Carrying == IF downloaded = NoPayload THEN {} ELSE {downloaded.analysis}
About == ({newest} \ {NoPayload}) \cup Carrying \cup InFile(adviceFile) \cup InFile(earlier.advice)

ReportTypes ==
  /\ reportTime \in Nat
  /\ newest \in Dated \cup {NoPayload}
  /\ downloaded \in Goods \cup {NoPayload}
  /\ adviceFile \in AdviceFiles \cup {NoFile, Torn}
  /\ weatherFile \in WeatherFiles \cup {NoFile, Torn}
  /\ earlier \in [advice : AdviceFiles \cup {NoFile, Torn}, weather : WeatherFiles \cup {NoFile, Torn}]
  /\ refreshed \in [advice : Analyses \cup {NoPayload}, weather : Weathers \cup {NoPayload}]

\* One identifier names one analysis, and none is ahead of the bridge's latest.
OneById ==
  /\ \A a \in About : newest # NoPayload /\ a.id <= newest.id
  /\ \A a, b \in About : a.id = b.id => a = b

\* What the last good cycle brought is in the file.
RefreshKept ==
  /\ refreshed.advice # NoPayload =>
       adviceFile \in AdviceFiles /\ adviceFile.report.analysis = refreshed.advice
  /\ refreshed.weather # NoPayload =>
       weatherFile \in WeatherFiles /\ weatherFile.weather = refreshed.weather

ReportsInv == ReportTypes /\ OneById /\ RefreshKept

LEMMA FilesApart ==
  /\ \A f \in AdviceFiles : f \notin {NoFile, Torn} /\ f.report \in Goods
  /\ \A f \in WeatherFiles : f \notin {NoFile, Torn} /\ f.weather \in Weathers
<1>1. AdviceFiles \subseteq [report : Payloads]
  BY DEF AdviceFiles, Goods
<1>2. \A f \in AdviceFiles : f \notin {NoFile, Torn} /\ f.report \in Goods
  BY <1>1, ReportTokens DEF AdviceFiles
<1>3. \A f \in WeatherFiles : f \notin {NoFile, Torn} /\ f.weather \in Weathers
  BY ReportTokens DEF WeatherFiles
<1> QED
  BY <1>2, <1>3

LEMMA GoodPayload ==
  ASSUME NEW p \in Goods
  PROVE  /\ p.analysis \in Analyses /\ p.analysis # NoPayload
         /\ p.analysis.id \in Nat \ {0} /\ p.analysis.end \in Nat /\ p.analysis.made \in Nat
         /\ p.analysis.end <= p.analysis.made + BridgeAhead
         /\ p.ours /\ p.frame /\ p.result /\ p.view
<1>1. p.analysis \in Dated /\ p.ours /\ p.frame /\ p.result /\ p.view
  BY DEF Goods, ValidDelivery
<1>2. p.analysis \in Analyses /\ p.analysis.id # 0
      /\ p.analysis.end <= p.analysis.made + BridgeAhead
  BY <1>1 DEF Dated
<1> QED
  BY <1>1, <1>2, ReportTokens DEF Analyses

LEMMA ReportsHold == ReportsInv => ReportsTrue
<1> SUFFICES ASSUME ReportsInv
             PROVE  ReportsTrue
  OBVIOUS
<1>1. ASSUME AdviceAvailable
      PROVE  adviceFile \in AdviceFiles /\ adviceFile.report \in Goods
  BY <1>1, FilesApart DEF AdviceAvailable, ReportsInv, ReportTypes
<1>2. ASSUME adviceFile \in AdviceFiles
      PROVE  AdviceAvailable
  BY <1>2, FilesApart DEF AdviceAvailable, Goods
<1>3. ASSUME AdviceFresh
      PROVE  reportTime - adviceFile.report.analysis.made <= FreshFor + BridgeAhead
  <2> DEFINE a == adviceFile.report.analysis
  <2>1. AdviceAvailable /\ AdviceAge <= FreshFor
    BY <1>3 DEF AdviceFresh
  <2>2. a.end \in Nat /\ a.made \in Nat /\ a.end <= a.made + BridgeAhead
    BY <1>1, <2>1, GoodPayload
  <2>3. AdviceAge = IF reportTime > a.end THEN reportTime - a.end ELSE 0
    BY DEF AdviceAge
  <2>4. reportTime \in Nat /\ FreshFor \in Nat /\ BridgeAhead \in Nat
    BY ReportsAssumption DEF ReportsInv, ReportTypes
  <2> HIDE DEF a
  <2>5. reportTime - a.made <= FreshFor + BridgeAhead
    BY <2>1, <2>2, <2>3, <2>4
  <2> QED
    BY <2>5 DEF a
<1>4. AdviceAvailable => /\ adviceFile.report.ours /\ adviceFile.report.frame
                         /\ adviceFile.report.result /\ adviceFile.report.view
  BY <1>1, GoodPayload
<1>5. refreshed.advice # NoPayload =>
        AdviceAvailable /\ adviceFile.report.analysis = refreshed.advice
  BY <1>2 DEF ReportsInv, RefreshKept
<1>6. refreshed.weather # NoPayload =>
        WeatherAvailable /\ weatherFile.weather = refreshed.weather
  BY FilesApart DEF ReportsInv, RefreshKept, WeatherAvailable
<1> QED
  BY <1>3, <1>4, <1>5, <1>6 DEF ReportsTrue

LEMMA ReportsStart == ReportsInit => ReportsInv
<1> SUFFICES ASSUME ReportsInit
             PROVE  ReportsInv
  OBVIOUS
<1>1. ReportTypes
  BY DEF ReportsInit, ReportTypes
<1>2. About = {}
  BY DEF ReportsInit, About, Carrying, InFile
<1>3. OneById
  BY <1>2 DEF OneById
<1>4. RefreshKept
  BY DEF ReportsInit, RefreshKept
<1> QED
  BY <1>1, <1>3, <1>4 DEF ReportsInv

\* A step that brings no analysis of its own.
LEMMA NothingNew ==
  ASSUME ReportsInv, newest' = newest, About' \subseteq About
  PROVE  OneById'
  BY DEF ReportsInv, OneById

LEMMA AdviceSteps ==
  ASSUME ReportsInv, FetchAdvice \/ AdviceKnown \/ AdviceSaved \/ SaveFails \/ AgentDies
  PROVE  ReportsInv'
<1>1. /\ UNCHANGED <<reportTime, newest, weatherFile>>
      /\ reportTime \in Nat /\ newest \in Dated \cup {NoPayload}
      /\ downloaded \in Goods \cup {NoPayload}
      /\ adviceFile \in AdviceFiles \cup {NoFile, Torn}
      /\ weatherFile \in WeatherFiles \cup {NoFile, Torn}
      /\ earlier \in [advice : AdviceFiles \cup {NoFile, Torn}, weather : WeatherFiles \cup {NoFile, Torn}]
      /\ refreshed \in [advice : Analyses \cup {NoPayload}, weather : Weathers \cup {NoPayload}]
  BY DEF ReportsInv, ReportTypes, FetchAdvice, AdviceKnown, AdviceSaved, SaveFails, AgentDies
<1>2. CASE FetchAdvice
  <2>1. PICK payload \in Deliveries(newest) : ValidDelivery(payload) /\ downloaded' = payload
    BY <1>2 DEF FetchAdvice
  <2>2. newest \in Dated /\ newest # NoPayload
    BY <1>1, <1>2 DEF FetchAdvice
  <2>3. payload \in Goods /\ payload.analysis = newest
    BY <2>1, <2>2 DEF Deliveries, Goods, Payloads, Dated
  <2>4. UNCHANGED <<adviceFile, earlier, refreshed>>
    BY <1>2 DEF FetchAdvice
  <2>5. About' \subseteq About
    BY <1>1, <2>1, <2>2, <2>3, <2>4 DEF About, Carrying, InFile
  <2>6. ReportTypes'
    BY <1>1, <2>1, <2>3, <2>4 DEF ReportTypes
  <2> QED
    BY <1>1, <2>4, <2>5, <2>6, NothingNew DEF ReportsInv, RefreshKept
<1>3. CASE AdviceKnown
  <2>1. /\ downloaded # NoPayload /\ CachedAnalysis = downloaded.analysis.id
        /\ downloaded' = NoPayload /\ UNCHANGED <<adviceFile, earlier>>
        /\ refreshed' = [refreshed EXCEPT !.advice = downloaded.analysis]
    BY <1>3 DEF AdviceKnown
  <2>2. downloaded \in Goods /\ downloaded.analysis.id # 0 /\ downloaded.analysis \in Analyses
    BY <1>1, <2>1, GoodPayload
  <2>3. adviceFile \in AdviceFiles /\ adviceFile.report.analysis.id = downloaded.analysis.id
    BY <1>1, <2>1, <2>2 DEF CachedAnalysis
  <2>4. adviceFile.report.analysis \in About /\ downloaded.analysis \in About
    BY <2>1, <2>3, FilesApart DEF About, Carrying, InFile
  <2>5. adviceFile.report.analysis = downloaded.analysis
    BY <2>3, <2>4 DEF ReportsInv, OneById
  <2>6. /\ refreshed'.advice = downloaded.analysis /\ refreshed'.weather = refreshed.weather
        /\ refreshed' \in [advice : Analyses \cup {NoPayload}, weather : Weathers \cup {NoPayload}]
    BY <1>1, <2>1, <2>2
  <2>7. RefreshKept'
    BY <1>1, <2>1, <2>3, <2>5, <2>6 DEF ReportsInv, RefreshKept
  <2>8. About' \subseteq About
    BY <1>1, <2>1 DEF About, Carrying, InFile
  <2>9. ReportTypes'
    BY <1>1, <2>1, <2>6 DEF ReportTypes
  <2> QED
    BY <1>1, <2>7, <2>8, <2>9, NothingNew DEF ReportsInv
<1>4. CASE AdviceSaved
  <2>1. /\ downloaded # NoPayload
        /\ downloaded' = NoPayload /\ adviceFile' = [report |-> downloaded]
        /\ earlier' = [earlier EXCEPT !.advice = adviceFile]
        /\ refreshed' = [refreshed EXCEPT !.advice = downloaded.analysis]
    BY <1>4 DEF AdviceSaved
  <2>2. downloaded \in Goods /\ downloaded.analysis \in Analyses
    BY <1>1, <2>1, GoodPayload
  <2>3. adviceFile' \in AdviceFiles /\ adviceFile'.report = downloaded
    BY <2>1, <2>2 DEF AdviceFiles
  <2>4. /\ refreshed'.advice = downloaded.analysis /\ refreshed'.weather = refreshed.weather
        /\ refreshed' \in [advice : Analyses \cup {NoPayload}, weather : Weathers \cup {NoPayload}]
    BY <1>1, <2>1, <2>2
  <2>5. /\ earlier'.advice = adviceFile
        /\ earlier' \in [advice : AdviceFiles \cup {NoFile, Torn}, weather : WeatherFiles \cup {NoFile, Torn}]
    BY <1>1, <2>1
  <2>6. RefreshKept'
    BY <1>1, <2>3, <2>4 DEF ReportsInv, RefreshKept
  <2>7. InFile(adviceFile') \subseteq Carrying /\ InFile(earlier'.advice) \subseteq InFile(adviceFile)
    BY <2>1, <2>3, <2>5 DEF InFile, Carrying
  <2>8. About' \subseteq About
    BY <1>1, <2>1, <2>7 DEF About, Carrying
  <2>9. ReportTypes'
    BY <1>1, <2>1, <2>3, <2>4, <2>5 DEF ReportTypes
  <2> QED
    BY <1>1, <2>6, <2>8, <2>9, NothingNew DEF ReportsInv
<1>5. CASE SaveFails \/ AgentDies
  <2>1. downloaded' = NoPayload /\ UNCHANGED <<adviceFile, earlier, refreshed>>
    BY <1>5 DEF SaveFails, AgentDies
  <2>2. About' \subseteq About
    BY <1>1, <2>1 DEF About, Carrying, InFile
  <2>3. ReportTypes'
    BY <1>1, <2>1 DEF ReportTypes
  <2> QED
    BY <1>1, <2>1, <2>2, <2>3, NothingNew DEF ReportsInv, RefreshKept
<1> QED
  BY <1>2, <1>3, <1>4, <1>5

LEMMA AnalysisKeeps ==
  ASSUME ReportsInv, BridgeAnalyses
  PROVE  ReportsInv'
<1> DEFINE id == IF newest = NoPayload THEN 1 ELSE newest.id + 1
<1>1. /\ UNCHANGED <<reportTime, downloaded, adviceFile, weatherFile, earlier, refreshed>>
      /\ reportTime \in Nat /\ newest \in Dated \cup {NoPayload}
  BY DEF BridgeAnalyses, ReportsInv, ReportTypes
<1>2. PICK lead \in 0..BridgeAhead :
        newest' = [id |-> id, end |-> reportTime + lead, made |-> reportTime]
  BY DEF BridgeAnalyses
<1>3. newest # NoPayload => newest.id \in Nat
  BY <1>1 DEF Dated, Analyses
<1>4. id \in Nat \ {0} /\ (newest # NoPayload => newest.id < id)
  BY <1>3
<1> HIDE DEF id
<1>5. /\ newest' \in Dated /\ newest' # NoPayload /\ newest'.id = id
  <2>1. newest' \in Analyses
    BY <1>1, <1>2, <1>4, ReportsAssumption DEF Analyses
  <2>2. newest'.id = id /\ newest'.end = reportTime + lead /\ newest'.made = reportTime
    BY <1>2
  <2>3. newest'.made <= newest'.end /\ newest'.end <= newest'.made + BridgeAhead
    BY <1>1, <2>2, ReportsAssumption
  <2> QED
    BY <1>4, <2>1, <2>2, <2>3, ReportTokens DEF Dated
<1>6. About' \subseteq About \cup {newest'}
  BY <1>1 DEF About, Carrying, InFile
<1>7. \A a \in About : a.id < id /\ a.id \in Nat
  <2>1. ASSUME NEW a \in About
        PROVE  a.id \in Nat
    <3>1. CASE a = newest /\ newest # NoPayload
      BY <1>3, <3>1
    <3>2. CASE a \in Carrying
      BY <3>2, GoodPayload DEF Carrying, ReportsInv, ReportTypes
    <3>3. CASE a \in InFile(adviceFile) \/ a \in InFile(earlier.advice)
      <4>1. PICK f \in AdviceFiles : a = f.report.analysis
        BY <3>3 DEF InFile, ReportsInv, ReportTypes
      <4> QED
        BY <4>1, FilesApart, GoodPayload
    <3> QED
      BY <3>1, <3>2, <3>3 DEF About
  <2>2. \A a \in About : newest # NoPayload /\ a.id <= newest.id
    BY DEF ReportsInv, OneById
  <2> QED
    BY <1>3, <1>4, <2>1, <2>2
<1>8. OneById'
  <2>1. \A a \in About' : newest' # NoPayload /\ a.id <= newest'.id
    BY <1>4, <1>5, <1>6, <1>7
  <2>2. ASSUME NEW a \in About', NEW b \in About', a.id = b.id
        PROVE  a = b
    <3>1. CASE a \in About /\ b \in About
      BY <2>2, <3>1 DEF ReportsInv, OneById
    <3>2. CASE a = newest' \/ b = newest'
      BY <1>4, <1>5, <1>6, <1>7, <2>2, <3>2
    <3> QED
      BY <1>6, <3>1, <3>2
  <2> QED
    BY <2>1, <2>2 DEF OneById
<1>9. ReportTypes'
  BY <1>1, <1>5 DEF ReportsInv, ReportTypes
<1> QED
  BY <1>1, <1>8, <1>9 DEF ReportsInv, RefreshKept

LEMMA WeatherKeeps ==
  ASSUME ReportsInv, RefreshWeather
  PROVE  ReportsInv'
<1>1. PICK forecast \in Forecasts :
        /\ weatherFile' = [weather |-> Presented(forecast)]
        /\ refreshed' = [refreshed EXCEPT !.weather = Presented(forecast)]
  BY DEF RefreshWeather
<1>2. /\ earlier' = [earlier EXCEPT !.weather = weatherFile]
      /\ UNCHANGED <<reportTime, newest, downloaded, adviceFile>>
      /\ earlier \in [advice : AdviceFiles \cup {NoFile, Torn}, weather : WeatherFiles \cup {NoFile, Torn}]
      /\ refreshed \in [advice : Analyses \cup {NoPayload}, weather : Weathers \cup {NoPayload}]
      /\ weatherFile \in WeatherFiles \cup {NoFile, Torn}
  BY DEF RefreshWeather, ReportsInv, ReportTypes
<1>3. Presented(forecast) \in Weathers
  BY DEF Presented, Weathers, Forecasts
<1> DEFINE presented == Presented(forecast)
<1>4. weatherFile' = [weather |-> presented] /\ refreshed' = [refreshed EXCEPT !.weather = presented]
      /\ presented \in Weathers
  BY <1>1, <1>3
<1> HIDE DEF presented
<1>5. /\ weatherFile' \in WeatherFiles /\ weatherFile'.weather = presented
      /\ refreshed'.advice = refreshed.advice /\ refreshed'.weather = presented
      /\ refreshed' \in [advice : Analyses \cup {NoPayload}, weather : Weathers \cup {NoPayload}]
  BY <1>2, <1>4 DEF WeatherFiles
<1>6. /\ earlier'.advice = earlier.advice
      /\ earlier' \in [advice : AdviceFiles \cup {NoFile, Torn}, weather : WeatherFiles \cup {NoFile, Torn}]
  BY <1>2
<1>7. About' \subseteq About
  BY <1>2, <1>6 DEF About, Carrying
<1>8. ReportTypes'
  BY <1>2, <1>5, <1>6 DEF ReportsInv, ReportTypes
<1>9. RefreshKept'
  BY <1>2, <1>5 DEF ReportsInv, RefreshKept
<1> QED
  BY <1>2, <1>7, <1>8, <1>9, NothingNew DEF ReportsInv

LEMMA AccidentKeeps ==
  ASSUME ReportsInv, PowerFails \/ DiskTears
  PROVE  ReportsInv'
<1>1. /\ UNCHANGED <<reportTime, newest>>
      /\ refreshed' = [advice |-> NoPayload, weather |-> NoPayload]
  BY DEF PowerFails, DiskTears
<1>2. /\ downloaded' \in {downloaded, NoPayload}
      /\ adviceFile' \in {adviceFile, earlier.advice, Torn}
      /\ weatherFile' \in {weatherFile, earlier.weather, Torn}
      /\ earlier' \in {earlier, [advice |-> adviceFile', weather |-> weatherFile']}
  BY DEF PowerFails, DiskTears
<1>3. /\ adviceFile' \in AdviceFiles \cup {NoFile, Torn}
      /\ weatherFile' \in WeatherFiles \cup {NoFile, Torn}
  BY <1>2 DEF ReportsInv, ReportTypes
<1>4. earlier' \in [advice : AdviceFiles \cup {NoFile, Torn}, weather : WeatherFiles \cup {NoFile, Torn}]
  BY <1>2, <1>3 DEF ReportsInv, ReportTypes
<1>5. ReportTypes'
  BY <1>1, <1>2, <1>3, <1>4 DEF ReportsInv, ReportTypes
<1>6. InFile(adviceFile') \subseteq InFile(adviceFile) \cup InFile(earlier.advice)
  BY <1>2 DEF InFile
<1>7. earlier'.advice \in {earlier.advice, adviceFile'}
  BY <1>2
<1>8. InFile(earlier'.advice) \subseteq InFile(adviceFile) \cup InFile(earlier.advice)
  BY <1>6, <1>7
<1>9. Carrying' \subseteq Carrying
  BY <1>2 DEF Carrying
<1>10. About' \subseteq About
  BY <1>1, <1>6, <1>8, <1>9 DEF About
<1>11. RefreshKept'
  BY <1>1 DEF RefreshKept
<1> QED
  BY <1>1, <1>5, <1>10, <1>11, NothingNew DEF ReportsInv

LEMMA ReportsSteps == ReportsInv /\ [ReportsNext]_reportVars => ReportsInv'
<1> SUFFICES ASSUME ReportsInv, [ReportsNext]_reportVars
             PROVE  ReportsInv'
  OBVIOUS
<1>1. ASSUME reportTime' \in Nat,
             UNCHANGED <<newest, downloaded, adviceFile, weatherFile, earlier, refreshed>>
      PROVE  ReportsInv'
  BY <1>1 DEF ReportsInv, ReportTypes, OneById, RefreshKept, About, Carrying, InFile
<1>2. CASE PollPasses \/ UNCHANGED reportVars
  BY <1>1, <1>2 DEF PollPasses, reportVars, ReportsInv, ReportTypes
<1> QED
  BY <1>2, AdviceSteps, AnalysisKeeps, WeatherKeeps, AccidentKeeps DEF ReportsNext

-----------------------------------------------------------------------------
(* The SERVICE page *)

Stages == {"idle", "core", "alerts", "power", "telemetry", "ai", "summary"}

PageTypes ==
  /\ asking \in Stages
  /\ \A s \in DOMAIN faulty : faulty[s] \in Health
  /\ \A s \in DOMAIN read : read[s] \in Health
  /\ screen = [connection |-> screen.connection, tiles |-> screen.tiles, during |-> screen.during]

\* The sources that were asked at a stage, if the core answered.
Asked ==
  CASE asking = "power" -> {}
    [] asking = "telemetry" -> {"power"}
    [] asking = "ai" -> {"power", "telemetry"}
    [] asking = "summary" -> {"power", "telemetry", "ai"}
    [] OTHER -> {}

\* What the provider was told was so since the poll began, and what it was not told
\* of the core or the alerts is missing because the core did not answer.
Told ==
  asking # "idle" =>
    /\ \A s \in Sources : <<s, HealthOf(s)>> \in met
    /\ \A s \in DOMAIN read : <<s, read[s]>> \in met
    /\ Asked \subseteq DOMAIN read
    /\ asking # "core" => InStatus \subseteq DOMAIN read \/ <<"core", "gone">> \in met
    /\ asking \notin {"core", "alerts"} => "alerts" \in DOMAIN read \/ <<"core", "gone">> \in met

PageInv == PageTypes /\ Told /\ TilesTrue

LEMMA HealthTyped ==
  ASSUME PageTypes, NEW s
  PROVE  HealthOf(s) \in Health
  BY DEF PageTypes, HealthOf, Health

LEMMA PageStarts == PageInit => PageInv
<1> SUFFICES ASSUME PageInit
             PROVE  PageInv
  OBVIOUS
<1>1. DOMAIN NoneAt = {}
  BY DEF NoneAt
<1>2. \A s \in DOMAIN faulty : faulty[s] \in Health
  <2>1. ASSUME NEW s \in Sources, faulty = With(NoneAt, s, "bad")
        PROVE  \A x \in DOMAIN faulty : faulty[x] \in Health
    BY <1>1, <2>1 DEF With, Health
  <2> QED
    BY <1>1, <2>1 DEF PageInit
<1>3. PageTypes
  BY <1>1, <1>2 DEF PageInit, PageTypes, Stages
<1> QED
  BY <1>3 DEF PageInit, PageInv, Told, TilesTrue

LEMMA ChangeKeeps ==
  ASSUME PageInv, NEW s \in Sources, NEW h \in Health, SourceChanges(s, h)
  PROVE  PageInv'
<1>1. /\ UNCHANGED <<asking, read, screen>>
      /\ faulty' = IF h = "good" THEN Without(faulty, s) ELSE With(faulty, s, h)
      /\ met' = IF asking = "idle" THEN met ELSE met \cup {<<s, h>>}
  BY DEF SourceChanges
<1>2. /\ HealthOf(s)' = h
      /\ \A x : x # s => HealthOf(x)' = HealthOf(x)
      /\ \A x \in DOMAIN faulty' : faulty'[x] \in Health
  <2>1. CASE h = "good"
    BY <1>1, <2>1 DEF Without, HealthOf, PageInv, PageTypes
  <2>2. CASE h # "good"
    <3>1. faulty' = With(faulty, s, h)
      BY <1>1, <2>2
    <3>2. /\ DOMAIN faulty' = DOMAIN faulty \cup {s} /\ faulty'[s] = h
          /\ \A x \in DOMAIN faulty : x # s => faulty'[x] = faulty[x]
      BY <3>1 DEF With
    <3> QED
      BY <3>2 DEF HealthOf, PageInv, PageTypes
  <2> QED
    BY <2>1, <2>2
<1>3. PageTypes'
  BY <1>1, <1>2 DEF PageInv, PageTypes
<1>4. Told'
  <2>1. ASSUME asking # "idle"
        PROVE  \A x \in Sources : <<x, HealthOf(x)'>> \in met'
    <3>1. ASSUME NEW x \in Sources, x # s
          PROVE  <<x, HealthOf(x)'>> \in met'
      BY <1>1, <1>2, <2>1, <3>1 DEF PageInv, Told
    <3>2. <<s, HealthOf(s)'>> \in met'
      BY <1>1, <1>2, <2>1
    <3> QED
      BY <3>1, <3>2
  <2>2. asking # "idle" => met \subseteq met' /\ Told
    BY <1>1 DEF PageInv
  <2>3. UNCHANGED <<Asked, read>>
    BY <1>1 DEF Asked
  <2> QED
    BY <1>1, <2>1, <2>2, <2>3 DEF Told
<1>5. TilesTrue'
  BY <1>1 DEF PageInv, TilesTrue
<1> QED
  BY <1>3, <1>4, <1>5 DEF PageInv

LEMMA PollKeeps ==
  ASSUME PageInv, PollStarts
  PROVE  PageInv'
<1>1. /\ asking' = "core" /\ read' = NoneAt /\ met' = {<<s, HealthOf(s)>> : s \in Sources}
      /\ UNCHANGED <<faulty, screen>>
  BY DEF PollStarts
<1>2. DOMAIN read' = {}
  BY <1>1 DEF NoneAt
<1>3. PageTypes'
  BY <1>1, <1>2 DEF PageInv, PageTypes, Stages
<1>4. Told'
  BY <1>1, <1>2 DEF Told, HealthOf, Asked
<1>5. TilesTrue'
  BY <1>1 DEF PageInv, TilesTrue
<1> QED
  BY <1>3, <1>4, <1>5 DEF PageInv

\* A source that is asked tells what it is.
LEMMA AskKeepsTold ==
  ASSUME PageInv, asking # "idle", NEW s \in Sources,
         read' = With(read, s, HealthOf(s)),
         UNCHANGED <<faulty, met, screen>>
  PROVE  /\ DOMAIN read' = DOMAIN read \cup {s}
         /\ \A x \in DOMAIN read' : <<x, read'[x]>> \in met' /\ read'[x] \in Health
         /\ \A x \in Sources : <<x, HealthOf(x)'>> \in met'
<1>1. /\ DOMAIN read' = DOMAIN read \cup {s} /\ read'[s] = HealthOf(s)
      /\ \A x \in DOMAIN read : x # s => read'[x] = read[x]
  BY DEF With
<1>2. \A x \in Sources : <<x, HealthOf(x)>> \in met
  BY DEF PageInv, Told
<1>3. \A x \in DOMAIN read : <<x, read[x]>> \in met /\ read[x] \in Health
  BY DEF PageInv, Told, PageTypes
<1>4. HealthOf(s) \in Health
  BY HealthTyped DEF PageInv
<1> QED
  BY <1>1, <1>2, <1>3, <1>4 DEF HealthOf

LEMMA AsksKeep ==
  ASSUME PageInv, AskStatus \/ AskAlerts \/ AskRest
  PROVE  PageInv'
<1>1. /\ UNCHANGED <<faulty, met, screen>>
      /\ asking # "idle" /\ asking' \in Stages \ {"idle"}
  BY DEF AskStatus, AskAlerts, AskRest, AskSource, Stages
<1>2. TilesTrue'
  BY <1>1 DEF PageInv, TilesTrue
<1>3. \A x \in Sources : HealthOf(x)' = HealthOf(x) /\ <<x, HealthOf(x)>> \in met
  BY <1>1 DEF HealthOf, PageInv, Told
<1>4. \A x \in DOMAIN read : <<x, read[x]>> \in met /\ read[x] \in Health
  BY <1>1 DEF PageInv, Told, PageTypes
<1>5. CASE AskStatus
  <2>1. CASE HealthOf("core") = "gone"
    <3>1. asking' = "power" /\ read' = read
      BY <1>5, <2>1 DEF AskStatus
    <3>2. <<"core", "gone">> \in met
      BY <1>3, <2>1 DEF Sources, InStatus
    <3>3. Told'
      BY <1>1, <1>3, <1>4, <3>1, <3>2 DEF Told, Asked
    <3>4. PageTypes'
      BY <1>1, <1>4, <3>1 DEF PageInv, PageTypes
    <3> QED
      BY <1>2, <3>3, <3>4 DEF PageInv
  <2>2. CASE HealthOf("core") # "gone"
    <3>1. asking' = "alerts" /\ read' = [s \in InStatus |-> HealthOf(s)]
      BY <1>5, <2>2 DEF AskStatus
    <3>2. DOMAIN read' = InStatus /\ \A s \in InStatus : read'[s] = HealthOf(s)
      BY <3>1
    <3>3. \A s \in InStatus : <<s, HealthOf(s)>> \in met /\ HealthOf(s) \in Health
      BY <1>3, HealthTyped DEF Sources, PageInv
    <3>4. Told'
      BY <1>1, <1>3, <3>1, <3>2, <3>3 DEF Told, Asked
    <3>5. PageTypes'
      BY <1>1, <3>2, <3>3 DEF PageInv, PageTypes
    <3> QED
      BY <1>2, <3>4, <3>5 DEF PageInv
  <2> QED
    BY <2>1, <2>2
<1>6. CASE AskAlerts
  <2>1. asking = "alerts" /\ asking' = "power"
    BY <1>6 DEF AskAlerts
  <2>2. CASE HealthOf("core") = "gone"
    <3>1. read' = read
      BY <1>6, <2>2 DEF AskAlerts
    <3>2. <<"core", "gone">> \in met
      BY <1>3, <2>2 DEF Sources, InStatus
    <3>3. Told'
      BY <1>1, <1>3, <1>4, <2>1, <3>1, <3>2 DEF Told, Asked
    <3>4. PageTypes'
      BY <1>1, <1>4, <3>1 DEF PageInv, PageTypes
    <3> QED
      BY <1>2, <3>3, <3>4 DEF PageInv
  <2>3. CASE HealthOf("core") # "gone"
    <3>1. read' = With(read, "alerts", HealthOf("alerts"))
      BY <1>6, <2>3 DEF AskAlerts
    <3>2. /\ DOMAIN read' = DOMAIN read \cup {"alerts"}
          /\ \A x \in DOMAIN read' : <<x, read'[x]>> \in met' /\ read'[x] \in Health
          /\ \A x \in Sources : <<x, HealthOf(x)'>> \in met'
      BY <1>1, <3>1, AskKeepsTold DEF Sources
    <3>3. InStatus \subseteq DOMAIN read \/ <<"core", "gone">> \in met
      BY <2>1 DEF PageInv, Told
    <3>4. Told'
      BY <1>1, <2>1, <3>2, <3>3 DEF Told, Asked
    <3>5. PageTypes'
      BY <1>1, <3>2 DEF PageInv, PageTypes
    <3> QED
      BY <1>2, <3>4, <3>5 DEF PageInv
  <2> QED
    BY <2>2, <2>3
<1>7. CASE AskRest
  <2>1. PICK s \in {"power", "telemetry", "ai"} :
          /\ asking = s /\ read' = With(read, s, HealthOf(s))
          /\ asking' = IF s = "power" THEN "telemetry" ELSE IF s = "telemetry" THEN "ai" ELSE "summary"
    BY <1>7 DEF AskRest, AskSource
  <2>2. /\ DOMAIN read' = DOMAIN read \cup {s}
        /\ \A x \in DOMAIN read' : <<x, read'[x]>> \in met' /\ read'[x] \in Health
        /\ \A x \in Sources : <<x, HealthOf(x)'>> \in met'
    BY <1>1, <2>1, AskKeepsTold DEF Sources
  <2>3. /\ Asked \subseteq DOMAIN read
        /\ InStatus \subseteq DOMAIN read \/ <<"core", "gone">> \in met
        /\ "alerts" \in DOMAIN read \/ <<"core", "gone">> \in met
    BY <2>1 DEF PageInv, Told
  <2>4. Asked' \subseteq DOMAIN read'
    BY <2>1, <2>2, <2>3 DEF Asked
  <2>5. Told'
    BY <1>1, <2>2, <2>3, <2>4 DEF Told
  <2>6. PageTypes'
    BY <1>1, <2>2 DEF PageInv, PageTypes
  <2> QED
    BY <1>2, <2>5, <2>6 DEF PageInv
<1> QED
  BY <1>5, <1>6, <1>7

\* What a tile says of a source that was asked, or of one that could not be asked.
LEMMA TileSays ==
  ASSUME PageInv, asking = "summary", NEW s \in InStatus \cup {"power", "telemetry", "ai"}
  PROVE  /\ Tile(s) \in {"ok", "warning", "unavailable"}
         /\ Tile(s) = "ok" => <<s, "good">> \in met
         /\ Tile(s) = "warning" => <<s, "bad">> \in met
         /\ Tile(s) = "unavailable" => <<s, "gone">> \in met \/ <<"core", "gone">> \in met
<1>1. s \in DOMAIN read => <<s, read[s]>> \in met /\ read[s] \in Health
  BY DEF PageInv, Told, PageTypes
<1>2. s \notin DOMAIN read => <<"core", "gone">> \in met
  BY DEF PageInv, Told, Asked
<1>3. Tile(s) = IF Reads(s, "good") THEN "ok" ELSE IF Reads(s, "bad") THEN "warning" ELSE "unavailable"
  BY DEF Tile, Reads
<1> QED
  BY <1>1, <1>2, <1>3 DEF Reads, Health

LEMMA DrawKeeps ==
  ASSUME PageInv, Draw
  PROVE  PageInv'
<1>1. /\ asking = "summary" /\ asking' = "idle"
      /\ screen' = [connection |-> "good", tiles |-> Tiles, during |-> met]
      /\ UNCHANGED <<faulty, read, met>>
  BY DEF Draw
<1>2. PageTypes' /\ Told'
  BY <1>1 DEF PageInv, PageTypes, Told, Stages
<1> DEFINE tiles == Tiles
           names == {"system", "core", "dac", "sensor_bus", "aero", "zigbee", "ai", "telemetry"}
<1>3. screen'.tiles = tiles /\ screen'.during = met
  BY <1>1
<1>4. /\ DOMAIN tiles = names
      /\ tiles.system = IF Reads("power", "bad") THEN "critical" ELSE Tile("power")
      /\ tiles.core = IF "core" \notin DOMAIN read \/ Reads("alerts", "bad") THEN "critical" ELSE Tile("core")
      /\ tiles.telemetry = IF Reads("telemetry", "good") THEN "ok" ELSE "warning"
      /\ tiles["dac"] = Tile("core") /\ tiles["sensor_bus"] = Tile("sensor_bus")
      /\ tiles["aero"] = Tile("aero") /\ tiles["zigbee"] = Tile("zigbee") /\ tiles["ai"] = Tile("ai")
  BY DEF Tiles
<1> HIDE DEF tiles
<1>5. \A s \in Sources : \A h : Reads(s, h) => <<s, h>> \in met
  BY <1>1 DEF PageInv, Told, Reads
<1>6. /\ "power" \in DOMAIN read /\ "telemetry" \in DOMAIN read
      /\ InStatus \subseteq DOMAIN read \/ <<"core", "gone">> \in met
      /\ "alerts" \in DOMAIN read \/ <<"core", "gone">> \in met
  BY <1>1 DEF PageInv, Told, Asked
<1> DEFINE True(t) ==
      CASE tiles[t] = "ok" -> <<SourceOf(t), "good">> \in met
        [] tiles[t] = "unavailable" -> <<SourceOf(t), "gone">> \in met \/ <<"core", "gone">> \in met
        [] OTHER -> \/ <<SourceOf(t), "bad">> \in met \/ <<SourceOf(t), "gone">> \in met
                    \/ t = "core" /\ <<"alerts", "bad">> \in met
<1>7. ASSUME NEW t \in {"dac", "sensor_bus", "aero", "zigbee", "ai"}
      PROVE  True(t)
  <2>1. SourceOf(t) \in InStatus \cup {"ai"} /\ tiles[t] = Tile(SourceOf(t))
    BY <1>4 DEF SourceOf, InStatus
  <2> DEFINE s == SourceOf(t)
  <2>2. s \in InStatus \cup {"ai"} /\ tiles[t] = Tile(s)
    BY <2>1
  <2> HIDE DEF s
  <2>3. /\ Tile(s) \in {"ok", "warning", "unavailable"}
        /\ Tile(s) = "ok" => <<s, "good">> \in met
        /\ Tile(s) = "warning" => <<s, "bad">> \in met
        /\ Tile(s) = "unavailable" => <<s, "gone">> \in met \/ <<"core", "gone">> \in met
    BY <1>1, <2>2, TileSays
  <2>4. CASE tiles[t] = "ok"
    BY <2>2, <2>3, <2>4 DEF s
  <2>5. CASE tiles[t] = "unavailable"
    BY <2>2, <2>3, <2>5 DEF s
  <2>6. CASE tiles[t] = "warning"
    BY <2>2, <2>3, <2>6 DEF s
  <2> QED
    BY <2>2, <2>3, <2>4, <2>5, <2>6
<1>8. True("system")
  <2>1. SourceOf("system") = "power" /\ "power" \in Sources
    BY DEF SourceOf, Sources
  <2>2. CASE Reads("power", "bad")
    BY <1>4, <1>5, <2>1, <2>2
  <2>3. CASE ~Reads("power", "bad")
    BY <1>1, <1>4, <2>1, <2>3, TileSays
  <2> QED
    BY <2>2, <2>3
<1>9. True("telemetry")
  <2>1. SourceOf("telemetry") = "telemetry" /\ "telemetry" \in Sources
    BY DEF SourceOf, Sources
  <2>2. read["telemetry"] \in Health
    BY <1>6 DEF PageInv, PageTypes
  <2>3. \E h \in Health : Reads("telemetry", h)
    BY <1>6, <2>2 DEF Reads
  <2> QED
    BY <1>4, <1>5, <2>1, <2>3 DEF Health
<1>10. True("core")
  <2>1. SourceOf("core") = "core" /\ "core" \in InStatus /\ "alerts" \in Sources
    BY DEF SourceOf, InStatus, Sources
  <2>2. CASE "core" \notin DOMAIN read
    BY <1>4, <1>6, <2>1, <2>2
  <2>3. CASE Reads("alerts", "bad")
    BY <1>4, <1>5, <2>1, <2>3
  <2>4. CASE "core" \in DOMAIN read /\ ~Reads("alerts", "bad")
    BY <1>1, <1>4, <2>1, <2>4, TileSays
  <2> QED
    BY <2>2, <2>3, <2>4
<1>11. tiles.core = "ok" =>
         <<"alerts", "good">> \in met \/ <<"alerts", "gone">> \in met \/ <<"core", "gone">> \in met
  <2>1. ASSUME tiles.core = "ok", "alerts" \in DOMAIN read
        PROVE  <<"alerts", "good">> \in met \/ <<"alerts", "gone">> \in met
    <3>1. ~Reads("alerts", "bad")
      BY <1>4, <2>1
    <3>2. read["alerts"] \in Health /\ <<"alerts", read["alerts"]>> \in met
      BY <1>1, <2>1 DEF PageInv, PageTypes, Told
    <3> QED
      BY <2>1, <3>1, <3>2 DEF Reads, Health
  <2> QED
    BY <1>6, <2>1
<1>12. \A t \in names : True(t)
  BY <1>7, <1>8, <1>9, <1>10
<1>13. TilesTrue'
  BY <1>3, <1>4, <1>11, <1>12 DEF TilesTrue
<1> QED
  BY <1>2, <1>13 DEF PageInv

LEMMA PageSteps == PageInv /\ [PageNext]_pageVars => PageInv'
<1> SUFFICES ASSUME PageInv, [PageNext]_pageVars
             PROVE  PageInv'
  OBVIOUS
<1>1. CASE SnapshotRaises \/ PollFails
  <2>1. asking' = "idle" /\ UNCHANGED <<faulty, read>>
    BY <1>1 DEF SnapshotRaises, PollFails
  <2>2. \/ screen' = [screen EXCEPT !.connection = "bad", !.tiles = NoTiles]
        \/ screen' = [screen EXCEPT !.connection = "bad"]
    BY <1>1 DEF SnapshotRaises, PollFails
  <2>3. screen = [connection |-> screen.connection, tiles |-> screen.tiles, during |-> screen.during]
    BY DEF PageInv, PageTypes
  <2>4. /\ screen' = [connection |-> screen'.connection, tiles |-> screen'.tiles, during |-> screen'.during]
        /\ screen'.connection = "bad"
    BY <2>2, <2>3
  <2> QED
    BY <2>1, <2>4 DEF PageInv, PageTypes, Stages, Told, TilesTrue
<1>2. CASE UNCHANGED pageVars
  <2>1. UNCHANGED <<faulty, asking, read, met, screen>>
    BY <1>2 DEF pageVars
  <2> QED
    BY <2>1 DEF PageInv, PageTypes, Told, TilesTrue, HealthOf, Asked
<1> QED
  BY <1>1, <1>2, ChangeKeeps, PollKeeps, AsksKeep, DrawKeeps DEF PageNext

-----------------------------------------------------------------------------
(* The alert policy *)

\* A policy in use was validated, whatever the file holds by now.
PolicyInv == PolicyLoaded => Valid(manager.policy)

LEMMA PolicyStarts == PolicyInit => PolicyInv
  BY DEF PolicyInit, PolicyInv, PolicyLoaded

LEMMA PolicySteps == PolicyInv /\ [PolicyNext]_policyVars => PolicyInv'
<1> SUFFICES ASSUME PolicyInv, [PolicyNext]_policyVars
             PROVE  PolicyInv'
  OBVIOUS
<1>1. CASE CoreStarts
  <2>1. manager' = Reloaded(NoDocument)
    BY <1>1 DEF CoreStarts
  <2>2. CASE policyFile # NoDocument /\ Valid(policyFile)
    <3>1. manager'.policy = policyFile
      BY <2>1, <2>2 DEF Reloaded
    <3> QED
      BY <2>2, <3>1 DEF PolicyInv
  <2>3. CASE ~(policyFile # NoDocument /\ Valid(policyFile))
    <3>1. manager'.policy = NoDocument
      BY <2>1, <2>3 DEF Reloaded
    <3> QED
      BY <3>1 DEF PolicyInv, PolicyLoaded
  <2> QED
    BY <2>2, <2>3
<1>2. CASE CoreEnds
  BY <1>2 DEF CoreEnds, PolicyInv, PolicyLoaded
<1>3. CASE EditPolicy \/ UNCHANGED policyVars
  <2>1. UNCHANGED manager
    BY <1>3 DEF EditPolicy, policyVars
  <2> QED
    BY <2>1 DEF PolicyInv, PolicyLoaded
<1> QED
  BY <1>1, <1>2, <1>3 DEF PolicyNext

LEMMA HasMost ==
  ASSUME NEW S, S \subseteq Weights, S # {}
  PROVE  Max(S) \in S /\ \A x \in S : x <= Max(S)
<1>1. \E m \in S : \A x \in S : m >= x
  <2>1. ASSUME NEW m \in S, \A x \in S : x <= m
        PROVE  \E n \in S : \A x \in S : n >= x
    <3>1. \A x \in S : x \in Nat
      BY DEF Weights
    <3> QED
      BY <2>1, <3>1
  <2>2. \A x \in S : x \in {0, 1, 2, 3, 4}
    BY DEF Weights
  <2>3. CASE 4 \in S
    BY <2>1, <2>2, <2>3
  <2>4. CASE 3 \in S /\ 4 \notin S
    BY <2>1, <2>2, <2>4
  <2>5. CASE 2 \in S /\ 3 \notin S /\ 4 \notin S
    BY <2>1, <2>2, <2>5
  <2>6. CASE S \subseteq {0, 1}
    <3>1. CASE 1 \in S
      BY <2>1, <2>2, <2>6, <3>1
    <3>2. CASE 1 \notin S
      <4>1. S = {0}
        BY <2>6, <3>2
      <4> QED
        BY <2>1, <4>1
    <3> QED
      BY <3>1, <3>2
  <2> QED
    BY <2>2, <2>3, <2>4, <2>5, <2>6
<1>2. Max(S) \in S /\ \A x \in S : Max(S) >= x
  BY <1>1 DEF Max
<1>3. \A x \in S : x \in Nat
  BY DEF Weights
<1> QED
  BY <1>2, <1>3

\* The weight shown is that of a counted alert, or 0, and none weighs more.
LEMMA WeightShown ==
  ASSUME Valid(manager.policy), NEW active
  PROVE  /\ ActiveWeight(active) \in Weights
         /\ \A c \in Counted(active) : Entry(c).weight <= ActiveWeight(active)
         /\ ActiveWeight(active) # 0 =>
              \E c \in Counted(active) : Entry(c).weight = ActiveWeight(active)
<1> DEFINE weights == {0} \cup {Entry(c).weight : c \in Counted(active)}
<1>1. \A c \in Counted(active) : Entry(c).weight \in Weights
  BY DEF Valid, ValidEntry, Counted, Mapped, Entry
<1>2. weights \subseteq Weights /\ weights # {}
  BY <1>1 DEF Weights
<1>3. ActiveWeight(active) = Max(weights)
  BY DEF ActiveWeight
<1>4. /\ \A c \in Counted(active) : Entry(c).weight \in weights
      /\ \A x \in weights : x = 0 \/ \E c \in Counted(active) : Entry(c).weight = x
  OBVIOUS
<1> HIDE DEF weights
<1>5. Max(weights) \in weights /\ \A x \in weights : x <= Max(weights)
  BY <1>2, HasMost
<1> QED
  BY <1>2, <1>3, <1>4, <1>5

LEMMA RequiredCounts ==
  ASSUME Valid(manager.policy), NEW active, NEW c \in active, c \in RequiredSafety
  PROVE  c \in Counted(active) /\ Entry(c).weight \in Weights
         /\ (c \in MandatedCodes => Entry(c).weight = Mandated(c).weight)
<1>1. c \in Mapped /\ Entry(c).enabled
  BY DEF Valid, ValidRequired, Mapped, Entry
<1>2. Entry(c).weight \in Weights
  BY <1>1 DEF Valid, ValidEntry, Mapped, Entry
<1>3. c \in MandatedCodes => Entry(c).weight = Mandated(c).weight
  BY <1>1 DEF Valid, ValidContract, Mapped, Entry
<1> QED
  BY <1>1, <1>2, <1>3 DEF Counted

LEMMA PolicyHolds == PolicyInv => PolicyHonest
<1> SUFFICES ASSUME PolicyInv, PolicyLoaded, NEW active \in SUBSET Codes
             PROVE  /\ active \cap {"DAC_COMMUNICATION_LOST", "DAC_OUTPUT_MISMATCH"} # {} =>
                         ActiveWeight(active) = 4
                    /\ "DAC_STATE_UNCERTAIN" \in active => ActiveWeight(active) >= 3
                    /\ \A c \in active : Decorated(c).mapped =>
                         /\ c \in TachoDiagnostics \cup NonControl => ~Decorated(c).affects
                         /\ Decorated(c).reaction = "safe_state" => c \notin TachoDiagnostics \cup FanFeedback
                    /\ ActiveWeight(active) # 0 =>
                         \E c \in active : Decorated(c).mapped /\ Decorated(c).colour = ActiveWeight(active)
                    /\ ActiveWeight(active) = 0 =>
                         \A c \in active : Decorated(c).mapped /\ Decorated(c).weight > 0 => c \in Disabled(active)
  BY DEF PolicyHonest
<1>1. Valid(manager.policy)
  BY DEF PolicyInv
<1>2. ActiveWeight(active) \in 0..4
  BY <1>1, WeightShown DEF Weights
<1>3. ASSUME NEW c \in active, c \in {"DAC_COMMUNICATION_LOST", "DAC_OUTPUT_MISMATCH"}
      PROVE  ActiveWeight(active) = 4
  <2>1. c \in RequiredSafety /\ c \in MandatedCodes /\ Mandated(c).weight = 4
    BY <1>3 DEF RequiredSafety, MandatedCodes, Mandated
  <2>2. c \in Counted(active) /\ Entry(c).weight = 4
    BY <1>1, <2>1, RequiredCounts
  <2> QED
    BY <1>1, <1>2, <2>2, WeightShown
<1>4. ASSUME "DAC_STATE_UNCERTAIN" \in active
      PROVE  ActiveWeight(active) >= 3
  <2> DEFINE c == "DAC_STATE_UNCERTAIN"
  <2>1. c \in RequiredSafety /\ c \in MandatedCodes /\ Mandated(c).weight = 3
    BY DEF RequiredSafety, MandatedCodes, Mandated
  <2>2. c \in Counted(active) /\ Entry(c).weight = 3
    BY <1>1, <1>4, <2>1, RequiredCounts
  <2> QED
    BY <1>1, <1>2, <2>2, WeightShown
<1>5. ASSUME NEW c \in active, Decorated(c).mapped
      PROVE  /\ c \in Mapped
             /\ Decorated(c).weight = Entry(c).weight /\ Decorated(c).colour = Entry(c).colour
             /\ Decorated(c).reaction = Entry(c).reaction /\ Decorated(c).affects = Entry(c).affects
  BY <1>5 DEF Decorated
<1>6. ASSUME NEW c \in active, Decorated(c).mapped
      PROVE  /\ c \in TachoDiagnostics \cup NonControl => ~Decorated(c).affects
             /\ Decorated(c).reaction = "safe_state" => c \notin TachoDiagnostics \cup FanFeedback
  <2>1. c \in Mapped /\ Decorated(c).reaction = Entry(c).reaction /\ Decorated(c).affects = Entry(c).affects
    BY <1>5, <1>6
  <2>2. /\ c \in TachoDiagnostics => Entry(c).reaction \in Harmless /\ ~Entry(c).affects
        /\ c \in FanFeedback => Entry(c).reaction \notin {"safe_state", "recover_safe_outputs"}
        /\ c \in NonControl => ~Entry(c).affects
    BY <1>1, <2>1 DEF Valid, ValidContract, Mapped, Entry
  <2> QED
    BY <2>1, <2>2 DEF Harmless
<1>7. ASSUME ActiveWeight(active) # 0
      PROVE  \E c \in active : Decorated(c).mapped /\ Decorated(c).colour = ActiveWeight(active)
  <2>1. PICK c \in Counted(active) : Entry(c).weight = ActiveWeight(active)
    BY <1>1, <1>7, WeightShown
  <2>2. c \in active /\ c \in Mapped
    BY DEF Counted
  <2>3. Entry(c).colour = Entry(c).weight
    BY <1>1, <2>2 DEF Valid, ValidEntry, Mapped, Entry
  <2>4. Decorated(c).mapped /\ Decorated(c).colour = Entry(c).colour
    BY <2>2 DEF Decorated
  <2> QED
    BY <2>1, <2>2, <2>3, <2>4
<1>8. ASSUME ActiveWeight(active) = 0, NEW c \in active, Decorated(c).mapped, Decorated(c).weight > 0
      PROVE  c \in Disabled(active)
  <2>1. c \in Mapped /\ Entry(c).weight > 0
    BY <1>5, <1>8
  <2>2. Entry(c).weight \in 0..4
    BY <1>1, <2>1 DEF Valid, ValidEntry, Mapped, Entry, Weights
  <2>3. c \notin Counted(active)
    BY <1>1, <1>8, <2>1, <2>2, WeightShown
  <2> QED
    BY <2>1, <2>3 DEF Disabled
<1> QED
  BY <1>3, <1>4, <1>6, <1>7, <1>8

-----------------------------------------------------------------------------
(* The SHADOW advice *)

\* What is known of readings and of a valid tuning.
Measured(r) ==
  r.pm \in Quantity /\ r.voc \in Quantity /\ r.nox \in Quantity /\ r.temperature \in Quantity
Fit(t) ==
  /\ \A l \in Levels : t.air[l] \in (0..100) \cup {Absent} /\ t.aero[l] \in (0..3) \cup {Absent}
  /\ \A b \in Bands : t.limit[b] \in (0..100) \cup {Absent}
  /\ t.bias \in (0..100) \cup {Absent}
  /\ Rising(t.air) /\ Rising(t.aero)

\* An input that is there in r is there in s, and no better.
NoBetter(r, s) ==
  /\ \A i \in {"pm", "voc", "nox"} : r[i] # Absent => s[i] # Absent /\ s[i] >= r[i]
  /\ r.temperature = s.temperature

LEMMA NoneIsNoNumber == Absent \notin Int /\ Absent \notin Levels
  BY ShadowAssumption DEF Levels

LEMMA LevelTyped ==
  ASSUME NEW r, Measured(r), NEW i \in Inputs
  PROVE  LevelOf(i, r) \in Levels \cup {Absent}
<1>1. Strict(r.pm, 15, 25, 50) \in Levels \cup {Absent}
  BY DEF Strict, Levels
<1>2. Contiguous(r.voc, 150, 200, 300) \in Levels \cup {Absent}
  BY DEF Contiguous, Levels
<1>3. Strict(r.nox, 10, 50, 100) \in Levels \cup {Absent}
  BY DEF Strict, Levels
<1> QED
  BY <1>1, <1>2, <1>3 DEF LevelOf, Inputs

\* The level of the air is the worst that an input gives, if any gives one.
LEMMA AirLevelIs ==
  ASSUME NEW r, Measured(r)
  PROVE  /\ Available(r) = {} => AirLevel(r) = Absent
         /\ Available(r) # {} =>
              /\ \E i \in Available(r) : AirLevel(r) = LevelOf(i, r)
              /\ \A i \in Available(r) : LevelOf(i, r) <= AirLevel(r)
         /\ \A i \in Available(r) : LevelOf(i, r) \in Levels
         /\ AirLevel(r) \in Levels \cup {Absent}
         /\ AirLevel(r) = Absent => Available(r) = {}
<1>1. \A i \in Available(r) : LevelOf(i, r) \in Levels
  BY LevelTyped DEF Available
<1>2. Available(r) = {} => AirLevel(r) = Absent
  BY DEF AirLevel
<1>3. ASSUME Available(r) # {}
      PROVE  /\ \E i \in Available(r) : AirLevel(r) = LevelOf(i, r)
             /\ \A i \in Available(r) : LevelOf(i, r) <= AirLevel(r)
  <2> DEFINE found == {LevelOf(i, r) : i \in Available(r)}
  <2>1. AirLevel(r) = CHOOSE l \in found : \A i \in Available(r) : LevelOf(i, r) <= l
    BY <1>3 DEF AirLevel
  <2>2. \A i \in Available(r) : LevelOf(i, r) \in {0, 1, 2, 3}
    BY <1>1 DEF Levels
  <2>3. \E j \in Available(r) : \A i \in Available(r) : LevelOf(i, r) <= LevelOf(j, r)
    <3>1. CASE \E j \in Available(r) : LevelOf(j, r) = 3
      BY <2>2, <3>1
    <3>2. CASE /\ \E j \in Available(r) : LevelOf(j, r) = 2
               /\ \A j \in Available(r) : LevelOf(j, r) # 3
      BY <2>2, <3>2
    <3>3. CASE /\ \E j \in Available(r) : LevelOf(j, r) = 1
               /\ \A j \in Available(r) : LevelOf(j, r) \notin {2, 3}
      BY <2>2, <3>3
    <3>4. CASE \A j \in Available(r) : LevelOf(j, r) = 0
      BY <1>3, <3>4
    <3> QED
      BY <2>2, <3>1, <3>2, <3>3, <3>4
  <2>4. \E l \in found : \A i \in Available(r) : LevelOf(i, r) <= l
    BY <2>3
  <2>5. \A l \in found : \E i \in Available(r) : l = LevelOf(i, r)
    OBVIOUS
  <2> HIDE DEF found
  <2>6. AirLevel(r) \in found /\ \A i \in Available(r) : LevelOf(i, r) <= AirLevel(r)
    BY <2>1, <2>4
  <2> QED
    BY <2>5, <2>6
<1> QED
  BY <1>1, <1>2, <1>3, NoneIsNoNumber

\* Air that is no better has no better level.
LEMMA NoBetterLevel ==
  ASSUME NEW r, NEW s, Measured(r), Measured(s), NoBetter(r, s), AirLevel(r) # Absent
  PROVE  /\ AirLevel(r) \in Levels /\ AirLevel(s) \in Levels
         /\ AirLevel(r) <= AirLevel(s) /\ Band(r.temperature) = Band(s.temperature)
<1>1. /\ r.pm # Absent => s.pm # Absent /\ s.pm >= r.pm
      /\ r.voc # Absent => s.voc # Absent /\ s.voc >= r.voc
      /\ r.nox # Absent => s.nox # Absent /\ s.nox >= r.nox
      /\ r.temperature = s.temperature
  BY DEF NoBetter
<1>2. ASSUME NEW i \in Inputs, LevelOf(i, r) # Absent
      PROVE  LevelOf(i, s) # Absent /\ LevelOf(i, r) <= LevelOf(i, s)
  <2>1. CASE i = "PM2_5"
    <3>1. Strict(r.pm, 15, 25, 50) # Absent
      BY <1>2, <2>1 DEF LevelOf
    <3>2. r.pm \in Int /\ s.pm \in Int /\ r.pm # Absent /\ s.pm # Absent /\ s.pm >= r.pm
      BY <1>1, <3>1 DEF Strict, Measured, Quantity
    <3>3. /\ Strict(s.pm, 15, 25, 50) \in 0..3 /\ Strict(r.pm, 15, 25, 50) \in 0..3
          /\ Strict(r.pm, 15, 25, 50) <= Strict(s.pm, 15, 25, 50)
      BY <3>2 DEF Strict
    <3> QED
      BY <2>1, <3>3, NoneIsNoNumber DEF LevelOf, Levels
  <2>2. CASE i = "VOC"
    <3>1. Contiguous(r.voc, 150, 200, 300) # Absent
      BY <1>2, <2>2 DEF LevelOf
    <3>2. r.voc \in Int /\ s.voc \in Int /\ r.voc # Absent /\ s.voc # Absent /\ s.voc >= r.voc
      BY <1>1, <3>1 DEF Contiguous, Measured, Quantity
    <3>3. /\ Contiguous(s.voc, 150, 200, 300) \in 0..3 /\ Contiguous(r.voc, 150, 200, 300) \in 0..3
          /\ Contiguous(r.voc, 150, 200, 300) <= Contiguous(s.voc, 150, 200, 300)
      BY <3>2 DEF Contiguous
    <3> QED
      BY <2>2, <3>3, NoneIsNoNumber DEF LevelOf, Levels
  <2>3. CASE i = "NOX"
    <3>1. Strict(r.nox, 10, 50, 100) # Absent
      BY <1>2, <2>3 DEF LevelOf
    <3>2. r.nox \in Int /\ s.nox \in Int /\ r.nox # Absent /\ s.nox # Absent /\ s.nox >= r.nox
      BY <1>1, <3>1 DEF Strict, Measured, Quantity
    <3>3. /\ Strict(s.nox, 10, 50, 100) \in 0..3 /\ Strict(r.nox, 10, 50, 100) \in 0..3
          /\ Strict(r.nox, 10, 50, 100) <= Strict(s.nox, 10, 50, 100)
      BY <3>2 DEF Strict
    <3> QED
      BY <2>3, <3>3, NoneIsNoNumber DEF LevelOf, Levels
  <2> QED
    BY <2>1, <2>2, <2>3 DEF Inputs
<1>3. \A i \in Available(r) : i \in Available(s) /\ LevelOf(i, r) <= LevelOf(i, s)
  BY <1>2 DEF Available
<1>4. Available(r) # {} /\ AirLevel(r) \in Levels
  BY AirLevelIs
<1>5. PICK i \in Available(r) : AirLevel(r) = LevelOf(i, r)
  BY <1>4, AirLevelIs
<1>6. i \in Available(s) /\ LevelOf(i, r) <= LevelOf(i, s)
  BY <1>3
<1>7. LevelOf(i, s) <= AirLevel(s) /\ LevelOf(i, s) \in Levels
      /\ AirLevel(s) \in Levels
  BY <1>6, AirLevelIs
<1>8. AirLevel(r) <= AirLevel(s)
  BY <1>4, <1>5, <1>6, <1>7 DEF Levels
<1> QED
  BY <1>1, <1>4, <1>7, <1>8

\* One input alone is a reading, and all of them together are no better.
LEMMA AloneIsBetter ==
  ASSUME NEW r, Measured(r), DOMAIN r = {"pm", "voc", "nox", "temperature"},
         NEW input \in {"pm", "voc", "nox"}
  PROVE  Measured(Alone(r, input)) /\ NoBetter(Alone(r, input), r)
<1>1. Measured(Alone(r, input))
  BY DEF Measured, Alone, Quantity
<1>2. NoBetter(Alone(r, input), r)
  <2>1. Alone(r, input).temperature = r.temperature
    BY DEF Alone
  <2>2. ASSUME NEW i \in {"pm", "voc", "nox"}
        PROVE  Alone(r, input)[i] # Absent => r[i] # Absent /\ r[i] >= Alone(r, input)[i]
    <3>1. r[i] = Absent \/ r[i] \in Int
      BY DEF Measured, Quantity
    <3>2. Alone(r, input)[i] = r[i] \/ Alone(r, input)[i] = Absent
      BY DEF Alone
    <3> QED
      BY <3>1, <3>2
  <2> QED
    BY <2>1, <2>2 DEF NoBetter
<1> QED
  BY <1>1, <1>2

\* The kinds of actuator, tuned: what is asked of a zone that speaks.
LEMMA SupplyIs ==
  ASSUME NEW t, Fit(t), FansConfigured(t), NEW level \in Levels, NEW band
  PROVE  /\ Supply(level, band, t) \in 0..100
         /\ Supply(level, band, t) <= t.air[level]
         /\ level # Normal => Supply(level, band, t) = t.air[level]
<1>1. level # Absent /\ t.air[level] # Absent /\ t.air[level] \in 0..100
  BY NoneIsNoNumber DEF Fit, FansConfigured
<1>2. AirRequest(level, t) = t.air[level]
  BY <1>1 DEF AirRequest
<1>3. TemperatureLimit(band, t) \in (0..100) \cup {Absent}
  BY DEF TemperatureLimit, Fit
<1>4. CASE level = Normal /\ TemperatureLimit(band, t) # Absent
  <2>1. Supply(level, band, t) = Least2(t.air[level], TemperatureLimit(band, t))
    BY <1>1, <1>2, <1>4 DEF Supply
  <2>2. ASSUME NEW a \in 0..100, NEW b \in 0..100
        PROVE  Least2(a, b) \in 0..100 /\ Least2(a, b) <= a
    BY DEF Least2
  <2>3. TemperatureLimit(band, t) \in 0..100
    BY <1>3, <1>4
  <2> QED
    BY <1>1, <1>4, <2>1, <2>2, <2>3
<1>5. CASE ~(level = Normal /\ TemperatureLimit(band, t) # Absent)
  <2>1. Supply(level, band, t) = t.air[level]
    BY <1>1, <1>2, <1>5 DEF Supply
  <2> QED
    BY <1>1, <2>1
<1> QED
  BY <1>4, <1>5

LEMMA NoLevelNoSupply ==
  ASSUME NEW band, NEW t
  PROVE  Supply(Absent, band, t) = Absent
  BY DEF Supply, AirRequest

\* A worse level does not lower what is asked, at the same temperature.
LEMMA SupplyRises ==
  ASSUME NEW t, Fit(t), FansConfigured(t), NEW k \in Levels, NEW l \in Levels, k <= l, NEW band
  PROVE  /\ Supply(l, band, t) # Absent
         /\ Supply(l, band, t) >= Supply(k, band, t)
<1>1. /\ Supply(k, band, t) \in 0..100 /\ Supply(k, band, t) <= t.air[k]
      /\ Supply(l, band, t) \in 0..100
      /\ l # Normal => Supply(l, band, t) = t.air[l]
  BY SupplyIs
<1>2. t.air[k] <= t.air[l] /\ t.air[k] \in 0..100 /\ t.air[l] \in 0..100
  BY NoneIsNoNumber DEF Fit, FansConfigured, Rising
<1>3. CASE l = Normal
  <2>1. k = l
    BY <1>3 DEF Normal, Levels
  <2> QED
    BY <1>1, <2>1, NoneIsNoNumber
<1>4. CASE l # Normal
  <2>1. Supply(l, band, t) = t.air[l]
    BY <1>1, <1>4
  <2>2. Supply(k, band, t) <= t.air[l]
    <3>1. ASSUME NEW x \in 0..100, NEW y \in 0..100, NEW z \in 0..100, x <= y, y <= z
          PROVE  x <= z
      BY <3>1
    <3> QED
      BY <1>1, <1>2, <3>1, Zenon
  <2>3. Supply(l, band, t) \in Int /\ Supply(k, band, t) \in Int
    BY <1>1
  <2>4. Supply(l, band, t) # Absent
    BY <2>3, NoneIsNoNumber
  <2>5. Supply(k, band, t) <= Supply(l, band, t)
    BY <2>1, <2>2
  <2> QED
    BY <2>3, <2>4, <2>5
<1> QED
  BY <1>3, <1>4

LEMMA SpeedRises ==
  ASSUME NEW t, Fit(t), AeroConfigured(t), NEW k \in Levels, NEW l \in Levels, k <= l
  PROVE  AtLeast(AeroSpeed(l, t), AeroSpeed(k, t))
<1>1. t.aero[k] <= t.aero[l] /\ t.aero[k] \in 0..3 /\ t.aero[l] \in 0..3
  BY NoneIsNoNumber DEF Fit, AeroConfigured, Rising
<1>2. AeroSpeed(k, t) = t.aero[k] /\ AeroSpeed(l, t) = t.aero[l]
  BY NoneIsNoNumber DEF AeroSpeed
<1> QED
  BY <1>1, <1>2, NoneIsNoNumber DEF AtLeast

\* What is asked of a zone whose node is usable and that nothing blocks.
Asks(kind, r, t) == Advice(kind, r, TRUE, "OCCUPIED_EXPECTED", FALSE, t)
BandOf(kind, r) == IF kind = "fans" THEN Band(r.temperature) ELSE "NOT_APPLICABLE"

LEMMA AskedOf ==
  ASSUME NEW kind \in Kinds, NEW r, NEW t, Tuned(kind, t)
  PROVE  /\ kind = "fans" => FansConfigured(t) /\ Asks(kind, r, t).speed = Absent
               /\ Asks(kind, r, t).supply = Supply(AirLevel(r), Band(r.temperature), t)
         /\ kind = "aero" => AeroConfigured(t) /\ Asks(kind, r, t).supply = Absent
               /\ Asks(kind, r, t).speed = AeroSpeed(AirLevel(r), t)
         /\ Asks(kind, r, t).extract = Extract(Asks(kind, r, t).supply, t)
  BY DEF Asks, Advice, Tuned, Kinds

LEMMA WorseAsksMore ==
  ASSUME NEW kind \in Kinds, NEW t, Fit(t), Tuned(kind, t),
         NEW r, NEW s, Measured(r), Measured(s), NoBetter(r, s)
  PROVE  /\ AtLeast(Asks(kind, s, t).supply, Asks(kind, r, t).supply)
         /\ AtLeast(Asks(kind, s, t).speed, Asks(kind, r, t).speed)
<1>1. CASE AirLevel(r) = Absent
  <2>1. kind = "fans" => Asks(kind, r, t).supply = Absent /\ Asks(kind, r, t).speed = Absent
    BY <1>1, AskedOf, NoLevelNoSupply
  <2>2. kind = "aero" => Asks(kind, r, t).supply = Absent /\ Asks(kind, r, t).speed = Absent
    BY <1>1, AskedOf DEF AeroSpeed
  <2> QED
    BY <2>1, <2>2 DEF AtLeast, Kinds
<1>2. CASE AirLevel(r) # Absent
  <2>1. /\ AirLevel(r) \in Levels /\ AirLevel(s) \in Levels
        /\ AirLevel(r) <= AirLevel(s) /\ Band(r.temperature) = Band(s.temperature)
    BY <1>2, NoBetterLevel
  <2>2. CASE kind = "fans"
    <3>1. FansConfigured(t)
      BY <2>2, AskedOf
    <3>2. /\ Asks(kind, r, t).supply = Supply(AirLevel(r), Band(r.temperature), t)
          /\ Asks(kind, s, t).supply = Supply(AirLevel(s), Band(r.temperature), t)
          /\ Asks(kind, r, t).speed = Absent
      BY <2>1, <2>2, AskedOf
    <3>3. AtLeast(Supply(AirLevel(s), Band(r.temperature), t), Supply(AirLevel(r), Band(r.temperature), t))
      BY <2>1, <3>1, SupplyRises DEF AtLeast
    <3> QED
      BY <3>2, <3>3 DEF AtLeast
  <2>3. CASE kind = "aero"
    <3>1. AeroConfigured(t)
      BY <2>3, AskedOf
    <3>2. /\ Asks(kind, r, t).speed = AeroSpeed(AirLevel(r), t)
          /\ Asks(kind, s, t).speed = AeroSpeed(AirLevel(s), t)
          /\ Asks(kind, r, t).supply = Absent
      BY <2>3, AskedOf
    <3>3. AtLeast(AeroSpeed(AirLevel(s), t), AeroSpeed(AirLevel(r), t))
      BY <2>1, <3>1, SpeedRises
    <3> QED
      BY <3>2, <3>3 DEF AtLeast
  <2> QED
    BY <2>2, <2>3 DEF Kinds
<1> QED
  BY <1>1, <1>2

\* The temperature does not matter to the level of the air.
LEMMA TemperatureApart ==
  ASSUME NEW r, Measured(r), DOMAIN r = {"pm", "voc", "nox", "temperature"}, NEW x \in Quantity
  PROVE  AirLevel([r EXCEPT !.temperature = x]) = AirLevel(r)
<1> DEFINE s == [r EXCEPT !.temperature = x]
<1>1. s.pm = r.pm /\ s.voc = r.voc /\ s.nox = r.nox /\ s.temperature = x
  OBVIOUS
<1> HIDE DEF s
<1>2. Measured(s)
  BY <1>1 DEF Measured
<1>3. \A i \in Inputs : LevelOf(i, s) = LevelOf(i, r)
  BY <1>1 DEF LevelOf, Inputs
<1>4. Available(s) = Available(r) /\ \A i \in Available(r) : LevelOf(i, s) = LevelOf(i, r)
  BY <1>3 DEF Available
<1>5. CASE Available(r) = {}
  BY <1>2, <1>4, <1>5, AirLevelIs DEF s
<1>6. ASSUME Available(r) # {}
      PROVE  AirLevel(s) = AirLevel(r)
  <2>1. PICK i \in Available(r) : AirLevel(r) = LevelOf(i, r)
    BY <1>6, AirLevelIs
  <2>2. PICK j \in Available(r) : AirLevel(s) = LevelOf(j, r)
    BY <1>2, <1>4, <1>6, AirLevelIs
  <2>3. LevelOf(i, r) \in Levels /\ LevelOf(j, r) \in Levels
    BY AirLevelIs
  <2>4. LevelOf(j, r) <= LevelOf(i, r)
    BY <1>6, <2>1, AirLevelIs
  <2>5. LevelOf(i, r) <= LevelOf(j, r)
    BY <1>2, <1>4, <1>6, <2>2, AirLevelIs
  <2> QED
    BY <2>1, <2>2, <2>3, <2>4, <2>5 DEF Levels
<1> QED
  BY <1>5, <1>6 DEF s

\* A valid tuning gives sound advice, whatever is read.
LEMMA FitAdvises ==
  ASSUME tuning \in Tunings, ValidTuning(tuning)
  PROVE  AdviceSound
<1>1. Fit(tuning)
  BY DEF Fit, ValidTuning, Ranged
<1>2. \A r \in Readings : Measured(r) /\ DOMAIN r = {"pm", "voc", "nox", "temperature"}
  BY ShadowAssumption DEF Measured
<1> SUFFICES ASSUME NEW kind \in Kinds, NEW r \in Readings
             PROVE
    /\ Tuned(kind, tuning) =>
         /\ \A s \in {s \in Readings : Worse(r, s)} :
              /\ AtLeast(Asks(kind, s, tuning).supply, Asks(kind, r, tuning).supply)
              /\ AtLeast(Asks(kind, s, tuning).speed, Asks(kind, r, tuning).speed)
         /\ \A input \in {"pm", "voc", "nox"} :
              AirLevel(Alone(r, input)) \notin {Absent, Normal} =>
                /\ AtLeast(Asks(kind, r, tuning).supply, Asks(kind, Alone(r, input), tuning).supply)
                /\ AtLeast(Asks(kind, r, tuning).speed, Asks(kind, Alone(r, input), tuning).speed)
         /\ AirLevel(r) \notin {Absent, Normal} =>
              \A s \in {[r EXCEPT !.temperature = q.temperature] : q \in Readings} :
                Asks(kind, s, tuning).supply = Asks(kind, r, tuning).supply
         /\ AtLeast(Asks(kind, r, tuning).extract, Asks(kind, r, tuning).supply)
    /\ \A usable, blocked \in BOOLEAN, expectation \in {"OCCUPIED_EXPECTED", "UNKNOWN"} :
         LET a == Advice(kind, r, usable, expectation, blocked, tuning) IN
         /\ blocked \/ ~usable => a.supply = Absent /\ a.extract = Absent /\ a.speed = Absent
         /\ Status(blocked, a.degraded, tuning) = "READY" => a.reason \in {"air", "normal", "thermal"}
  BY DEF AdviceSound, Asks
<1>3. ASSUME Tuned(kind, tuning), NEW s \in Readings, Worse(r, s)
      PROVE  /\ AtLeast(Asks(kind, s, tuning).supply, Asks(kind, r, tuning).supply)
             /\ AtLeast(Asks(kind, s, tuning).speed, Asks(kind, r, tuning).speed)
  <2>1. NoBetter(r, s)
    BY <1>3 DEF Worse, NoBetter
  <2> QED
    BY <1>1, <1>2, <1>3, <2>1, WorseAsksMore
<1>4. ASSUME Tuned(kind, tuning), NEW input \in {"pm", "voc", "nox"}
      PROVE  /\ AtLeast(Asks(kind, r, tuning).supply, Asks(kind, Alone(r, input), tuning).supply)
             /\ AtLeast(Asks(kind, r, tuning).speed, Asks(kind, Alone(r, input), tuning).speed)
  <2>1. Measured(Alone(r, input)) /\ NoBetter(Alone(r, input), r)
    BY <1>2, AloneIsBetter
  <2> QED
    BY <1>1, <1>2, <1>4, <2>1, WorseAsksMore
<1>5. ASSUME Tuned(kind, tuning), AirLevel(r) \notin {Absent, Normal}, NEW q \in Readings
      PROVE  Asks(kind, [r EXCEPT !.temperature = q.temperature], tuning).supply
               = Asks(kind, r, tuning).supply
  <2> DEFINE s == [r EXCEPT !.temperature = q.temperature]
  <2>1. AirLevel(s) = AirLevel(r)
    BY <1>2, TemperatureApart DEF Measured
  <2>2. AirLevel(r) \in Levels
    BY <1>2, <1>5, AirLevelIs
  <2> HIDE DEF s
  <2>3. ASSUME kind = "fans"
        PROVE  Asks(kind, s, tuning).supply = Asks(kind, r, tuning).supply
    <3>1. FansConfigured(tuning)
      BY <1>5, <2>3, AskedOf
    <3>2. \A band : Supply(AirLevel(r), band, tuning) = tuning.air[AirLevel(r)]
      BY <1>1, <1>5, <2>2, <3>1, SupplyIs
    <3>3. /\ Asks(kind, s, tuning).supply = Supply(AirLevel(s), Band(s.temperature), tuning)
          /\ Asks(kind, r, tuning).supply = Supply(AirLevel(r), Band(r.temperature), tuning)
      BY <1>5, <2>3, AskedOf
    <3> QED
      BY <2>1, <3>2, <3>3
  <2>4. ASSUME kind = "aero"
        PROVE  Asks(kind, s, tuning).supply = Asks(kind, r, tuning).supply
    BY <1>5, <2>4, AskedOf
  <2>5. Asks(kind, s, tuning).supply = Asks(kind, r, tuning).supply
    BY <2>3, <2>4 DEF Kinds
  <2> QED
    BY <2>5 DEF s
<1>6. ASSUME Tuned(kind, tuning)
      PROVE  AtLeast(Asks(kind, r, tuning).extract, Asks(kind, r, tuning).supply)
  <2>1. CASE Asks(kind, r, tuning).supply = Absent
    BY <2>1 DEF AtLeast
  <2>2. CASE Asks(kind, r, tuning).supply # Absent
    <3>1. kind = "fans" /\ FansConfigured(tuning)
      BY <1>6, <2>2, AskedOf DEF Kinds
    <3>2. Asks(kind, r, tuning).supply = Supply(AirLevel(r), Band(r.temperature), tuning)
      BY <1>6, <3>1, AskedOf
    <3>3. AirLevel(r) \in Levels
      BY <1>2, <2>2, <3>2, NoLevelNoSupply, AirLevelIs
    <3>4. Asks(kind, r, tuning).supply \in 0..100
      BY <1>1, <3>1, <3>2, <3>3, SupplyIs
    <3>5. tuning.bias \in 0..100 /\ tuning.bias # Absent
      BY <1>1, <3>1 DEF Fit, FansConfigured
    <3>6. Asks(kind, r, tuning).extract = Least2(100, Asks(kind, r, tuning).supply + tuning.bias)
      BY <1>6, <2>2, <3>5, AskedOf DEF Extract
    <3>7. ASSUME NEW a \in 0..100, NEW b \in 0..100
          PROVE  Least2(100, a + b) \in Nat /\ Least2(100, a + b) >= a
      BY DEF Least2
    <3>8. /\ Asks(kind, r, tuning).extract \in Nat
          /\ Asks(kind, r, tuning).extract >= Asks(kind, r, tuning).supply
      BY <3>4, <3>5, <3>6, <3>7
    <3> QED
      BY <3>8, NoneIsNoNumber DEF AtLeast
  <2> QED
    BY <2>1, <2>2
<1>7. ASSUME NEW usable \in BOOLEAN, NEW blocked \in BOOLEAN,
             NEW expectation \in {"OCCUPIED_EXPECTED", "UNKNOWN"}
      PROVE  LET a == Advice(kind, r, usable, expectation, blocked, tuning) IN
             /\ blocked \/ ~usable => a.supply = Absent /\ a.extract = Absent /\ a.speed = Absent
             /\ Status(blocked, a.degraded, tuning) = "READY" => a.reason \in {"air", "normal", "thermal"}
  <2> DEFINE a == Advice(kind, r, usable, expectation, blocked, tuning)
  <2>1. ASSUME blocked \/ ~usable
        PROVE  a.supply = Absent /\ a.extract = Absent /\ a.speed = Absent
    BY <2>1 DEF Advice, Extract
  <2>2. ASSUME Status(blocked, a.degraded, tuning) = "READY"
        PROVE  a.reason \in {"air", "normal", "thermal"}
    <3>1. ~blocked /\ ~a.degraded
      BY <2>2 DEF Status
    <3>2. /\ expectation # "UNKNOWN" /\ usable /\ AirLevel(r) # Absent
          /\ BandOf(kind, r) # "UNKNOWN"
      BY <3>1 DEF Advice, BandOf
    <3>3. a.reason = Reason(AirLevel(r), BandOf(kind, r), usable, expectation, blocked)
      BY DEF Advice, BandOf
    <3> QED
      BY <3>1, <3>2, <3>3 DEF Reason
  <2> QED
    BY <2>1, <2>2
<1> QED
  BY <1>3, <1>4, <1>5, <1>6, <1>7

-----------------------------------------------------------------------------
(* The feedback of the fans and of the supply *)

Channels ==
  [thread : {"opening", "counting", "ended"}, error : BOOLEAN, since : Int,
   buffer : Seq(Int), periods : Seq(Int), last : Int]

Gap(T, a, b) == a \in T /\ b \in T /\ a < b /\ \A e \in T : e <= a \/ e >= b

\* The edges that wait are the fan's, in order, and newer than the one counted last;
Waiting(c, T) ==
  /\ \A i \in DOMAIN c.buffer : c.buffer[i] \in T /\ c.last < c.buffer[i] /\ c.since <= c.buffer[i]
  /\ \A i, j \in DOMAIN c.buffer : i < j => c.buffer[i] < c.buffer[j]
  /\ c.thread # "counting" => c.buffer = <<>>

\* unless some were lost, none that the worker was there for is missing;
Complete(c, T) ==
  c.thread = "counting" =>
    \A e \in T : c.since < e /\ c.last < e => \E i \in DOMAIN c.buffer : c.buffer[i] = e

\* the periods kept are gaps of the fan, and a gap that counts left one.
Kept(c, T) ==
  \A i \in DOMAIN c.periods : \E a, b \in T : Gap(T, a, b) /\ b - a = c.periods[i] /\ b <= c.last
Left(c, T) ==
  c.thread = "counting" /\ c.periods = <<>> =>
    \A a \in T : ~(Gap(T, a, c.last) /\ a > c.since
                    /\ MinPeriod <= c.last - a /\ c.last - a <= EdgeTimeout)

OnLine(c, T, L, m, stop) ==
  /\ T \subseteq 0..m /\ c.since <= m /\ c.last >= Never
  /\ c.last # Never => c.last \in T /\ (c.thread = "counting" => c.since <= c.last)
  /\ c.periods # <<>> => c.last # Never
  /\ Waiting(c, T)
  /\ ~L => Complete(c, T) /\ Kept(c, T) /\ Left(c, T)
  /\ c.thread = "ended" \/ (c.thread = "opening" /\ c.since # Never) => c.error \/ stop

FeedbackInv ==
  /\ moment \in Nat /\ stopping \in BOOLEAN /\ supply \in {"good", "low"}
  /\ channel \in [Lines -> Channels] /\ lost \in [Lines -> BOOLEAN]
  /\ turned \in [Lines -> SUBSET Nat]
  /\ \A l \in Lines : OnLine(channel[l], turned[l], lost[l], moment, stopping)
  /\ power.low = "yes" <=> lastRead = "low"

LEMMA GapsGrow ==
  ASSUME NEW m \in Nat, NEW T, T \subseteq 0..m, m \notin T
  PROVE  /\ T \cup {m} \subseteq 0..m
         /\ \A a, b : Gap(T, a, b) => Gap(T \cup {m}, a, b)
         /\ \A a, b : Gap(T \cup {m}, a, b) /\ b # m => Gap(T, a, b)
<1>1. \A e \in T : e \in Int /\ e < m
  OBVIOUS
<1>2. ASSUME NEW a, NEW b, Gap(T, a, b)
      PROVE  Gap(T \cup {m}, a, b)
  BY <1>1, <1>2 DEF Gap
<1>3. ASSUME NEW a, NEW b, Gap(T \cup {m}, a, b), b # m
      PROVE  Gap(T, a, b)
  BY <1>1, <1>3 DEF Gap
<1> QED
  BY <1>2, <1>3

\* A sequence that an element is appended to, or its first one taken from.
LEMMA Shorter ==
  ASSUME NEW s \in Seq(Int), s # <<>>
  PROVE  /\ Tail(s) \in Seq(Int) /\ Len(s) \in Nat /\ Len(s) > 0 /\ 1 \in DOMAIN s
         /\ Head(s) = s[1] /\ Head(s) \in Int
         /\ \A i \in DOMAIN Tail(s) : i + 1 \in DOMAIN s /\ i \in Int /\ Tail(s)[i] = s[i + 1]
         /\ \A i \in DOMAIN s : i = 1 \/ (i - 1 \in DOMAIN Tail(s) /\ Tail(s)[i - 1] = s[i])
  OBVIOUS

LEMMA Longer ==
  ASSUME NEW s \in Seq(Int), NEW x \in Int
  PROVE  /\ Append(s, x) \in Seq(Int) /\ Append(s, x) # <<>> /\ Len(s) \in Nat
         /\ \A i \in DOMAIN Append(s, x) :
              i \in Int /\ ((i \in DOMAIN s /\ i <= Len(s) /\ Append(s, x)[i] = s[i])
                            \/ (i = Len(s) + 1 /\ Append(s, x)[i] = x))
         /\ \A i \in DOMAIN s : i \in DOMAIN Append(s, x) /\ Append(s, x)[i] = s[i]
         /\ \E i \in DOMAIN Append(s, x) : Append(s, x)[i] = x
<1>1. Append(s, x) \in Seq(Int) /\ Len(Append(s, x)) = Len(s) + 1 /\ Len(s) \in Nat
  OBVIOUS
<1>2. DOMAIN Append(s, x) = 1..(Len(s) + 1) /\ DOMAIN s = 1..Len(s)
  BY <1>1
<1>3. Append(s, x)[Len(s) + 1] = x /\ \A i \in 1..Len(s) : Append(s, x)[i] = s[i]
  OBVIOUS
<1>4. Append(s, x) # <<>>
  BY <1>1
<1> QED
  BY <1>1, <1>2, <1>3, <1>4

\* An edge of a line that nobody reads.
LEMMA UnreadEdge ==
  ASSUME NEW m \in Nat, NEW c \in Channels, NEW T, NEW L, NEW stop,
         OnLine(c, T, L, m, stop), m \notin T, c.thread # "counting"
  PROVE  OnLine(c, T \cup {m}, L, m, stop)
<1>1. T \subseteq 0..m
  BY DEF OnLine
<1>2. Waiting(c, T \cup {m})
  BY DEF OnLine, Waiting
<1>3. ASSUME ~L
      PROVE  Complete(c, T \cup {m}) /\ Kept(c, T \cup {m}) /\ Left(c, T \cup {m})
  <2>1. Kept(c, T \cup {m})
    BY <1>1, <1>3, GapsGrow DEF OnLine, Kept
  <2> QED
    BY <2>1 DEF Complete, Left
<1> QED
  BY <1>1, <1>2, <1>3, GapsGrow DEF OnLine

\* An edge that the kernel keeps.
EdgeKept(c, full, m) == [c EXCEPT !.buffer = Append(IF full THEN Tail(c.buffer) ELSE c.buffer, m)]

LEMMA ReadEdge ==
  ASSUME NEW m \in Nat, NEW c \in Channels, NEW T, NEW L, NEW stop, NEW full \in BOOLEAN,
         OnLine(c, T, L, m, stop), m \notin T, c.thread = "counting",
         full => c.buffer # <<>>, NEW M \in BOOLEAN, ~M => ~L /\ ~full
  PROVE  /\ EdgeKept(c, full, m) \in Channels
         /\ OnLine(EdgeKept(c, full, m), T \cup {m}, M, m, stop)
<1> DEFINE d == EdgeKept(c, full, m)
           old == IF full THEN Tail(c.buffer) ELSE c.buffer
<1>1. T \subseteq 0..m /\ c.buffer \in Seq(Int) /\ c.since <= m /\ c.since \in Int /\ c.last \in Int
  BY DEF OnLine, Channels
<1>2. /\ old \in Seq(Int) /\ (~full => old = c.buffer)
      /\ full => \A i \in DOMAIN old : i + 1 \in DOMAIN c.buffer /\ i \in Int /\ old[i] = c.buffer[i + 1]
  BY <1>1, Shorter
<1>3. d = [c EXCEPT !.buffer = Append(old, m)]
  BY DEF EdgeKept
<1> HIDE DEF old, d
<1>4. /\ \A i \in DOMAIN old : old[i] \in T /\ c.last < old[i] /\ c.since <= old[i]
      /\ \A i, j \in DOMAIN old : i < j => old[i] < old[j]
  <2>1. /\ \A i \in DOMAIN c.buffer :
             c.buffer[i] \in T /\ c.last < c.buffer[i] /\ c.since <= c.buffer[i]
        /\ \A i, j \in DOMAIN c.buffer : i < j => c.buffer[i] < c.buffer[j]
    BY DEF OnLine, Waiting
  <2>2. CASE full
    <3>1. \A i \in DOMAIN old : i + 1 \in DOMAIN c.buffer /\ i \in Int /\ old[i] = c.buffer[i + 1]
      BY <1>2, <2>2
    <3>2. \A i, j \in DOMAIN old : i < j => i + 1 < j + 1
      BY <3>1
    <3> QED
      BY <2>1, <3>1, <3>2
  <2>3. CASE ~full
    BY <1>2, <2>1, <2>3
  <2> QED
    BY <2>2, <2>3
<1>5. /\ Append(old, m) \in Seq(Int) /\ Append(old, m) # <<>> /\ Len(old) \in Nat
      /\ \A i \in DOMAIN Append(old, m) :
           i \in Int /\ ((i \in DOMAIN old /\ i <= Len(old) /\ Append(old, m)[i] = old[i])
                         \/ (i = Len(old) + 1 /\ Append(old, m)[i] = m))
      /\ \A i \in DOMAIN old : i \in DOMAIN Append(old, m) /\ Append(old, m)[i] = old[i]
      /\ \E i \in DOMAIN Append(old, m) : Append(old, m)[i] = m
  <2>1. m \in Int
    OBVIOUS
  <2>2. old \in Seq(Int)
    BY <1>2
  <2> QED
    BY <2>1, <2>2, Longer
<1> DEFINE new == Append(old, m)
<1>6. /\ d = [c EXCEPT !.buffer = new] /\ new \in Seq(Int) /\ (~full => old = c.buffer) /\ Len(old) \in Nat
      /\ \A i \in DOMAIN new :
           i \in Int /\ ((i \in DOMAIN old /\ i <= Len(old) /\ new[i] = old[i])
                         \/ (i = Len(old) + 1 /\ new[i] = m))
      /\ \A i \in DOMAIN old : i \in DOMAIN new /\ new[i] = old[i]
      /\ \E i \in DOMAIN new : new[i] = m
  BY <1>2, <1>3, <1>5
<1> HIDE DEF new
<1>7. /\ d.buffer = new /\ d.since = c.since /\ d.last = c.last /\ d.periods = c.periods
      /\ d.thread = c.thread /\ d.error = c.error /\ d \in Channels
  BY <1>6 DEF Channels
<1>8. c.last < m
  BY <1>1 DEF OnLine, Never
<1>9. Waiting(d, T \cup {m})
  <2>1. /\ Len(old) \in Nat
        /\ \A i \in DOMAIN d.buffer :
             i \in Int /\ ((i \in DOMAIN old /\ i <= Len(old) /\ d.buffer[i] = old[i])
                           \/ (i = Len(old) + 1 /\ d.buffer[i] = m))
    BY <1>6, <1>7
  <2>2. ASSUME NEW i \in DOMAIN d.buffer
        PROVE  d.buffer[i] \in T \cup {m} /\ d.last < d.buffer[i] /\ d.since <= d.buffer[i]
    BY <1>1, <1>4, <1>7, <1>8, <2>1
  <2>3. ASSUME NEW i \in DOMAIN d.buffer, NEW j \in DOMAIN d.buffer, i < j
        PROVE  d.buffer[i] < d.buffer[j]
    <3>1. i \in DOMAIN old /\ d.buffer[i] = old[i] 
      BY <2>1, <2>3
    <3>2. old[i] \in T /\ old[i] < m
      BY <1>1, <1>4, <3>1
    <3> QED
      BY <1>4, <2>1, <2>3, <3>1, <3>2
  <2> QED
    BY <1>7, <2>2, <2>3 DEF Waiting
<1>10. ASSUME ~M, ~L, ~full
      PROVE  Complete(d, T \cup {m}) /\ Kept(d, T \cup {m}) /\ Left(d, T \cup {m})
  <2>1. Complete(d, T \cup {m})
    <3>1. \A e \in T : c.since < e /\ c.last < e => \E i \in DOMAIN old : old[i] = e
      BY <1>6, <1>10 DEF OnLine, Complete
    <3>2. /\ \A i \in DOMAIN old : i \in DOMAIN d.buffer /\ d.buffer[i] = old[i]
          /\ \E i \in DOMAIN d.buffer : d.buffer[i] = m
      BY <1>6, <1>7
    <3> QED
      BY <1>7, <3>1, <3>2 DEF Complete
  <2>2. Kept(d, T \cup {m})
    BY <1>1, <1>7, <1>10, GapsGrow DEF OnLine, Kept
  <2>3. Left(d, T \cup {m})
    <3>1. c.periods = <<>> =>
            \A a \in T : ~(Gap(T, a, c.last) /\ a > c.since
                            /\ MinPeriod <= c.last - a /\ c.last - a <= EdgeTimeout)
      <4>1. Left(c, T)
        BY <1>10 DEF OnLine
      <4> QED
        BY <4>1 DEF Left
    <3>2. \A a : Gap(T \cup {m}, a, c.last) => Gap(T, a, c.last)
      <4>1. T \subseteq 0..m /\ c.last # m
        BY <1>1, <1>8
      <4>2. \A a, b : Gap(T \cup {m}, a, b) /\ b # m => Gap(T, a, b)
        BY <4>1, GapsGrow
      <4> QED
        BY <4>1, <4>2, Zenon
    <3>3. \A a : Gap(T, a, c.last) => a \in T
      BY DEF Gap
    <3> QED
      BY <1>7, <3>1, <3>2, <3>3 DEF Left
  <2> QED
    BY <2>1, <2>2, <2>3
<1>11. /\ d.last # Never => d.last \in T \cup {m} /\ (d.thread = "counting" => d.since <= d.last)
       /\ d.periods # <<>> => d.last # Never
       /\ d.thread = "ended" \/ (d.thread = "opening" /\ d.since # Never) => d.error \/ stop
       /\ d.since <= m /\ d.last >= Never
  <2>1. /\ c.last # Never => c.last \in T /\ (c.thread = "counting" => c.since <= c.last)
        /\ c.periods # <<>> => c.last # Never
        /\ c.thread = "ended" \/ (c.thread = "opening" /\ c.since # Never) => c.error \/ stop
        /\ c.since <= m /\ c.last >= Never
    BY DEF OnLine
  <2> QED
    BY <1>7, <2>1
<1>12. T \cup {m} \subseteq 0..m
  BY <1>1
<1> QED
  <2>1. OnLine(d, T \cup {m}, M, m, stop)
    BY <1>7, <1>9, <1>10, <1>11, <1>12 DEF OnLine
  <2> QED
    BY <1>7, <2>1 DEF d

\* The worker asks for the line: what it knew is forgotten.
LEMMA Opens ==
  ASSUME NEW m \in Nat, NEW c \in Channels, NEW T, NEW L, NEW stop, OnLine(c, T, L, m, stop),
         m = moment
  PROVE  Requested(c) \in Channels /\ OnLine(Requested(c), T, FALSE, m, stop)
<1> DEFINE d == Requested(c)
<1>1. /\ d.thread = "counting" /\ d.error = FALSE /\ d.since = m /\ d.buffer = <<>>
      /\ d.periods = <<>> /\ d.last = Never /\ d \in Channels
  <2> DEFINE Fields == {"thread", "error", "since", "buffer", "periods", "last"}
  <2>1. /\ d.thread = "counting" /\ d.error = FALSE /\ d.since = m /\ d.buffer = <<>>
        /\ d.periods = <<>> /\ d.last = Never
    BY DEF Channels, Requested
  <2>2. d \in [Fields -> {d[x] : x \in Fields}]
    BY DEF Channels, Requested
  <2>3. <<>> \in Seq(Int) /\ Never \in Int /\ m \in Int
    BY DEF Never
  <2> HIDE DEF d
  <2>4. d = [x \in Fields |-> d[x]]
    BY <2>2
  <2>5. d \in Channels
    BY <2>1, <2>3, <2>4 DEF Channels
  <2> QED
    BY <2>1, <2>5
<1>2. \A e \in T : e \in Int /\ e <= m /\ 0 <= e
  BY DEF OnLine
<1> HIDE DEF d
<1>3. Waiting(d, T) /\ Kept(d, T) /\ Complete(d, T)
  BY <1>1, <1>2 DEF Waiting, Kept, Complete
<1>4. Left(d, T)
  BY <1>1, <1>2 DEF Left, Gap, Never
<1>5. OnLine(d, T, FALSE, m, stop)
  BY <1>1, <1>3, <1>4 DEF OnLine, Never
<1> QED
  BY <1>1, <1>5 DEF d

\* The worker ends, by a failure or because it is told to stop.
WorkerEnded(c, error) == [c EXCEPT !.thread = "ended", !.error = error, !.buffer = <<>>]

LEMMA Ends ==
  ASSUME NEW m \in Nat, NEW c \in Channels, NEW T, NEW L, NEW stop, OnLine(c, T, L, m, stop),
         NEW error \in BOOLEAN, error = TRUE \/ stop = TRUE
  PROVE  WorkerEnded(c, error) \in Channels /\ OnLine(WorkerEnded(c, error), T, L, m, stop)
<1> DEFINE d == WorkerEnded(c, error)
<1>1. /\ d.thread = "ended" /\ d.error = error /\ d.since = c.since /\ d.buffer = <<>>
      /\ d.periods = c.periods /\ d.last = c.last /\ d \in Channels
  <2> DEFINE Fields == {"thread", "error", "since", "buffer", "periods", "last"}
  <2>1. /\ d.thread = "ended" /\ d.error = error /\ d.since = c.since /\ d.buffer = <<>>
        /\ d.periods = c.periods /\ d.last = c.last
    BY DEF Channels, WorkerEnded
  <2>2. d \in [Fields -> {d[x] : x \in Fields}]
    BY DEF Channels, WorkerEnded
  <2>3. c.since \in Int /\ <<>> \in Seq(Int) /\ c.periods \in Seq(Int) /\ c.last \in Int
    BY DEF Channels
  <2> HIDE DEF d
  <2>4. d = [x \in Fields |-> d[x]]
    BY <2>2
  <2>5. d \in Channels
    BY <2>1, <2>3, <2>4 DEF Channels
  <2> QED
    BY <2>1, <2>5
<1> HIDE DEF d
<1>2. Waiting(d, T) /\ Complete(d, T) /\ Left(d, T)
  BY <1>1 DEF Waiting, Complete, Left
<1>3. Kept(c, T) => Kept(d, T)
  BY <1>1 DEF Kept
<1>4. d.error \/ stop
  BY <1>1
<1> QED
  <2>1. OnLine(d, T, L, m, stop)
    BY <1>1, <1>2, <1>3, <1>4 DEF OnLine
  <2> QED
    BY <1>1, <2>1 DEF d

\* An ended worker is started anew.
LEMMA Restarts ==
  ASSUME NEW m \in Nat, NEW c \in Channels, NEW T, NEW L, NEW stop, OnLine(c, T, L, m, stop),
         c.thread = "ended", ~stop,
         NEW d, d = [c EXCEPT !.thread = "opening"]
  PROVE  d \in Channels /\ OnLine(d, T, L, m, stop)
<1>1. /\ d.thread = "opening" /\ d.error = c.error /\ d.since = c.since /\ d.buffer = c.buffer
      /\ d.periods = c.periods /\ d.last = c.last /\ d \in Channels
  BY DEF Channels
<1>2. Waiting(d, T) /\ Complete(d, T) /\ Left(d, T)
  BY <1>1 DEF OnLine, Waiting, Complete, Left
<1>3. Kept(c, T) => Kept(d, T)
  BY <1>1 DEF Kept
<1> QED
  BY <1>1, <1>2, <1>3 DEF OnLine

LEMMA NewestKeeps ==
  ASSUME NEW s \in Seq(Int), NEW x \in Int
  PROVE  /\ Newest(Append(s, x)) \in Seq(Int) /\ Newest(Append(s, x)) # <<>>
         /\ \A i \in DOMAIN Newest(Append(s, x)) :
              \/ Newest(Append(s, x))[i] = x
              \/ \E j \in DOMAIN s : Newest(Append(s, x))[i] = s[j]
<1> DEFINE t == Append(s, x)
<1>1. /\ t \in Seq(Int) /\ Len(t) = Len(s) + 1 /\ Len(s) \in Nat /\ DOMAIN t = 1..(Len(s) + 1)
      /\ DOMAIN s = 1..Len(s)
      /\ \A i \in 1..(Len(s) + 1) : t[i] = x \/ \E j \in DOMAIN s : t[i] = s[j]
  <2>1. t \in Seq(Int) /\ Len(t) = Len(s) + 1 /\ Len(s) \in Nat
    OBVIOUS
  <2>2. DOMAIN t = 1..(Len(s) + 1) /\ DOMAIN s = 1..Len(s)
    BY <2>1
  <2>3. t[Len(s) + 1] = x /\ \A i \in 1..Len(s) : t[i] = s[i]
    OBVIOUS
  <2> QED
    BY <2>1, <2>2, <2>3
<1> HIDE DEF t
<1>2. Averaging \in Nat /\ Averaging > 0
  BY FeedbackAssumption
<1>3. CASE Len(t) > Averaging
  <2>1. Newest(t) = SubSeq(t, 2, Len(t))
    BY <1>3 DEF Newest
  <2>2. Len(t) >= 2 /\ Len(t) \in Nat
    BY <1>1, <1>2, <1>3
  <2>3. /\ SubSeq(t, 2, Len(t)) \in Seq(Int) /\ Len(SubSeq(t, 2, Len(t))) = Len(t) - 1
        /\ \A i \in 1..(Len(t) - 1) : SubSeq(t, 2, Len(t))[i] = t[i + 1]
    BY <1>1, <2>2
  <2>4. DOMAIN SubSeq(t, 2, Len(t)) = 1..(Len(t) - 1) /\ SubSeq(t, 2, Len(t)) # <<>>
    BY <2>2, <2>3
  <2>5. \A i \in 1..(Len(t) - 1) : i + 1 \in 1..(Len(s) + 1)
    BY <1>1
  <2>6. \A i \in DOMAIN SubSeq(t, 2, Len(t)) :
          \/ SubSeq(t, 2, Len(t))[i] = x
          \/ \E j \in DOMAIN s : SubSeq(t, 2, Len(t))[i] = s[j]
    BY <1>1, <2>3, <2>4, <2>5
  <2> QED
    BY <2>1, <2>3, <2>4, <2>6 DEF t
<1>4. CASE ~(Len(t) > Averaging)
  <2>1. Newest(t) = t
    BY <1>4 DEF Newest
  <2>2. t # <<>>
    BY <1>1
  <2> QED
    BY <1>1, <2>1, <2>2 DEF t
<1> QED
  BY <1>3, <1>4

\* The worker counts the edge that waits longest.
LEMMA Counts ==
  ASSUME NEW m \in Nat, NEW c \in Channels, NEW T, NEW L, NEW stop, OnLine(c, T, L, m, stop),
         c.thread = "counting", c.buffer # <<>>
  PROVE  Added(c, Head(c.buffer)) \in Channels /\ OnLine(Added(c, Head(c.buffer)), T, L, m, stop)
<1> DEFINE edge == Head(c.buffer)
           period == edge - c.last
           taken == Newest(Append(c.periods, period))
           periods == IF c.last = Never THEN c.periods
                      ELSE IF period > EdgeTimeout THEN <<>>
                      ELSE IF period >= MinPeriod THEN taken
                      ELSE c.periods
           d == Added(c, edge)
<1>1. /\ c.buffer \in Seq(Int) /\ c.periods \in Seq(Int) /\ c.since \in Int /\ c.last \in Int
      /\ T \subseteq 0..m /\ \A e \in T : e \in Int /\ 0 <= e
  BY DEF OnLine, Channels
<1>2. /\ Tail(c.buffer) \in Seq(Int) /\ 1 \in DOMAIN c.buffer /\ edge = c.buffer[1] /\ edge \in Int
      /\ \A i \in DOMAIN Tail(c.buffer) :
           i + 1 \in DOMAIN c.buffer /\ i \in Int /\ Tail(c.buffer)[i] = c.buffer[i + 1]
      /\ \A i \in DOMAIN c.buffer :
           i = 1 \/ (i - 1 \in DOMAIN Tail(c.buffer) /\ Tail(c.buffer)[i - 1] = c.buffer[i])
  BY <1>1, Shorter, Zenon
<1>3. \A i \in DOMAIN c.buffer : i \in Int /\ i >= 1
  BY <1>1
<1>4. edge \in T /\ c.last < edge /\ c.since <= edge /\ edge # Never
  BY <1>1, <1>2 DEF OnLine, Waiting, Never
<1>5. /\ taken \in Seq(Int) /\ taken # <<>>
      /\ \A i \in DOMAIN taken : taken[i] = period \/ \E j \in DOMAIN c.periods : taken[i] = c.periods[j]
  <2>1. period \in Int /\ c.periods \in Seq(Int)
    BY <1>1, <1>2
  <2> HIDE DEF period
  <2> QED
    BY <2>1, NewestKeeps, Zenon
<1>6. d = [c EXCEPT !.last = edge, !.buffer = Tail(c.buffer), !.periods = periods]
  BY DEF Added
<1> HIDE DEF taken
<1>7. periods \in Seq(Int)
  BY <1>1, <1>5
<1>8. \A i \in DOMAIN periods :
        \/ \E j \in DOMAIN c.periods : periods[i] = c.periods[j]
        \/ c.last # Never /\ periods[i] = period
  <2>2. CASE c.last # Never /\ ~(period > EdgeTimeout) /\ period >= MinPeriod
    BY <1>5, <2>2
  <2>3. CASE ~(c.last # Never /\ ~(period > EdgeTimeout) /\ period >= MinPeriod)
    <3>1. periods = c.periods \/ periods = <<>>
      BY <2>3
    <3> QED
      BY <3>1
  <2> QED
    BY <2>2, <2>3
<1>9. c.last # Never /\ ~(period > EdgeTimeout) /\ period >= MinPeriod => periods # <<>>
  BY <1>5
<1> HIDE DEF periods
<1>10. /\ d.last = edge /\ d.buffer = Tail(c.buffer) /\ d.periods = periods /\ d.since = c.since
       /\ d.thread = "counting" /\ d.error = c.error /\ d \in Channels
  <2>1. c = [thread |-> c.thread, error |-> c.error, since |-> c.since, buffer |-> c.buffer,
             periods |-> c.periods, last |-> c.last]
    BY DEF Channels
  <2>2. d = [thread |-> c.thread, error |-> c.error, since |-> c.since, buffer |-> Tail(c.buffer),
             periods |-> periods, last |-> edge]
    BY <1>6, <2>1
  <2>3. c.thread = "counting" /\ c.error \in BOOLEAN
    BY DEF Channels
  <2> HIDE DEF d, edge
  <2> QED
    BY <1>1, <1>2, <1>7, <2>2, <2>3 DEF Channels
<1> HIDE DEF d
<1>11. Waiting(d, T)
  <2>1. \A i, j \in DOMAIN c.buffer : i < j => c.buffer[i] < c.buffer[j]
    BY DEF OnLine, Waiting
  <2>2. \A i \in DOMAIN c.buffer : c.buffer[i] \in T /\ c.since <= c.buffer[i]
    BY DEF OnLine, Waiting
  <2>3. ASSUME NEW i \in DOMAIN Tail(c.buffer)
        PROVE  Tail(c.buffer)[i] \in T /\ edge < Tail(c.buffer)[i] /\ c.since <= Tail(c.buffer)[i]
    <3>1. i + 1 \in DOMAIN c.buffer /\ i \in Int /\ Tail(c.buffer)[i] = c.buffer[i + 1] /\ i + 1 # 1
      <4>1. \A n \in DOMAIN Tail(c.buffer) : n \in Int /\ n >= 1
        BY <1>2
      <4> QED
        BY <1>2, <4>1
    <3>2. 1 < i + 1
      BY <1>3, <3>1
    <3> QED
      BY <1>2, <2>1, <2>2, <3>1, <3>2
  <2>4. ASSUME NEW i \in DOMAIN Tail(c.buffer), NEW j \in DOMAIN Tail(c.buffer), i < j
        PROVE  Tail(c.buffer)[i] < Tail(c.buffer)[j]
    <3>1. \A n \in DOMAIN Tail(c.buffer) :
            n \in Nat /\ n + 1 \in DOMAIN c.buffer /\ Tail(c.buffer)[n] = c.buffer[n + 1]
      <4>1. \A n \in DOMAIN Tail(c.buffer) : n \in Nat
        BY <1>2
      <4>2. \A n \in DOMAIN Tail(c.buffer) : n + 1 \in DOMAIN c.buffer
        BY <1>2
      <4>3. \A n \in DOMAIN Tail(c.buffer) : Tail(c.buffer)[n] = c.buffer[n + 1]
        BY <1>2
      <4> QED
        BY <4>1, <4>2, <4>3
    <3>2. i + 1 < j + 1
      BY <2>4, <3>1
    <3>3. c.buffer[i + 1] < c.buffer[j + 1]
      BY <2>1, <3>1, <3>2
    <3> QED
      BY <3>1, <3>3
  <2> QED
    BY <1>10, <2>3, <2>4 DEF Waiting
<1>12. ASSUME ~L
       PROVE  /\ \A e \in T : c.since < e /\ c.last < e => e >= edge
              /\ Complete(d, T)
  <2>1. \A e \in T : c.since < e /\ c.last < e => \E i \in DOMAIN c.buffer : c.buffer[i] = e
    BY <1>12 DEF OnLine, Complete
  <2>2. \A i \in DOMAIN c.buffer : i = 1 \/ c.buffer[1] < c.buffer[i]
    <3>1. \A i, j \in DOMAIN c.buffer : i < j => c.buffer[i] < c.buffer[j]
      BY DEF OnLine, Waiting
    <3>2. \A i \in DOMAIN c.buffer : i = 1 \/ 1 < i
      BY <1>3
    <3> QED
      BY <1>2, <3>1, <3>2
  <2>3. ASSUME NEW e \in T, c.since < e, c.last < e
        PROVE  e >= edge
    <3>1. PICK i \in DOMAIN c.buffer : c.buffer[i] = e
      BY <2>1, <2>3
    <3>2. e = edge \/ edge < e
      BY <1>2, <2>2, <3>1
    <3>3. e \in Int /\ edge \in Int
      BY <1>1, <1>2
    <3> QED
      BY <3>2, <3>3
  <2>4. ASSUME NEW e \in T, d.since < e, d.last < e
        PROVE  \E i \in DOMAIN d.buffer : d.buffer[i] = e
    <3>1. e \in Int /\ c.since < e /\ c.last < e /\ e # edge
      BY <1>1, <1>2, <1>4, <1>10, <2>4
    <3>2. PICK i \in DOMAIN c.buffer : c.buffer[i] = e
      BY <2>1, <3>1
    <3>3. i # 1
      BY <1>2, <3>1, <3>2
    <3>4. i - 1 \in DOMAIN Tail(c.buffer) /\ Tail(c.buffer)[i - 1] = c.buffer[i]
      BY <1>2, <3>3
    <3> QED
      BY <1>10, <3>2, <3>4
  <2> QED
    BY <2>3, <2>4 DEF Complete
<1>13. ASSUME ~L, c.last # Never
       PROVE  Gap(T, c.last, edge)
  <2>1. c.last \in T /\ c.since <= c.last
    BY <1>13 DEF OnLine
  <2> QED
    BY <1>1, <1>2, <1>4, <1>12, <1>13, <2>1 DEF Gap
<1>14. ASSUME ~L
       PROVE  Kept(d, T)
  <2>1. ASSUME NEW i \in DOMAIN periods
        PROVE  \E a, b \in T : Gap(T, a, b) /\ b - a = periods[i] /\ b <= edge
    <3>1. CASE \E j \in DOMAIN c.periods : periods[i] = c.periods[j]
      <4>1. PICK a \in T, b \in T : Gap(T, a, b) /\ b - a = periods[i] /\ b <= c.last
        BY <1>14, <3>1 DEF OnLine, Kept
      <4>2. b <= edge
        BY <1>1, <1>2, <1>4, <4>1
      <4> QED
        BY <4>1, <4>2
    <3>2. CASE c.last # Never /\ periods[i] = period
      <4>1. Gap(T, c.last, edge) /\ c.last \in T /\ edge - c.last = periods[i] /\ edge <= edge
        BY <1>2, <1>13, <1>14, <3>2 DEF OnLine
      <4> QED
        BY <1>4, <4>1
    <3> QED
      BY <1>8, <3>1, <3>2
  <2> QED
    BY <1>10, <2>1 DEF Kept
<1>15. ASSUME ~L
       PROVE  Left(d, T)
  <2>1. SUFFICES ASSUME d.periods = <<>>, NEW a \in T, Gap(T, a, edge), a > c.since,
                        MinPeriod <= edge - a, edge - a <= EdgeTimeout
                 PROVE  FALSE
    BY <1>10 DEF Left
  <2>2. a \in Int /\ a < edge
    BY <1>1, <2>1 DEF Gap
  <2>3. ~(c.last < a)
    BY <1>1, <1>2, <1>12, <1>15, <2>1, <2>2
  <2>4. c.last # Never
    BY <1>1, <2>3 DEF Never
  <2>5. c.last = a
    <3>1. c.last \in T
      BY <2>4 DEF OnLine
    <3> QED
      BY <1>1, <1>2, <1>4, <2>1, <2>2, <2>3, <3>1 DEF Gap
  <2>6. period >= MinPeriod /\ ~(period > EdgeTimeout)
    BY <1>2, <2>1, <2>2, <2>5, FeedbackAssumption
  <2> QED
    BY <1>9, <1>10, <2>1, <2>4, <2>6
<1>16. OnLine(d, T, L, m, stop)
  <2>1. /\ T \subseteq 0..m /\ d.since <= m /\ d.last >= Never
        /\ d.last # Never => d.last \in T /\ (d.thread = "counting" => d.since <= d.last)
        /\ d.periods # <<>> => d.last # Never
    BY <1>1, <1>2, <1>4, <1>10 DEF OnLine, Never
  <2>2. d.thread = "ended" \/ (d.thread = "opening" /\ d.since # Never) => d.error \/ stop
    BY <1>10
  <2> QED
    BY <1>11, <1>12, <1>14, <1>15, <2>1, <2>2 DEF OnLine
<1> QED
  BY <1>10, <1>16 DEF d

\* A step at one line.
LEMMA OneLineSteps ==
  ASSUME FeedbackInv, NEW l \in Lines, NEW d \in Channels, NEW T, NEW L \in BOOLEAN,
         channel' = [channel EXCEPT ![l] = d], turned' = [turned EXCEPT ![l] = T],
         lost' = [lost EXCEPT ![l] = L], OnLine(d, T, L, moment, stopping),
         UNCHANGED <<moment, stopping, supply, power, lastRead>>
  PROVE  FeedbackInv'
<1>1. /\ channel' \in [Lines -> Channels] /\ lost' \in [Lines -> BOOLEAN]
      /\ turned' \in [Lines -> SUBSET Nat]
  <2>1. T \in SUBSET Nat
    BY DEF OnLine, FeedbackInv
  <2> QED
    BY <2>1 DEF FeedbackInv
<1>2. ASSUME NEW k \in Lines
      PROVE  OnLine(channel'[k], turned'[k], lost'[k], moment, stopping)
  <2>1. CASE k = l
    <3>1. channel'[k] = d /\ turned'[k] = T /\ lost'[k] = L
      BY <2>1 DEF FeedbackInv
    <3> QED
      BY <3>1
  <2>2. CASE k # l
    <3>1. channel'[k] = channel[k] /\ turned'[k] = turned[k] /\ lost'[k] = lost[k]
      BY <2>2 DEF FeedbackInv
    <3> QED
      BY <3>1 DEF FeedbackInv
  <2> QED
    BY <2>1, <2>2
<1>3. \A k \in Lines : OnLine(channel'[k], turned'[k], lost'[k], moment', stopping')
  BY <1>2
<1> QED
  BY <1>1, <1>3 DEF FeedbackInv, OnLine, Waiting, Complete, Kept, Left, Gap

LEMMA FeedbackStarts == FeedbackInit => FeedbackInv
<1> SUFFICES ASSUME FeedbackInit
             PROVE  FeedbackInv
  OBVIOUS
<1>1. /\ moment = 0 /\ stopping = FALSE /\ supply = "good"
      /\ turned = [l \in Lines |-> {}] /\ lost = [l \in Lines |-> FALSE]
      /\ channel = [l \in Lines |-> FreshChannel]
      /\ power.low = "unknown" /\ lastRead = "nothing"
  BY DEF FeedbackInit
<1>2. FreshChannel \in Channels
  <2>1. <<>> \in Seq(Int) /\ Never \in Int
    BY DEF Never
  <2> QED
    BY <2>1 DEF FreshChannel, Channels
<1>3. OnLine(FreshChannel, {}, FALSE, 0, FALSE)
  BY DEF FreshChannel, OnLine, Waiting, Complete, Kept, Left, Never
<1>4. \A l \in Lines : OnLine(channel[l], turned[l], lost[l], moment, stopping)
  BY <1>1, <1>3
<1> QED
  BY <1>1, <1>2, <1>4 DEF FeedbackInv

LEMMA EdgeKeeps ==
  ASSUME FeedbackInv, NEW l \in Lines, Edge(l)
  PROVE  FeedbackInv'
<1> DEFINE c == channel[l]
           T == turned[l]
           L == lost[l]
           full == Len(c.buffer) = BufferSize
           more == T \cup {moment}
<1>1. /\ moment \in Nat /\ c \in Channels /\ OnLine(c, T, L, moment, stopping)
      /\ moment \notin T /\ L \in BOOLEAN /\ turned' = [turned EXCEPT ![l] = more]
      /\ UNCHANGED <<moment, stopping, supply, power, lastRead>>
  BY DEF FeedbackInv, Edge
<1>2. CASE c.thread = "counting"
  <2> DEFINE d == EdgeKept(c, full, moment)
             M == L \/ full
  <2>1. channel' = [channel EXCEPT ![l] = d] /\ lost' = [lost EXCEPT ![l] = M]
    BY <1>2 DEF Edge, EdgeKept
  <2>2. full => c.buffer # <<>>
    BY FeedbackAssumption
  <2>3. full \in BOOLEAN /\ M \in BOOLEAN /\ (~M => ~L /\ ~full)
    OBVIOUS
  <2> HIDE DEF full, c, T, L, M
  <2>4. d \in Channels /\ OnLine(d, more, M, moment, stopping)
    BY <1>1, <1>2, <2>2, <2>3, ReadEdge
  <2> HIDE DEF d, more
  <2> QED
    BY <1>1, <2>1, <2>3, <2>4, OneLineSteps, Zenon
<1>3. CASE c.thread # "counting"
  <2>1. UNCHANGED <<channel, lost>>
    BY <1>3 DEF Edge
  <2>2. channel' = [channel EXCEPT ![l] = c] /\ lost' = [lost EXCEPT ![l] = L]
    BY <2>1 DEF FeedbackInv
  <2> HIDE DEF c, T, L
  <2>3. OnLine(c, more, L, moment, stopping)
    BY <1>1, <1>3, UnreadEdge
  <2> HIDE DEF more
  <2> QED
    BY <1>1, <2>2, <2>3, OneLineSteps, Zenon
<1> QED
  BY <1>2, <1>3

LEMMA WorkerKeeps ==
  ASSUME FeedbackInv, NEW l \in Lines,
         RequestLine(l) \/ WorkerFails(l) \/ AddEdge(l) \/ WorkerStops(l)
  PROVE  FeedbackInv'
<1> DEFINE c == channel[l]
<1>1. /\ moment \in Nat /\ c \in Channels /\ OnLine(c, turned[l], lost[l], moment, stopping)
      /\ lost[l] \in BOOLEAN /\ turned' = [turned EXCEPT ![l] = turned[l]]
      /\ UNCHANGED <<moment, stopping, supply, power, lastRead>>
  <2>1. UNCHANGED <<turned, moment, stopping, supply, power, lastRead>>
    BY DEF RequestLine, WorkerFails, AddEdge, WorkerStops
  <2> QED
    BY <2>1 DEF FeedbackInv
<1>2. CASE RequestLine(l)
  <2>1. channel' = [channel EXCEPT ![l] = Requested(c)] /\ lost' = [lost EXCEPT ![l] = FALSE]
    BY <1>2 DEF RequestLine
  <2>2. Requested(c) \in Channels /\ OnLine(Requested(c), turned[l], FALSE, moment, stopping)
    BY <1>1, Opens
  <2> DEFINE d == Requested(c)
  <2>3. channel' = [channel EXCEPT ![l] = d] /\ d \in Channels
        /\ OnLine(d, turned[l], FALSE, moment, stopping)
    BY <2>1, <2>2
  <2> HIDE DEF c, d
  <2> QED
    BY <1>1, <2>1, <2>3, OneLineSteps
<1>3. CASE WorkerFails(l)
  <2> DEFINE d == WorkerEnded(c, TRUE)
  <2>1. channel' = [channel EXCEPT ![l] = d]
    BY <1>3 DEF WorkerFails, FeedbackInv, WorkerEnded
  <2>2. lost' = [lost EXCEPT ![l] = lost[l]]
    BY <1>3 DEF WorkerFails, FeedbackInv
  <2>3. d \in Channels /\ OnLine(d, turned[l], lost[l], moment, stopping)
    BY <1>1, Ends
  <2> HIDE DEF c, d
  <2> QED
    BY <1>1, <2>1, <2>2, <2>3, OneLineSteps
<1>4. CASE AddEdge(l)
  <2> DEFINE d == Added(c, Head(c.buffer))
  <2>1. channel' = [channel EXCEPT ![l] = d] /\ c.thread = "counting" /\ c.buffer # <<>>
    BY <1>4 DEF AddEdge
  <2>2. lost' = [lost EXCEPT ![l] = lost[l]]
    BY <1>4 DEF AddEdge, FeedbackInv
  <2>3. d \in Channels /\ OnLine(d, turned[l], lost[l], moment, stopping)
    BY <1>1, <2>1, Counts
  <2> HIDE DEF c, d
  <2> QED
    BY <1>1, <2>1, <2>2, <2>3, OneLineSteps
<1>5. CASE WorkerStops(l)
  <2> DEFINE d == WorkerEnded(c, c.error)
  <2>1. channel' = [channel EXCEPT ![l] = d]
    <3>1. channel' = [channel EXCEPT ![l] = [c EXCEPT !.thread = "ended", !.buffer = <<>>]]
      BY <1>5 DEF WorkerStops, FeedbackInv
    <3>2. [c EXCEPT !.thread = "ended", !.buffer = <<>>] = d
      BY <1>1 DEF Channels, WorkerEnded
    <3> QED
      BY <3>1, <3>2
  <2>2. lost' = [lost EXCEPT ![l] = lost[l]]
    BY <1>5 DEF WorkerStops, FeedbackInv
  <2>3. c.error \in BOOLEAN /\ stopping = TRUE
    BY <1>1, <1>5 DEF Channels, WorkerStops, FeedbackInv
  <2>4. d \in Channels /\ OnLine(d, turned[l], lost[l], moment, stopping)
    BY <1>1, <2>3, Ends
  <2> HIDE DEF c, d
  <2> QED
    BY <1>1, <2>1, <2>2, <2>4, OneLineSteps
<1> QED
  BY <1>2, <1>3, <1>4, <1>5

LEMMA FeedbackSteps == FeedbackInv /\ [FeedbackNext]_feedbackVars => FeedbackInv'
<1> SUFFICES ASSUME FeedbackInv, [FeedbackNext]_feedbackVars
             PROVE  FeedbackInv'
  OBVIOUS
<1>1. CASE NextMoment
  <2>1. moment' = moment + 1 /\ UNCHANGED <<turned, lost, channel, stopping, supply, power, lastRead>>
    BY <1>1 DEF NextMoment
  <2>2. ASSUME NEW l \in Lines
        PROVE  OnLine(channel[l], turned[l], lost[l], moment + 1, stopping)
    <3>1. OnLine(channel[l], turned[l], lost[l], moment, stopping) /\ moment \in Nat
          /\ channel[l].since \in Int
      BY DEF FeedbackInv, Channels
    <3>2. turned[l] \subseteq 0..(moment + 1) /\ channel[l].since <= moment + 1
      BY <3>1 DEF OnLine
    <3> QED
      BY <3>1, <3>2 DEF OnLine
  <2>3. \A l \in Lines : OnLine(channel'[l], turned'[l], lost'[l], moment', stopping')
    BY <2>1, <2>2
  <2> QED
    BY <2>1, <2>3 DEF FeedbackInv, OnLine, Waiting, Complete, Kept, Left, Gap
<1>2. CASE SupplyChanges \/ UNCHANGED feedbackVars
  <2>1. supply' \in {"good", "low"}
        /\ UNCHANGED <<moment, turned, lost, channel, stopping, power, lastRead>>
    BY <1>2 DEF SupplyChanges, feedbackVars, FeedbackInv
  <2> QED
    BY <2>1 DEF FeedbackInv, OnLine, Waiting, Complete, Kept, Left, Gap
<1>3. CASE FeedbackHealthCheck
  <2>1. /\ channel' = [l \in Lines |->
                         IF channel[l].thread = "ended" /\ ~stopping
                           THEN [channel[l] EXCEPT !.thread = "opening"] ELSE channel[l]]
        /\ ReadPower \/ PowerUnread
        /\ UNCHANGED <<moment, turned, lost, stopping, supply>>
    BY <1>3 DEF FeedbackHealthCheck
  <2>2. power'.low = "yes" <=> lastRead' = "low"
    BY <2>1 DEF ReadPower, PowerUnread, FeedbackInv
  <2>3. ASSUME NEW l \in Lines
        PROVE  channel'[l] \in Channels /\ OnLine(channel'[l], turned[l], lost[l], moment, stopping)
    <3>1. OnLine(channel[l], turned[l], lost[l], moment, stopping) /\ moment \in Nat
          /\ channel[l] \in Channels
      BY DEF FeedbackInv
    <3>2. CASE channel[l].thread = "ended" /\ ~stopping
      <4>1. channel'[l] = [channel[l] EXCEPT !.thread = "opening"]
        BY <2>1, <3>2
      <4> QED
        BY <3>1, <3>2, <4>1, Restarts
    <3>3. CASE ~(channel[l].thread = "ended" /\ ~stopping)
      <4>1. channel'[l] = channel[l]
        BY <2>1, <3>3
      <4> QED
        BY <3>1, <4>1
    <3> QED
      BY <3>2, <3>3
  <2>4. channel' \in [Lines -> Channels]
    BY <2>1, <2>3
  <2>5. \A l \in Lines : OnLine(channel'[l], turned'[l], lost'[l], moment', stopping')
    BY <2>1, <2>3
  <2> QED
    BY <2>1, <2>2, <2>4, <2>5 DEF FeedbackInv, OnLine, Waiting, Complete, Kept, Left, Gap
<1>4. CASE CloseFeedback
  <2>1. stopping' = TRUE /\ UNCHANGED <<moment, turned, lost, channel, supply, power, lastRead>>
    BY <1>4 DEF CloseFeedback
  <2>2. \A l \in Lines : OnLine(channel[l], turned[l], lost[l], moment, TRUE)
    BY DEF FeedbackInv, OnLine
  <2>3. \A l \in Lines : OnLine(channel'[l], turned'[l], lost'[l], moment', stopping')
    BY <2>1, <2>2
  <2> QED
    BY <2>1, <2>3 DEF FeedbackInv, OnLine, Waiting, Complete, Kept, Left, Gap
<1> QED
  BY <1>1, <1>2, <1>3, <1>4, EdgeKeeps, WorkerKeeps DEF FeedbackNext

LEMMA FeedbackHolds == FeedbackInv => FeedbackTrue
<1> SUFFICES ASSUME FeedbackInv
             PROVE  FeedbackTrue
  OBVIOUS
<1>1. UndervoltageSignal <=> lastRead = "low"
  BY DEF FeedbackInv, UndervoltageSignal
<1>2. ASSUME NEW l \in Lines
      PROVE  LET c == channel[l]
             IN /\ Turning(c) => \E e \in turned[l] : moment - e <= EdgeTimeout
                /\ Turning(c) /\ ~lost[l] =>
                     \A i \in DOMAIN c.periods :
                       \E g \in Gaps(l) : g[2] - g[1] = c.periods[i] /\ g[2] <= c.last
                /\ \A g \in Gaps(l) :
                     /\ c.thread = "counting" /\ c.buffer = <<>> /\ ~lost[l] /\ ~stopping
                     /\ \A e \in turned[l] : e <= g[2]
                     /\ g[1] > c.since /\ g[2] - g[1] \in MinPeriod..EdgeTimeout
                     /\ moment - g[2] <= EdgeTimeout
                     => Turning(c)
                /\ c.thread # "counting" /\ c.since # Never /\ ~stopping => MonitorSignal
  <2> DEFINE c == channel[l]  T == turned[l]
  <2>1. /\ c \in Channels /\ OnLine(c, T, lost[l], moment, stopping) /\ moment \in Nat
        /\ c.since \in Int /\ c.last \in Int /\ \A e \in T : e \in Int /\ 0 <= e
    BY DEF FeedbackInv, OnLine, Channels
  <2>2. Turning(c) => \E e \in T : moment - e <= EdgeTimeout
    BY <2>1 DEF Turning, OnLine
  <2>3. \A a, b \in T : Gap(T, a, b) => <<a, b>> \in Gaps(l)
    BY DEF Gap, Gaps
  <2>4. \A g \in Gaps(l) : g[1] \in T /\ g[2] \in T /\ Gap(T, g[1], g[2])
    BY DEF Gap, Gaps
  <2>5. ASSUME ~lost[l], NEW i \in DOMAIN c.periods
        PROVE  \E g \in Gaps(l) : g[2] - g[1] = c.periods[i] /\ g[2] <= c.last
    <3>1. PICK a \in T, b \in T : Gap(T, a, b) /\ b - a = c.periods[i] /\ b <= c.last
      BY <2>1, <2>5 DEF OnLine, Kept
    <3>2. <<a, b>> \in Gaps(l) /\ <<a, b>>[1] = a /\ <<a, b>>[2] = b
      BY <2>3, <3>1
    <3> QED
      BY <3>1, <3>2
  <2>6. ASSUME NEW g \in Gaps(l),
               c.thread = "counting", c.buffer = <<>>, ~lost[l], ~stopping,
               \A e \in T : e <= g[2],
               g[1] > c.since, g[2] - g[1] \in MinPeriod..EdgeTimeout, moment - g[2] <= EdgeTimeout
        PROVE  Turning(c)
    <3> DEFINE a == g[1]  b == g[2]
    <3>1. a \in T /\ b \in T /\ Gap(T, a, b) /\ a \in Int /\ b \in Int /\ a < b
      BY <2>1, <2>4 DEF Gap
    <3> HIDE DEF a, b
    <3>2. c.since < b
      BY <2>1, <2>6, <3>1 DEF a
    <3>3. ~(c.last < b)
      BY <2>1, <2>6, <3>1, <3>2 DEF OnLine, Complete
    <3>4. c.last # Never
      BY <2>1, <3>1, <3>3 DEF Never
    <3>5. c.last = b
      <4>1. c.last \in T
        BY <2>1, <3>4 DEF OnLine
      <4>2. c.last <= b
        BY <2>6, <4>1 DEF b
      <4> QED
        BY <2>1, <3>1, <3>3, <4>2
    <3>6. c.periods # <<>>
      <4>1. a > c.since /\ MinPeriod <= b - a /\ b - a <= EdgeTimeout
        BY <2>6, FeedbackAssumption DEF a, b
      <4> QED
        BY <2>1, <2>6, <3>1, <3>5, <4>1 DEF OnLine, Left
    <3>7. moment - c.last <= EdgeTimeout
      BY <2>6, <3>5 DEF b
    <3> QED
      BY <3>4, <3>6, <3>7 DEF Turning
  <2>7. c.thread # "counting" /\ c.since # Never /\ ~stopping => MonitorSignal
    BY <2>1 DEF OnLine, MonitorSignal, Channels
  <2> QED
    BY <2>2, <2>5, <2>6, <2>7
<1> QED
  BY <1>1, <1>2 DEF FeedbackTrue

-----------------------------------------------------------------------------
(* The journal of alerts *)

Records == [id : Alerts, at : 0..LastInstant]

\* A page or a list: newest first, and nothing of it is older than its cursor.
Descending(records) == \A i, j \in DOMAIN records : i < j => Newer(records[i], records[j])
NotBelow(r, cursor) == cursor # NoCursor => r = cursor \/ Newer(r, cursor)
PageTrue(p, known) ==
  /\ p.records \in Seq(known) /\ p.cursor \in known \cup {NoCursor}
  /\ Descending(p.records)
  /\ \A i \in DOMAIN p.records : NotBelow(p.records[i], p.cursor)

\* Of these records, those that are not in it come after its cursor.
Covers(p, R) ==
  \A r \in R : (\E i \in DOMAIN p.records : p.records[i] = r) \/ (p.cursor # NoCursor /\ Newer(p.cursor, r))

\* Of these records, those that the days do not have are older than the days go back.
Reaches(days, before, R) ==
  \A r \in R : r \in days[DayOf(r.at)] \/ (before # NoCursor /\ DayOf(r.at) < before)

ClosedOnce ==
  /\ instant \in 0..LastInstant /\ closed \subseteq Records /\ IsFiniteSet(closed)
  /\ \A r \in closed : r.at <= instant
  /\ \A r, s \in closed : r.id = s.id => r = s
  /\ begun \subseteq closed

DaysTrue(days, known) ==
  /\ days \in [CalendarDays -> SUBSET known]
  /\ \A d \in CalendarDays : \A r \in days[d] : DayOf(r.at) = d

IndexTrue ==
  /\ index.ready \in BOOLEAN /\ DaysTrue(index.days, closed) /\ index.before \in Nat \cup {NoCursor}
  /\ index.ready => Reaches(index.days, index.before, begun)

IndexAnswerTrue ==
  indexAnswer # NoAnswer =>
    /\ indexAnswer.older \in BOOLEAN
    /\ DaysTrue(indexAnswer.page.days, closed) /\ indexAnswer.page.before \in Nat \cup {NoCursor}
    /\ \A d \in CalendarDays :
         indexAnswer.page.days[d] # {} => index.days[d] \subseteq indexAnswer.page.days[d]
    /\ ~index.ready => Reaches(indexAnswer.page.days, indexAnswer.page.before, begun)
    /\ indexAnswer.older =>
         /\ index.ready /\ index.before # NoCursor
         /\ Reaches(indexAnswer.page.days, indexAnswer.page.before,
                    {r \in begun : DayOf(r.at) < index.before})

ListTrue(list, days, known) ==
  list # NoList =>
    /\ days # {} /\ list.loaded \in BOOLEAN /\ PageTrue(list, known)
    /\ ~list.loaded => list = EmptyList
    /\ list.loaded => Covers(list, days)

AnswerTrue(answer, list, days, known) ==
  answer # NoAnswer =>
    /\ list # NoList /\ PageTrue(answer, known)
    /\ ~list.loaded => Covers(answer, days)
    /\ list.loaded =>
         /\ list.cursor # NoCursor
         /\ \A i \in DOMAIN answer.records : Newer(list.cursor, answer.records[i])
         /\ answer.cursor # NoCursor => Newer(list.cursor, answer.cursor)
         /\ Covers(answer, {r \in days : Newer(list.cursor, r)})

JournalInv ==
  /\ ClosedOnce /\ IndexTrue /\ IndexAnswerTrue
  /\ DOMAIN lists = CalendarDays /\ DOMAIN dayAnswer = CalendarDays
  /\ \A d \in CalendarDays : ListTrue(lists[d], index.days[d], closed)
                             /\ AnswerTrue(dayAnswer[d], lists[d], index.days[d], closed)

LEMMA NewestFirst ==
  ASSUME NEW r \in Records, NEW s \in Records
  PROVE  /\ ~Newer(r, r) /\ (r # s => Newer(r, s) \/ Newer(s, r)) /\ ~(Newer(r, s) /\ Newer(s, r))
         /\ \A t \in Records : Newer(r, s) /\ Newer(s, t) => Newer(r, t)
<1>1. ASSUME NEW t \in Records
      PROVE  t = [id |-> t.id, at |-> t.at] /\ t.id \in Nat /\ t.at \in Nat
  <2>1. t = [id |-> t.id, at |-> t.at] /\ t.id \in Alerts /\ t.at \in 0..LastInstant
    BY DEF Records
  <2>2. Alerts \subseteq Nat /\ LastInstant \in Nat
    BY AlertHistoryAssumption
  <2> QED
    BY <2>1, <2>2
<1>2. r = s \/ r.id # s.id \/ r.at # s.at
  BY <1>1
<1>3. r # s => Newer(r, s) \/ Newer(s, r)
  BY <1>1, <1>2 DEF Newer
<1>4. ~Newer(r, r) /\ ~(Newer(r, s) /\ Newer(s, r))
  BY <1>1 DEF Newer
<1>5. \A t \in Records : Newer(r, s) /\ Newer(s, t) => Newer(r, t)
  BY <1>1 DEF Newer
<1> QED
  BY <1>3, <1>4, <1>5

(* Whoever is newer has the earlier place, and every place is somebody's.   *)
LEMMA PlacesApart ==
  ASSUME NEW S, S \subseteq Records, IsFiniteSet(S)
  PROVE  /\ \A r \in S : Place(r, S) \in 1..Cardinality(S)
         /\ \A r, s \in S : Newer(r, s) => Place(r, S) < Place(s, S)
<1> DEFINE Above(r) == {s \in S : Newer(s, r)}
<1>1. ASSUME NEW r \in S
      PROVE  /\ IsFiniteSet(Above(r)) /\ Cardinality(Above(r)) \in Nat
             /\ Cardinality(Above(r)) < Cardinality(S)
  <2>1. Above(r) \in SUBSET S /\ r \notin Above(r)
    BY NewestFirst
  <2>2. Above(r) # S
    BY <2>1
  <2> HIDE DEF Above
  <2> QED
    BY <2>1, <2>2, FS_Subset, FS_CardinalityType
<1>2. ASSUME NEW r \in S, NEW s \in S, Newer(r, s)
      PROVE  Cardinality(Above(r)) < Cardinality(Above(s))
  <2>1. Above(r) \subseteq Above(s)
    <3> SUFFICES ASSUME NEW t \in S, Newer(t, r)
                 PROVE  Newer(t, s)
      OBVIOUS
    <3> QED
      BY <1>2, NewestFirst
  <2>2. r \notin Above(r) /\ r \in Above(s)
    BY <1>2, NewestFirst
  <2>3. /\ IsFiniteSet(Above(r)) /\ IsFiniteSet(Above(s))
        /\ Cardinality(Above(r)) \in Nat /\ Cardinality(Above(s)) \in Nat
    BY <1>1
  <2> HIDE DEF Above
  <2> QED
    BY <2>1, <2>2, <2>3, FS_Subset
<1>3. \A r : Place(r, S) = Cardinality(Above(r)) + 1
  BY DEF Place
<1>4. Cardinality(S) \in Nat
  BY FS_CardinalityType
<1> HIDE DEF Above
<1>5. ASSUME NEW r \in S
      PROVE  Place(r, S) \in 1..Cardinality(S)
  BY <1>1, <1>3, <1>4
<1>6. ASSUME NEW r \in S, NEW s \in S, Newer(r, s)
      PROVE  Place(r, S) < Place(s, S)
  <2>1. Cardinality(Above(r)) < Cardinality(Above(s))
    BY <1>2, <1>6
  <2> QED
    BY <2>1, <1>1, <1>3
<1> QED
  BY <1>5, <1>6

LEMMA AllInOrder ==
  ASSUME NEW S, S \subseteq Records, IsFiniteSet(S)
  PROVE  /\ Cardinality(S) \in Nat /\ InOrder(S) \in [1..Cardinality(S) -> S]
         /\ InOrder(S) \in Seq(Records) /\ Len(InOrder(S)) = Cardinality(S)
         /\ Descending(InOrder(S))
         /\ \A r \in S : \E i \in 1..Cardinality(S) : InOrder(S)[i] = r
<1> DEFINE n == Cardinality(S)
           f == [r \in S |-> Place(r, S)]
<1>1. n \in Nat
  BY FS_CardinalityType
<1>2. /\ \A r \in S : Place(r, S) \in 1..n
      /\ \A r, s \in S : Newer(r, s) => Place(r, S) < Place(s, S)
  BY PlacesApart
<1>3. \A r, s \in S : Place(r, S) = Place(s, S) => r = s
  <2> SUFFICES ASSUME NEW r \in S, NEW s \in S, r # s
               PROVE  Place(r, S) # Place(s, S)
    OBVIOUS
  <2>1. Newer(r, s) \/ Newer(s, r)
    BY NewestFirst
  <2> QED
    BY <2>1, <1>1, <1>2
<1>4. f \in Surjection(S, 1..n)
  <2>1. f \in Injection(S, 1..n)
    BY <1>2, <1>3 DEF Injection, IsInjective
  <2>2. IsFiniteSet(1..n) /\ Cardinality(1..n) = n
    BY <1>1, FS_Interval
  <2>3. n = Cardinality(S)
    OBVIOUS
  <2> HIDE DEF f, n
  <2>4. Cardinality(S) = Cardinality(1..n) <=> f \in Surjection(S, 1..n)
    BY <2>1, <2>2, FS_Injection, Zenon
  <2>5. Cardinality(S) = Cardinality(1..n)
    BY <2>2, <2>3
  <2> QED
    BY <2>4, <2>5
<1>5. \A i \in 1..n : \E r \in S : Place(r, S) = i
  BY <1>4 DEF Surjection
<1>6. \A i \in 1..n : InOrder(S)[i] \in S /\ Place(InOrder(S)[i], S) = i
  BY <1>5 DEF InOrder
<1>7. InOrder(S) \in [1..n -> S]
  <2>1. DOMAIN InOrder(S) = 1..n /\ InOrder(S) = [i \in 1..n |-> InOrder(S)[i]]
    BY DEF InOrder
  <2> QED
    BY <2>1, <1>6
<1> HIDE DEF n, f
<1>8. InOrder(S) \in Seq(Records) /\ Len(InOrder(S)) = n
  BY <1>1, <1>7
<1>9. Descending(InOrder(S))
  <2> SUFFICES ASSUME NEW i \in 1..n, NEW j \in 1..n, i < j
               PROVE  Newer(InOrder(S)[i], InOrder(S)[j])
    BY <1>7 DEF Descending
  <2> DEFINE r == InOrder(S)[i]
             s == InOrder(S)[j]
  <2>1. r \in S /\ s \in S /\ Place(r, S) = i /\ Place(s, S) = j
    BY <1>6
  <2> HIDE DEF r, s
  <2>2. r # s /\ ~Newer(s, r)
    BY <2>1, <1>1, <1>2
  <2>3. Newer(r, s)
    BY <2>1, <2>2, NewestFirst
  <2> QED
    BY <2>3 DEF r, s
<1>10. \A r \in S : \E i \in 1..n : InOrder(S)[i] = r
  BY <1>2, <1>3, <1>6
<1> QED
  BY <1>1, <1>7, <1>8, <1>9, <1>10 DEF n

LEMMA Cutting ==
  ASSUME NEW S, S \subseteq Records, NEW n \in Nat, NEW rows \in [1..n -> S],
         Descending(rows), \A r \in S : \E i \in 1..n : rows[i] = r,
         NEW p, p.records = IF n > PageSize THEN SubSeq(rows, 1, PageSize) ELSE rows,
         p.cursor = IF n > PageSize THEN rows[PageSize] ELSE NoCursor
  PROVE  PageTrue(p, S) /\ Covers(p, S)
<1>1. PageSize \in Nat /\ PageSize > 0 /\ NoCursor \notin Records
  BY AlertHistoryAssumption DEF Records
<1>2. ASSUME \A i \in 1..n : (\E j \in DOMAIN p.records : p.records[j] = rows[i])
                               \/ (p.cursor # NoCursor /\ Newer(p.cursor, rows[i]))
      PROVE  Covers(p, S)
  <2> SUFFICES ASSUME NEW r \in S
               PROVE  (\E j \in DOMAIN p.records : p.records[j] = r)
                      \/ (p.cursor # NoCursor /\ Newer(p.cursor, r))
    BY Zenon DEF Covers
  <2>1. PICK i \in 1..n : rows[i] = r
    OBVIOUS
  <2> QED
    BY <2>1, <1>2
<1>3. CASE n > PageSize
  <2>1. rows \in Seq(S)
    OBVIOUS
  <2>2. SubSeq(rows, 1, PageSize) = [i \in 1..PageSize |-> rows[i]]
    BY <2>1, <1>1, <1>3
  <2>3. p.records = [i \in 1..PageSize |-> rows[i]] /\ p.cursor = rows[PageSize]
    BY <1>3, <2>2
  <2>4. p.records \in [1..PageSize -> S] /\ p.cursor \in S
    <3>1. \A i \in 1..PageSize : i \in 1..n /\ rows[i] \in S
      BY <1>1, <1>3
    <3> QED
      BY <3>1, <2>3, <1>1
  <2>5. p.records \in Seq(S)
    BY <2>4, <1>1
  <2>6. DOMAIN p.records = 1..PageSize /\ \A i \in 1..PageSize : p.records[i] = rows[i]
    BY <2>3
  <2>7. \A i, j \in 1..n : i < j => Newer(rows[i], rows[j])
    BY DEF Descending
  <2>8. Descending(p.records)
    BY <2>6, <2>7, <1>1, <1>3 DEF Descending
  <2>9. \A i \in 1..PageSize : NotBelow(p.records[i], p.cursor)
    <3> TAKE i \in 1..PageSize
    <3>1. i = PageSize \/ i < PageSize
      BY <1>1
    <3> QED
      BY <3>1, <2>3, <2>6, <2>7, <1>1, <1>3 DEF NotBelow
  <2>10. PageTrue(p, S)
    BY <2>4, <2>5, <2>6, <2>8, <2>9 DEF PageTrue
  <2>11. Covers(p, S)
    <3> SUFFICES ASSUME NEW i \in 1..n
                 PROVE  (\E j \in DOMAIN p.records : p.records[j] = rows[i])
                        \/ (p.cursor # NoCursor /\ Newer(p.cursor, rows[i]))
      BY <1>2
    <3>1. CASE i \in 1..PageSize
      BY <3>1, <2>6
    <3>2. CASE i > PageSize
      <4>1. Newer(rows[PageSize], rows[i])
        BY <3>2, <2>7, <1>1, <1>3
      <4>2. p.cursor # NoCursor
        BY <2>4, <1>1
      <4> QED
        BY <4>1, <4>2, <2>3
    <3> QED
      BY <3>1, <3>2, <1>1
  <2> QED
    BY <2>10, <2>11
<1>4. CASE ~(n > PageSize)
  <2>1. p.records = rows /\ p.cursor = NoCursor
    BY <1>4
  <2>2. rows \in Seq(S) /\ DOMAIN rows = 1..n
    OBVIOUS
  <2>3. PageTrue(p, S)
    BY <2>1, <2>2 DEF PageTrue, NotBelow
  <2>4. Covers(p, S)
    BY <2>1, <2>2, <1>2
  <2> QED
    BY <2>3, <2>4
<1> QED
  BY <1>3, <1>4

(* What query_day answers, of the records of the day that are below the cursor. *)
LEMMA DayAnswered ==
  ASSUME ClosedOnce, NEW d, NEW cursor \in closed \cup {NoCursor}
  PROVE  LET p == QueryDay(d, cursor) IN
         /\ PageTrue(p, closed)
         /\ Covers(p, {r \in OnDay(d) : Below(r, cursor)})
         /\ cursor # NoCursor => /\ \A i \in DOMAIN p.records : Newer(cursor, p.records[i])
                                 /\ p.cursor # NoCursor => Newer(cursor, p.cursor)
<1> DEFINE S == {r \in OnDay(d) : Below(r, cursor)}
           p == QueryDay(d, cursor)
<1>1. S \subseteq closed /\ closed \subseteq Records /\ IsFiniteSet(closed)
  BY DEF ClosedOnce, OnDay
<1>2. \A r \in S : cursor # NoCursor => Newer(cursor, r)
  BY DEF Below
<1>3. /\ p.records = IF Len(InOrder(S)) > PageSize THEN SubSeq(InOrder(S), 1, PageSize)
                     ELSE InOrder(S)
      /\ p.cursor = IF Len(InOrder(S)) > PageSize THEN InOrder(S)[PageSize] ELSE NoCursor
  BY DEF QueryDay
<1> HIDE DEF S, p
<1>4. IsFiniteSet(S) /\ S \subseteq Records
  BY <1>1, FS_Subset
<1>5. PageTrue(p, S) /\ Covers(p, S)
  <2> DEFINE n == Cardinality(S)
             rows == InOrder(S)
  <2>1. /\ n \in Nat /\ rows \in [1..n -> S] /\ Len(rows) = n /\ Descending(rows)
        /\ \A r \in S : \E i \in 1..n : rows[i] = r
    BY <1>4, AllInOrder
  <2>2. /\ p.records = IF n > PageSize THEN SubSeq(rows, 1, PageSize) ELSE rows
        /\ p.cursor = IF n > PageSize THEN rows[PageSize] ELSE NoCursor
    BY <1>3, <2>1
  <2> HIDE DEF n, rows
  <2> QED
    BY <1>4, <2>1, <2>2, Cutting
<1>6. /\ p.records \in Seq(S) /\ p.cursor \in S \cup {NoCursor}
      /\ Descending(p.records) /\ \A i \in DOMAIN p.records : NotBelow(p.records[i], p.cursor)
  BY <1>5 DEF PageTrue
<1>7. \A i \in DOMAIN p.records : p.records[i] \in S
  BY <1>6
<1>8. p.records \in Seq(closed)
  BY <1>1, <1>6
<1>9. PageTrue(p, closed)
  BY <1>1, <1>6, <1>8 DEF PageTrue
<1> QED
  BY <1>2, <1>5, <1>6, <1>7, <1>9 DEF S, p

LEMMA StillTrue ==
  ASSUME NEW known, NEW more, known \subseteq more
  PROVE  /\ \A p : PageTrue(p, known) => PageTrue(p, more)
         /\ \A days : DaysTrue(days, known) => DaysTrue(days, more)
         /\ \A list, days : ListTrue(list, days, known) => ListTrue(list, days, more)
         /\ \A answer, list, days :
              AnswerTrue(answer, list, days, known) => AnswerTrue(answer, list, days, more)
<1>1. Seq(known) \subseteq Seq(more)
  OBVIOUS
<1>2. ASSUME NEW p, PageTrue(p, known)
      PROVE  PageTrue(p, more)
  BY <1>1, <1>2, Zenon DEF PageTrue
<1>3. ASSUME NEW days, DaysTrue(days, known)
      PROVE  DaysTrue(days, more)
  BY <1>3 DEF DaysTrue
<1>4. ASSUME NEW list, NEW days, ListTrue(list, days, known)
      PROVE  ListTrue(list, days, more)
  BY <1>2, <1>4, Zenon DEF ListTrue
<1>5. ASSUME NEW answer, NEW list, NEW days, AnswerTrue(answer, list, days, known)
      PROVE  AnswerTrue(answer, list, days, more)
  BY <1>2, <1>5, Zenon DEF AnswerTrue
<1> QED
  BY <1>2, <1>3, <1>4, <1>5

LEMMA NothingListed ==
  ASSUME NEW known
  PROVE  /\ EmptyList # NoList /\ EmptyList.loaded = FALSE /\ EmptyList.cursor = NoCursor
         /\ PageTrue(EmptyList, known)
<1>1. EmptyList # NoList
  BY AlertHistoryAssumption DEF EmptyList
<1>2. EmptyList.loaded = FALSE /\ EmptyList.cursor = NoCursor /\ EmptyList.records = <<>>
  BY DEF EmptyList
<1>3. DOMAIN <<>> = {} /\ <<>> \in Seq(known)
  OBVIOUS
<1> QED
  BY <1>1, <1>2, <1>3 DEF PageTrue, Descending

(* A further page comes after all that is listed: none of it is there already. *)
LEMMA NoneListedYet ==
  ASSUME NEW known, known \subseteq Records, \A r, s \in known : r.id = s.id => r = s,
         NEW list, PageTrue(list, known), list.cursor # NoCursor,
         NEW page, page \in Seq(known), \A i \in DOMAIN page : Newer(list.cursor, page[i])
  PROVE  Unlisted(list.records, page) = page
<1>1. ASSUME NEW i \in DOMAIN page, NEW j \in DOMAIN list.records, list.records[j].id = page[i].id
      PROVE  FALSE
  <2>1. page[i] \in known /\ list.records[j] \in known /\ list.cursor \in known
    BY DEF PageTrue
  <2>2. list.records[j] = page[i]
    BY <1>1, <2>1
  <2>3. page[i] = list.cursor \/ Newer(page[i], list.cursor)
    BY <2>2 DEF PageTrue, NotBelow
  <2>4. Newer(list.cursor, page[i])
    OBVIOUS
  <2> QED
    BY <2>1, <2>3, <2>4, NewestFirst
<1>2. \A i \in DOMAIN page : ~\E j \in DOMAIN list.records : list.records[j].id = page[i].id
  BY <1>1
<1> QED
  BY <1>2 DEF Unlisted

LEMMA OneAfterTheOther ==
  ASSUME NEW T, NEW a \in Seq(T), NEW b \in Seq(T)
  PROVE  /\ a \o b \in Seq(T) /\ DOMAIN (a \o b) = 1..(Len(a) + Len(b))
         /\ \A i \in DOMAIN a : i \in DOMAIN (a \o b) /\ (a \o b)[i] = a[i]
         /\ \A i \in DOMAIN b : Len(a) + i \in DOMAIN (a \o b) /\ (a \o b)[Len(a) + i] = b[i]
         /\ \A i \in DOMAIN (a \o b) : i \in DOMAIN a \/ \E k \in DOMAIN b : i = Len(a) + k
<1> DEFINE n == Len(a)
           m == Len(b)
<1>1. n \in Nat /\ m \in Nat /\ DOMAIN a = 1..n /\ DOMAIN b = 1..m
  OBVIOUS
<1>2. a \o b \in Seq(T) /\ Len(a \o b) = n + m
  OBVIOUS
<1>3. DOMAIN (a \o b) = 1..(n + m)
  BY <1>2
<1>4. \A i \in 1..(n + m) : (a \o b)[i] = IF i <= n THEN a[i] ELSE b[i - n]
  OBVIOUS
<1> HIDE DEF n, m
<1>5. \A i \in 1..n : i \in 1..(n + m) /\ i <= n
  BY <1>1
<1>6. \A i \in 1..m : n + i \in 1..(n + m) /\ ~(n + i <= n) /\ (n + i) - n = i
  BY <1>1
<1>7. \A i \in 1..m : (a \o b)[n + i] = b[i]
  <2> TAKE i \in 1..m
  <2>1. (a \o b)[n + i] = b[(n + i) - n]
    BY <1>4, <1>6
  <2> QED
    BY <2>1, <1>6
<1>8. \A i \in 1..n : (a \o b)[i] = a[i]
  BY <1>4, <1>5
<1>9. \A i \in 1..(n + m) : i \in 1..n \/ \E k \in 1..m : i = n + k
  <2> SUFFICES ASSUME NEW i \in 1..(n + m), ~(i <= n)
               PROVE  i - n \in 1..m /\ i = n + (i - n)
    BY <1>1
  <2> QED
    BY <1>1
<1>10. /\ a \o b \in Seq(T) /\ DOMAIN (a \o b) = 1..(n + m)
       /\ \A i \in DOMAIN a : i \in DOMAIN (a \o b) /\ (a \o b)[i] = a[i]
       /\ \A i \in DOMAIN b : n + i \in DOMAIN (a \o b) /\ (a \o b)[n + i] = b[i]
  BY <1>1, <1>2, <1>3, <1>5, <1>6, <1>7, <1>8
<1>11. \A i \in DOMAIN (a \o b) : i \in DOMAIN a \/ \E k \in DOMAIN b : i = n + k
  BY <1>1, <1>3, <1>9
<1> QED
  BY <1>10, <1>11 DEF n, m

(* The list and the page after it are one longer list.                      *)
LEMMA Appended ==
  ASSUME NEW known, known \subseteq Records, NEW days, days \subseteq known,
         NEW list, PageTrue(list, known), list.cursor # NoCursor, Covers(list, days),
         NEW answer, PageTrue(answer, known),
         \A i \in DOMAIN answer.records : Newer(list.cursor, answer.records[i]),
         answer.cursor # NoCursor => Newer(list.cursor, answer.cursor),
         Covers(answer, {r \in days : Newer(list.cursor, r)}),
         NEW both, both.records = list.records \o answer.records, both.cursor = answer.cursor
  PROVE  PageTrue(both, known) /\ Covers(both, days)
<1> DEFINE a == list.records
           b == answer.records
           c == list.cursor
           n == Len(a)
<1>1. /\ a \in Seq(known) /\ c \in known /\ b \in Seq(known) /\ answer.cursor \in known \cup {NoCursor}
      /\ Descending(a) /\ Descending(b)
      /\ \A i \in DOMAIN a : a[i] = c \/ Newer(a[i], c)
      /\ \A i \in DOMAIN b : NotBelow(b[i], answer.cursor)
  BY DEF PageTrue, NotBelow
<1>2. /\ both.records = a \o b /\ both.cursor = answer.cursor
      /\ \A i \in DOMAIN b : Newer(c, b[i])
      /\ answer.cursor # NoCursor => Newer(c, answer.cursor)
      /\ Covers(list, days) /\ list.records = a /\ answer.records = b
      /\ \A r \in days : Newer(c, r) => (\E i \in DOMAIN b : b[i] = r)
                                        \/ (answer.cursor # NoCursor /\ Newer(answer.cursor, r))
      /\ \A r \in days : (\E i \in DOMAIN a : a[i] = r) \/ Newer(c, r)
  BY DEF Covers
<1>3. \A r \in known : r \in Records
  OBVIOUS
<1> HIDE DEF a, b, c
<1>4. /\ a \o b \in Seq(known)
      /\ \A i \in DOMAIN a : i \in DOMAIN (a \o b) /\ (a \o b)[i] = a[i]
      /\ \A i \in DOMAIN b : n + i \in DOMAIN (a \o b) /\ (a \o b)[n + i] = b[i]
      /\ \A i \in DOMAIN (a \o b) : i \in DOMAIN a \/ \E k \in DOMAIN b : i = n + k
  BY <1>1, OneAfterTheOther
<1>5. ASSUME NEW i \in DOMAIN (a \o b), i \notin DOMAIN a
      PROVE  \E k \in DOMAIN b : i = n + k /\ (a \o b)[i] = b[k]
  BY <1>4, <1>5
<1>6. n \in Nat /\ DOMAIN a = 1..n /\ DOMAIN b = 1..Len(b) /\ Len(b) \in Nat
      /\ DOMAIN (a \o b) \subseteq Nat
  BY <1>1, <1>4
<1> HIDE DEF n
<1>7. \A i \in DOMAIN a : \A s \in known : Newer(c, s) => Newer(a[i], s)
  <2> SUFFICES ASSUME NEW i \in DOMAIN a, NEW s \in known, Newer(c, s)
               PROVE  Newer(a[i], s)
    OBVIOUS
  <2>1. a[i] \in Records /\ c \in Records /\ s \in Records
    BY <1>1, <1>3
  <2>2. a[i] = c \/ Newer(a[i], c)
    BY <1>1
  <2> QED
    BY <2>1, <2>2, NewestFirst
<1>8. Descending(a \o b)
  <2> SUFFICES ASSUME NEW i \in DOMAIN (a \o b), NEW j \in DOMAIN (a \o b), i < j
               PROVE  Newer((a \o b)[i], (a \o b)[j])
    BY DEF Descending
  <2>1. CASE j \in DOMAIN a
    <3>1. i \in DOMAIN a
      BY <2>1, <1>6, <1>4
    <3>2. Newer(a[i], a[j])
      BY <2>1, <3>1, <1>1 DEF Descending
    <3> QED
      BY <2>1, <3>1, <3>2, <1>4
  <2>2. CASE j \notin DOMAIN a
    <3>1. PICK k \in DOMAIN b : j = n + k /\ (a \o b)[j] = b[k]
      BY <2>2, <1>5
    <3>2. CASE i \in DOMAIN a
      <4>1. b[k] \in known /\ Newer(c, b[k])
        BY <1>1, <1>2
      <4> QED
        BY <3>1, <3>2, <4>1, <1>4, <1>7
    <3>3. CASE i \notin DOMAIN a
      <4>1. PICK l \in DOMAIN b : i = n + l /\ (a \o b)[i] = b[l]
        BY <3>3, <1>5
      <4>2. l < k
        BY <3>1, <4>1, <1>6
      <4>3. Newer(b[l], b[k])
        BY <4>2, <1>1 DEF Descending
      <4> QED
        BY <3>1, <4>1, <4>3
    <3> QED
      BY <3>2, <3>3
  <2> QED
    BY <2>1, <2>2
<1>9. \A i \in DOMAIN (a \o b) : NotBelow((a \o b)[i], answer.cursor)
  <2> SUFFICES ASSUME NEW i \in DOMAIN (a \o b), answer.cursor # NoCursor
               PROVE  (a \o b)[i] = answer.cursor \/ Newer((a \o b)[i], answer.cursor)
    BY DEF NotBelow
  <2>1. CASE i \in DOMAIN a
    <3>1. answer.cursor \in known /\ Newer(c, answer.cursor)
      BY <1>1, <1>2
    <3> QED
      BY <2>1, <3>1, <1>4, <1>7
  <2>2. CASE i \notin DOMAIN a
    <3>1. PICK k \in DOMAIN b : i = n + k /\ (a \o b)[i] = b[k]
      BY <2>2, <1>5
    <3> QED
      BY <3>1, <1>1 DEF NotBelow
  <2> QED
    BY <2>1, <2>2
<1>10. PageTrue(both, known)
  BY <1>1, <1>4, <1>2, <1>8, <1>9, Zenon DEF PageTrue
<1>11. Covers(both, days)
  <2> SUFFICES ASSUME NEW r \in days
               PROVE  (\E i \in DOMAIN (a \o b) : (a \o b)[i] = r)
                      \/ (answer.cursor # NoCursor /\ Newer(answer.cursor, r))
    BY <1>2, Zenon DEF Covers
  <2>1. CASE \E i \in DOMAIN a : a[i] = r
    BY <2>1, <1>4
  <2>2. CASE \E i \in DOMAIN b : b[i] = r
    BY <2>2, <1>4
  <2> QED
    BY <2>1, <2>2, <1>2
<1> QED
  BY <1>10, <1>11

LEMMA DaysInOrder ==
  /\ \A t \in 0..LastInstant : DayOf(t) \in CalendarDays /\ DayOf(t) \in Nat
  /\ \A t, u \in Nat : t <= u => DayOf(t) <= DayOf(u)
  /\ \A t \in Nat : DayOf(t) \in Nat
<1>1. DaySpan \in Nat /\ DaySpan > 0 /\ LastInstant \in Nat
  BY AlertHistoryAssumption
<1>2. ASSUME NEW t \in Nat
      PROVE  DayOf(t) \in Nat
  BY <1>1 DEF DayOf
<1>3. ASSUME NEW t \in Nat, NEW u \in Nat, t <= u
      PROVE  DayOf(t) <= DayOf(u)
  <2>1. PICK a, b : a = t \div DaySpan /\ b = t % DaySpan
    OBVIOUS
  <2>2. PICK c, e : c = u \div DaySpan /\ e = u % DaySpan
    OBVIOUS
  <2>3. a \in Nat /\ b \in 0..(DaySpan - 1) /\ t = DaySpan * a + b
    BY <2>1, <1>1, Z3
  <2>4. c \in Nat /\ e \in 0..(DaySpan - 1) /\ u = DaySpan * c + e
    BY <2>2, <1>1, Z3
  <2>5. a <= c
    <3> SUFFICES ASSUME c + 1 <= a
                 PROVE  FALSE
      BY <2>3, <2>4
    <3>1. DaySpan * (c + 1) <= DaySpan * a
      BY <1>1, <2>3, <2>4
    <3>2. DaySpan * (c + 1) = DaySpan * c + DaySpan
      BY <1>1, <2>4
    <3>3. DaySpan * a \in Nat /\ DaySpan * c \in Nat
      BY <1>1, <2>3, <2>4
    <3> QED
      BY <1>1, <1>3, <2>3, <2>4, <3>1, <3>2, <3>3
  <2> QED
    BY <2>1, <2>2, <2>5 DEF DayOf
<1>4. ASSUME NEW t \in 0..LastInstant
      PROVE  DayOf(t) \in CalendarDays
  <2>1. DayOf(t) <= DayOf(LastInstant) /\ DayOf(t) \in Nat /\ DayOf(LastInstant) \in Nat
    BY <1>1, <1>2, <1>3
  <2> QED
    BY <2>1 DEF CalendarDays
<1> QED
  BY <1>1, <1>2, <1>3, <1>4

LEMMA JournalStarts == HistoryInit => JournalInv
<1> SUFFICES ASSUME HistoryInit
             PROVE  JournalInv
  OBVIOUS
<1>1. ClosedOnce
  <2>1. IsFiniteSet({})
    BY FS_EmptySet
  <2> QED
    BY <2>1, AlertHistoryAssumption DEF HistoryInit, ClosedOnce
<1>2. IndexTrue /\ IndexAnswerTrue
  BY DEF HistoryInit, IndexTrue, IndexAnswerTrue, DaysTrue
<1>3. /\ DOMAIN lists = CalendarDays /\ DOMAIN dayAnswer = CalendarDays
      /\ \A d \in CalendarDays : lists[d] = NoList /\ dayAnswer[d] = NoAnswer
  BY DEF HistoryInit
<1> QED
  BY <1>1, <1>2, <1>3 DEF JournalInv, ListTrue, AnswerTrue

LEMMA AlertClosedKeeps ==
  ASSUME JournalInv, NEW a \in Alerts, CloseAlert(a)
  PROVE  JournalInv'
<1>0. PICK at \in 0..instant : closed' = closed \cup {[id |-> a, at |-> at]}
  BY DEF CloseAlert
<1> DEFINE new == [id |-> a, at |-> at]
<1>1. /\ closed' = closed \cup {new} /\ \A r \in closed : r.id # a
      /\ instant' = instant /\ index' = index /\ lists' = lists /\ indexAnswer' = indexAnswer
      /\ dayAnswer' = dayAnswer /\ begun' = begun
  BY <1>0 DEF CloseAlert
<1>2. ClosedOnce /\ IndexTrue /\ IndexAnswerTrue
  BY DEF JournalInv
<1>3. new \in Records /\ new.id = a /\ new.at \in Nat /\ new.at <= instant
  BY <1>2, AlertHistoryAssumption DEF ClosedOnce, Records
<1> HIDE DEF new
<1>4. ClosedOnce'
  <2>1. IsFiniteSet(closed \cup {new})
    BY <1>2, FS_AddElement DEF ClosedOnce
  <2>2. instant \in Nat
    BY <1>2, AlertHistoryAssumption DEF ClosedOnce
  <2>3. \A r \in closed \cup {new} : r.at <= instant
    BY <1>2, <1>3, <2>2 DEF ClosedOnce
  <2>4. \A r, s \in closed \cup {new} : r.id = s.id => r = s
    BY <1>1, <1>2, <1>3 DEF ClosedOnce
  <2> QED
    BY <1>1, <1>2, <1>3, <2>1, <2>3, <2>4 DEF ClosedOnce
<1>5. closed \subseteq closed'
  BY <1>1
<1>6. IndexTrue'
  BY <1>1, <1>2, <1>5, StillTrue DEF IndexTrue
<1>7. IndexAnswerTrue'
  BY <1>1, <1>2, <1>5, StillTrue DEF IndexAnswerTrue
<1>8. \A d \in CalendarDays : ListTrue(lists[d], index.days[d], closed')
                              /\ AnswerTrue(dayAnswer[d], lists[d], index.days[d], closed')
  BY <1>5, StillTrue DEF JournalInv
<1>9. /\ DOMAIN lists' = CalendarDays /\ DOMAIN dayAnswer' = CalendarDays
      /\ \A d \in CalendarDays : ListTrue(lists'[d], index'.days[d], closed')
                                 /\ AnswerTrue(dayAnswer'[d], lists'[d], index'.days[d], closed')
  BY <1>1, <1>8, Zenon DEF JournalInv
<1> QED
  BY <1>4, <1>6, <1>7, <1>9 DEF JournalInv

LEMMA IndexAskedKeeps ==
  ASSUME JournalInv, NEW older \in BOOLEAN, AskIndex(older)
  PROVE  JournalInv'
<1> DEFINE end == IF older THEN index.before ELSE DayOf(instant) + 1
           start == IF end > WindowDays THEN end - WindowDays ELSE 0
           page == DayIndex(end)
<1>1. /\ indexAnswer' = [older |-> older, page |-> page]
      /\ begun' = IF index.ready THEN begun ELSE closed
      /\ instant' = instant /\ closed' = closed /\ index' = index /\ lists' = lists
      /\ dayAnswer' = dayAnswer
      /\ older => index.ready /\ index.before # NoCursor
  BY DEF AskIndex
<1>2. ClosedOnce /\ IndexTrue
  BY DEF JournalInv
<1>3. /\ closed \subseteq Records /\ instant \in Nat /\ LastInstant \in Nat
      /\ \A r \in closed : r.at \in Nat /\ r.at <= instant /\ DayOf(r.at) \in CalendarDays /\ DayOf(r.at) \in Nat
      /\ DayOf(instant) \in Nat
  <2>1. closed \subseteq Records /\ instant \in Nat /\ LastInstant \in Nat
        /\ \A r \in closed : r.at <= instant
    BY <1>2, AlertHistoryAssumption DEF ClosedOnce
  <2>2. \A r \in closed : r.at \in 0..LastInstant
    BY <2>1 DEF Records
  <2> QED
    BY <2>1, <2>2, DaysInOrder
<1>4. end \in Nat
  BY <1>1, <1>2, <1>3 DEF IndexTrue
<1>5. start \in Nat /\ start <= end
  BY <1>4, AlertHistoryAssumption
<1>6. /\ page.days = [d \in CalendarDays |-> IF d >= start /\ d < end THEN OnDay(d) ELSE {}]
      /\ page.before = IF \E r \in closed : DayOf(r.at) < start THEN start ELSE NoCursor
  BY DEF DayIndex
<1> HIDE DEF start, page, end
<1>7. \A d : OnDay(d) \subseteq closed /\ \A r \in OnDay(d) : DayOf(r.at) = d
  BY DEF OnDay
<1>8. DaysTrue(page.days, closed) /\ page.before \in Nat \cup {NoCursor}
  <2>1. page.days \in [CalendarDays -> SUBSET closed]
    BY <1>6, <1>7
  <2>2. \A d \in CalendarDays : \A r \in page.days[d] : DayOf(r.at) = d
    BY <1>6, <1>7
  <2> QED
    BY <2>1, <2>2, <1>5, <1>6 DEF DaysTrue
<1>9. \A d \in CalendarDays : page.days[d] # {} => index.days[d] \subseteq page.days[d]
  <2> SUFFICES ASSUME NEW d \in CalendarDays, page.days[d] # {}, NEW r \in index.days[d]
               PROVE  r \in page.days[d]
    OBVIOUS
  <2>1. page.days[d] = OnDay(d)
    BY <1>6
  <2>2. r \in closed /\ DayOf(r.at) = d
    BY <1>2 DEF IndexTrue, DaysTrue
  <2> QED
    BY <2>1, <2>2 DEF OnDay
<1>10. Reaches(page.days, page.before, {r \in closed : DayOf(r.at) < end})
  <2> SUFFICES ASSUME NEW r \in closed, DayOf(r.at) < end
               PROVE  r \in page.days[DayOf(r.at)] \/ (page.before # NoCursor /\ DayOf(r.at) < page.before)
    BY DEF Reaches
  <2>1. CASE DayOf(r.at) >= start
    <3>1. page.days[DayOf(r.at)] = OnDay(DayOf(r.at))
      BY <2>1, <1>3, <1>6
    <3> QED
      BY <3>1 DEF OnDay
  <2>2. CASE DayOf(r.at) < start
    <3>1. page.before = start
      BY <2>2, <1>6
    <3>2. start # NoCursor
      BY <1>5, AlertHistoryAssumption
    <3> QED
      BY <2>2, <3>1, <3>2
  <2> QED
    BY <2>1, <2>2, <1>3, <1>5
<1>11. ClosedOnce'
  BY <1>1, <1>2 DEF ClosedOnce
<1>12. IndexTrue'
  <2>1. index.ready => begun' = begun
    BY <1>1
  <2> QED
    BY <1>1, <1>2, <2>1 DEF IndexTrue
<1>13. IndexAnswerTrue'
  <2>1. indexAnswer'.page = page /\ indexAnswer'.older = older
    BY <1>1
  <2>2. ~index.ready => Reaches(page.days, page.before, begun')
    <3> SUFFICES ASSUME ~index.ready
                 PROVE  Reaches(page.days, page.before, closed)
      BY <1>1
    <3>1. end = DayOf(instant) + 1
      BY <1>1 DEF end
    <3>2. \A r \in closed : DayOf(r.at) < end
      BY <3>1, <1>3, DaysInOrder
    <3>3. closed = {r \in closed : DayOf(r.at) < end}
      BY <3>2
    <3> QED
      BY <3>3, <1>10
  <2>3. older => Reaches(page.days, page.before, {r \in begun' : DayOf(r.at) < index.before})
    <3> SUFFICES ASSUME older
                 PROVE  Reaches(page.days, page.before, {r \in begun' : DayOf(r.at) < index.before})
      OBVIOUS
    <3>1. end = index.before /\ begun' = begun
      BY <1>1 DEF end
    <3>2. {r \in begun' : DayOf(r.at) < index.before} \subseteq {r \in closed : DayOf(r.at) < end}
      BY <3>1, <1>2 DEF ClosedOnce
    <3> QED
      BY <3>2, <1>10 DEF Reaches
  <2> QED
    BY <1>1, <1>8, <1>9, <2>1, <2>2, <2>3 DEF IndexAnswerTrue
<1>14. /\ DOMAIN lists' = CalendarDays /\ DOMAIN dayAnswer' = CalendarDays
       /\ \A d \in CalendarDays : ListTrue(lists'[d], index'.days[d], closed')
                                  /\ AnswerTrue(dayAnswer'[d], lists'[d], index'.days[d], closed')
  BY <1>1, Zenon DEF JournalInv
<1> QED
  BY <1>11, <1>12, <1>13, <1>14 DEF JournalInv

LEMMA IndexTakenKeeps ==
  ASSUME JournalInv, TakeIndex
  PROVE  JournalInv'
<1> DEFINE page == indexAnswer.page
           days == [d \in CalendarDays |-> IF page.days[d] # {} THEN page.days[d] ELSE index.days[d]]
           before == IF ~index.ready \/ indexAnswer.older \/ index.before = NoCursor
                       THEN page.before ELSE index.before
<1>1. /\ indexAnswer # NoAnswer
      /\ index' = [ready |-> TRUE, days |-> days, before |-> before]
      /\ lists' = [d \in CalendarDays |-> IF Recounted(d) THEN NoList ELSE lists[d]]
      /\ dayAnswer' = [d \in CalendarDays |-> IF Recounted(d) THEN NoAnswer ELSE dayAnswer[d]]
      /\ indexAnswer' = NoAnswer
      /\ instant' = instant /\ closed' = closed /\ begun' = begun
  BY DEF TakeIndex
<1>2. ClosedOnce /\ IndexTrue /\ IndexAnswerTrue
  BY DEF JournalInv
<1>3. index'.ready = TRUE /\ index'.days = days /\ index'.before = before
  BY <1>1
<1>4. /\ indexAnswer.older \in BOOLEAN
      /\ DaysTrue(page.days, closed) /\ page.before \in Nat \cup {NoCursor}
      /\ \A d \in CalendarDays : page.days[d] # {} => index.days[d] \subseteq page.days[d]
      /\ ~index.ready => Reaches(page.days, page.before, begun)
      /\ indexAnswer.older =>
           /\ index.ready /\ index.before # NoCursor
           /\ Reaches(page.days, page.before, {r \in begun : DayOf(r.at) < index.before})
  BY <1>1, <1>2 DEF IndexAnswerTrue
<1>5. \A r \in begun : r \in closed /\ DayOf(r.at) \in CalendarDays
  BY <1>2, DaysInOrder DEF ClosedOnce, Records
<1>6. \A d \in CalendarDays : page.days[d] \subseteq days[d] /\ index.days[d] \subseteq days[d]
  BY <1>4
<1>7. DaysTrue(days, closed)
  <2>1. days \in [CalendarDays -> SUBSET closed]
    BY <1>2, <1>4 DEF DaysTrue, IndexTrue
  <2>2. \A d \in CalendarDays : \A r \in days[d] : DayOf(r.at) = d
    BY <1>2, <1>4 DEF DaysTrue, IndexTrue
  <2> QED
    BY <2>1, <2>2 DEF DaysTrue
<1>8. \A d \in CalendarDays : days[d] = IF page.days[d] # {} THEN page.days[d] ELSE index.days[d]
  OBVIOUS
<1>9. before = IF ~index.ready \/ indexAnswer.older \/ index.before = NoCursor
                 THEN page.before ELSE index.before
  OBVIOUS
<1> HIDE DEF days, before, page
<1>10. Reaches(days, before, begun)
  <2> SUFFICES ASSUME NEW r \in begun
               PROVE  r \in days[DayOf(r.at)] \/ (before # NoCursor /\ DayOf(r.at) < before)
    BY DEF Reaches
  <2>1. CASE ~index.ready
    <3>1. r \in page.days[DayOf(r.at)] \/ (page.before # NoCursor /\ DayOf(r.at) < page.before)
      BY <2>1, <1>4 DEF Reaches
    <3> QED
      BY <2>1, <3>1, <1>5, <1>6, <1>9
  <2>2. CASE index.ready = TRUE
    <3>1. r \in index.days[DayOf(r.at)] \/ (index.before # NoCursor /\ DayOf(r.at) < index.before)
      BY <2>2, <1>2 DEF IndexTrue, Reaches
    <3>2. CASE indexAnswer.older = TRUE
      <4>1. DayOf(r.at) < index.before =>
              r \in page.days[DayOf(r.at)] \/ (page.before # NoCursor /\ DayOf(r.at) < page.before)
        BY <3>2, <1>4 DEF Reaches
      <4> QED
        BY <3>1, <3>2, <4>1, <1>5, <1>6, <1>9
    <3>3. CASE indexAnswer.older = FALSE /\ index.before = NoCursor
      BY <3>1, <3>3, <1>5, <1>6
    <3>4. CASE indexAnswer.older = FALSE /\ index.before # NoCursor
      BY <2>2, <3>1, <3>4, <1>5, <1>6, <1>9
    <3> QED
      BY <3>2, <3>3, <3>4, <1>4
  <2> QED
    BY <2>1, <2>2, <1>2 DEF IndexTrue
<1>11. ClosedOnce'
  BY <1>1, <1>2 DEF ClosedOnce
<1>12. IndexTrue'
  <2>1. before \in Nat \cup {NoCursor}
    BY <1>2, <1>4, <1>9 DEF IndexTrue
  <2> QED
    BY <1>1, <1>3, <1>7, <1>10, <2>1 DEF IndexTrue
<1>13. IndexAnswerTrue'
  BY <1>1 DEF IndexAnswerTrue
<1>14. ASSUME NEW d \in CalendarDays
       PROVE  /\ ListTrue(lists'[d], index'.days[d], closed')
              /\ AnswerTrue(dayAnswer'[d], lists'[d], index'.days[d], closed')
  <2>1. /\ ListTrue(lists[d], index.days[d], closed)
        /\ AnswerTrue(dayAnswer[d], lists[d], index.days[d], closed)
    BY DEF JournalInv
  <2>2. CASE Recounted(d)
    BY <1>1, <2>2 DEF ListTrue, AnswerTrue
  <2>3. CASE ~Recounted(d) /\ lists[d] = NoList
    <3>1. lists'[d] = NoList /\ dayAnswer'[d] = NoAnswer
      BY <1>1, <2>1, <2>3 DEF AnswerTrue
    <3> QED
      BY <3>1 DEF ListTrue, AnswerTrue
  <2>4. CASE ~Recounted(d) /\ lists[d] # NoList
    <3>1. lists'[d] = lists[d] /\ dayAnswer'[d] = dayAnswer[d] /\ closed' = closed
      BY <1>1, <2>4
    <3>2. index.days[d] # {}
      BY <2>1, <2>4 DEF ListTrue
    <3>3. days[d] = index.days[d]
      <4>1. CASE page.days[d] = {}
        BY <4>1, <1>8
      <4>2. CASE page.days[d] # {}
        <5>1. Cardinality(page.days[d]) = Cardinality(index.days[d])
          BY <2>4, <3>2, <4>2 DEF Recounted, page
        <5>2. page.days[d] \subseteq closed /\ index.days[d] \subseteq page.days[d]
          BY <4>2, <1>4 DEF DaysTrue
        <5>3. IsFiniteSet(page.days[d])
          BY <5>2, <1>2, FS_Subset DEF ClosedOnce
        <5>4. page.days[d] = index.days[d]
          BY <5>1, <5>2, <5>3, FS_Subset
        <5> QED
          BY <4>2, <5>4, <1>8
      <4> QED
        BY <4>1, <4>2
    <3> QED
      BY <2>1, <3>1, <3>3, <1>3
  <2> QED
    BY <2>2, <2>3, <2>4
<1> QED
  BY <1>1, <1>11, <1>12, <1>13, <1>14 DEF JournalInv

LEMMA DayAskedKeeps ==
  ASSUME JournalInv, NEW d \in CalendarDays, AskDay(d)
  PROVE  JournalInv'
<1> DEFINE list == ListOf(d)
           answer == QueryDay(d, list.cursor)
           days == index.days[d]
<1>1. /\ days # {} /\ (list.loaded => list.cursor # NoCursor)
      /\ dayAnswer' = [dayAnswer EXCEPT ![d] = answer]
      /\ lists' = [lists EXCEPT ![d] = list]
      /\ instant' = instant /\ closed' = closed /\ index' = index
      /\ indexAnswer' = indexAnswer /\ begun' = begun
  BY DEF AskDay
<1>2. /\ ClosedOnce /\ IndexTrue /\ IndexAnswerTrue
      /\ DOMAIN lists = CalendarDays /\ DOMAIN dayAnswer = CalendarDays
      /\ \A e \in CalendarDays : /\ ListTrue(lists[e], index.days[e], closed)
                                 /\ AnswerTrue(dayAnswer[e], lists[e], index.days[e], closed)
  BY DEF JournalInv
<1>3. days \subseteq OnDay(d)
  BY <1>2 DEF IndexTrue, DaysTrue, OnDay
<1>4. list # NoList /\ ListTrue(list, days, closed)
  <2>1. CASE lists[d] = NoList
    <3>1. list = EmptyList
      BY <2>1 DEF ListOf
    <3> QED
      BY <3>1, <1>1, NothingListed DEF ListTrue
  <2>2. CASE lists[d] # NoList
    <3>1. list = lists[d]
      BY <2>2 DEF ListOf
    <3> QED
      BY <2>2, <3>1, <1>2
  <2> QED
    BY <2>1, <2>2
<1>5. list.loaded \in BOOLEAN /\ PageTrue(list, closed) /\ (~list.loaded => list.cursor = NoCursor)
  BY <1>4, NothingListed DEF ListTrue
<1>6. list.cursor \in closed \cup {NoCursor}
  BY <1>5 DEF PageTrue
<1>7. /\ PageTrue(answer, closed)
      /\ Covers(answer, {r \in OnDay(d) : Below(r, list.cursor)})
      /\ list.cursor # NoCursor => /\ \A i \in DOMAIN answer.records : Newer(list.cursor, answer.records[i])
                                   /\ answer.cursor # NoCursor => Newer(list.cursor, answer.cursor)
  BY <1>2, <1>6, DayAnswered
<1> HIDE DEF list, answer, days
<1>8. AnswerTrue(answer, list, days, closed)
  <2>1. ~list.loaded => Covers(answer, days)
    <3> SUFFICES ASSUME list.cursor = NoCursor
                 PROVE  Covers(answer, days)
      BY <1>5
    <3>1. days \subseteq {r \in OnDay(d) : Below(r, list.cursor)}
      BY <1>3 DEF Below
    <3> QED
      BY <3>1, <1>7 DEF Covers
  <2>2. Covers(answer, {r \in days : Newer(list.cursor, r)})
    <3>1. {r \in days : Newer(list.cursor, r)} \subseteq {r \in OnDay(d) : Below(r, list.cursor)}
      BY <1>3 DEF Below
    <3> QED
      BY <3>1, <1>7 DEF Covers
  <2> QED
    BY <2>1, <2>2, <1>1, <1>4, <1>7 DEF AnswerTrue
<1>9. ClosedOnce' /\ IndexTrue' /\ IndexAnswerTrue'
  BY <1>1, <1>2 DEF ClosedOnce, IndexTrue, IndexAnswerTrue
<1>10. ASSUME NEW e \in CalendarDays
       PROVE  /\ ListTrue(lists'[e], index'.days[e], closed')
              /\ AnswerTrue(dayAnswer'[e], lists'[e], index'.days[e], closed')
  <2>1. CASE e = d
    <3>1. lists'[e] = list /\ dayAnswer'[e] = answer /\ index'.days[e] = days
      BY <2>1, <1>1, <1>2 DEF days
    <3> QED
      BY <3>1, <1>1, <1>4, <1>8
  <2>2. CASE e # d
    <3>1. lists'[e] = lists[e] /\ dayAnswer'[e] = dayAnswer[e] /\ index'.days[e] = index.days[e]
      BY <2>2, <1>1, <1>2
    <3> QED
      BY <3>1, <1>1, <1>2
  <2> QED
    BY <2>1, <2>2
<1>11. DOMAIN lists' = CalendarDays /\ DOMAIN dayAnswer' = CalendarDays
  BY <1>1, <1>2
<1> QED
  BY <1>9, <1>10, <1>11 DEF JournalInv

LEMMA DayTakenKeeps ==
  ASSUME JournalInv, NEW d \in CalendarDays, TakeDay(d)
  PROVE  JournalInv'
<1> DEFINE list == lists[d]
           answer == dayAnswer[d]
           days == index.days[d]
           new == [records |-> IF list.loaded THEN list.records \o Unlisted(list.records, answer.records)
                               ELSE answer.records,
                   loaded |-> TRUE, cursor |-> answer.cursor]
<1>1. /\ ClosedOnce /\ IndexTrue /\ IndexAnswerTrue
      /\ DOMAIN lists = CalendarDays /\ DOMAIN dayAnswer = CalendarDays
      /\ \A e \in CalendarDays : /\ ListTrue(lists[e], index.days[e], closed)
                                 /\ AnswerTrue(dayAnswer[e], lists[e], index.days[e], closed)
  BY DEF JournalInv
<1>2. answer # NoAnswer
  BY DEF TakeDay
<1>3. AnswerTrue(answer, list, days, closed) /\ ListTrue(list, days, closed) /\ list # NoList
  BY <1>1, <1>2 DEF AnswerTrue
<1>4. ListOf(d) = list
  BY <1>3 DEF ListOf
<1>5. /\ lists' = [lists EXCEPT ![d] = new]
      /\ dayAnswer' = [dayAnswer EXCEPT ![d] = NoAnswer]
      /\ instant' = instant /\ closed' = closed /\ index' = index
      /\ indexAnswer' = indexAnswer /\ begun' = begun
  BY <1>4 DEF TakeDay
<1>6. /\ new.records = IF list.loaded THEN list.records \o Unlisted(list.records, answer.records)
                       ELSE answer.records
      /\ new.loaded = TRUE /\ new.cursor = answer.cursor
  OBVIOUS
<1>7. days \subseteq closed
  BY <1>1 DEF IndexTrue, DaysTrue
<1>8. closed \subseteq Records /\ \A r, s \in closed : r.id = s.id => r = s
  BY <1>1 DEF ClosedOnce
<1> HIDE DEF list, answer, days, new
<1>9. /\ days # {} /\ list.loaded \in BOOLEAN /\ PageTrue(list, closed) /\ PageTrue(answer, closed)
      /\ list.loaded => Covers(list, days)
      /\ ~list.loaded => Covers(answer, days)
      /\ list.loaded =>
           /\ list.cursor # NoCursor
           /\ \A i \in DOMAIN answer.records : Newer(list.cursor, answer.records[i])
           /\ answer.cursor # NoCursor => Newer(list.cursor, answer.cursor)
           /\ Covers(answer, {r \in days : Newer(list.cursor, r)})
  BY <1>2, <1>3 DEF AnswerTrue, ListTrue
<1>10. PageTrue(new, closed) /\ Covers(new, days)
  <2>1. CASE list.loaded = TRUE
    <3>1. answer.records \in Seq(closed)
      BY <1>9 DEF PageTrue
    <3>2. Unlisted(list.records, answer.records) = answer.records
      BY <2>1, <3>1, <1>8, <1>9, NoneListedYet
    <3>3. new.records = list.records \o answer.records
      BY <2>1, <3>2, <1>6
    <3> QED
      BY <2>1, <3>3, <1>6, <1>7, <1>8, <1>9, Appended
  <2>2. CASE list.loaded = FALSE
    <3>1. new.records = answer.records /\ new.cursor = answer.cursor
      BY <2>2, <1>6
    <3> QED
      BY <2>2, <3>1, <1>9 DEF PageTrue, Covers
  <2> QED
    BY <2>1, <2>2, <1>9
<1>11. ListTrue(new, days, closed)
  BY <1>6, <1>9, <1>10 DEF ListTrue
<1>12. ClosedOnce' /\ IndexTrue' /\ IndexAnswerTrue'
  BY <1>1, <1>5 DEF ClosedOnce, IndexTrue, IndexAnswerTrue
<1>13. ASSUME NEW e \in CalendarDays
       PROVE  /\ ListTrue(lists'[e], index'.days[e], closed')
              /\ AnswerTrue(dayAnswer'[e], lists'[e], index'.days[e], closed')
  <2>1. CASE e = d
    <3>1. lists'[e] = new /\ dayAnswer'[e] = NoAnswer /\ index'.days[e] = days
      BY <2>1, <1>1, <1>5 DEF days
    <3> QED
      BY <3>1, <1>5, <1>11 DEF AnswerTrue
  <2>2. CASE e # d
    <3>1. lists'[e] = lists[e] /\ dayAnswer'[e] = dayAnswer[e] /\ index'.days[e] = index.days[e]
      BY <2>2, <1>1, <1>5
    <3> QED
      BY <3>1, <1>1, <1>5
  <2> QED
    BY <2>1, <2>2
<1>14. DOMAIN lists' = CalendarDays /\ DOMAIN dayAnswer' = CalendarDays
  BY <1>1, <1>5
<1> QED
  BY <1>12, <1>13, <1>14 DEF JournalInv

LEMMA AnswerLostKeeps == JournalInv /\ AnswerLost => JournalInv'
<1> SUFFICES ASSUME JournalInv, AnswerLost
             PROVE  JournalInv'
  OBVIOUS
<1>1. /\ ClosedOnce /\ IndexTrue /\ IndexAnswerTrue
      /\ DOMAIN lists = CalendarDays /\ DOMAIN dayAnswer = CalendarDays
      /\ \A e \in CalendarDays : /\ ListTrue(lists[e], index.days[e], closed)
                                 /\ AnswerTrue(dayAnswer[e], lists[e], index.days[e], closed)
  BY DEF JournalInv
<1>2. /\ instant' = instant /\ closed' = closed /\ index' = index /\ lists' = lists /\ begun' = begun
      /\ indexAnswer' \in {indexAnswer, NoAnswer}
      /\ DOMAIN dayAnswer' = CalendarDays
      /\ \A e \in CalendarDays : dayAnswer'[e] \in {dayAnswer[e], NoAnswer}
  BY <1>1 DEF AnswerLost
<1>3. ClosedOnce' /\ IndexTrue' /\ IndexAnswerTrue'
  BY <1>1, <1>2 DEF ClosedOnce, IndexTrue, IndexAnswerTrue
<1>4. ASSUME NEW e \in CalendarDays
      PROVE  /\ ListTrue(lists'[e], index'.days[e], closed')
             /\ AnswerTrue(dayAnswer'[e], lists'[e], index'.days[e], closed')
  <2>1. CASE dayAnswer'[e] = dayAnswer[e]
    BY <2>1, <1>1, <1>2
  <2>2. CASE dayAnswer'[e] = NoAnswer
    BY <2>2, <1>1, <1>2 DEF AnswerTrue
  <2> QED
    BY <2>1, <2>2, <1>2
<1> QED
  BY <1>1, <1>2, <1>3, <1>4 DEF JournalInv

LEMMA JournalSteps == JournalInv /\ [HistoryNext]_historyVars => JournalInv'
<1> SUFFICES ASSUME JournalInv, [HistoryNext]_historyVars
             PROVE  JournalInv'
  OBVIOUS
<1>1. CASE UNCHANGED historyVars
  BY <1>1 DEF historyVars, JournalInv, ClosedOnce, IndexTrue, IndexAnswerTrue
<1>2. CASE InstantPasses
  <2>1. /\ instant < LastInstant /\ instant' = instant + 1 /\ closed' = closed /\ index' = index
        /\ lists' = lists /\ indexAnswer' = indexAnswer /\ dayAnswer' = dayAnswer /\ begun' = begun
    BY <1>2 DEF InstantPasses
  <2>2. ClosedOnce'
    <3>1. closed \subseteq Records /\ (\A r \in closed : r.at <= instant) /\ instant \in 0..LastInstant
          /\ LastInstant \in Nat
      BY AlertHistoryAssumption DEF JournalInv, ClosedOnce
    <3>2. \A r \in closed : r.at \in Nat
      BY <3>1 DEF Records
    <3>3. instant + 1 \in 0..LastInstant /\ \A r \in closed : r.at <= instant + 1
      BY <2>1, <3>1, <3>2
    <3> QED
      BY <2>1, <3>3 DEF JournalInv, ClosedOnce
  <2>3. IndexTrue' /\ IndexAnswerTrue'
    BY <2>1 DEF JournalInv, IndexTrue, IndexAnswerTrue
  <2> QED
    BY <2>1, <2>2, <2>3 DEF JournalInv
<1>3. CASE TakeIndex
  BY <1>3, IndexTakenKeeps
<1>4. CASE AnswerLost
  BY <1>4, AnswerLostKeeps
<1>5. ASSUME NEW a \in Alerts, CloseAlert(a)
      PROVE  JournalInv'
  BY <1>5, AlertClosedKeeps
<1>6. ASSUME NEW older \in BOOLEAN, AskIndex(older)
      PROVE  JournalInv'
  BY <1>6, IndexAskedKeeps
<1>7. ASSUME NEW d \in CalendarDays, AskDay(d) \/ TakeDay(d)
      PROVE  JournalInv'
  BY <1>7, DayAskedKeeps, DayTakenKeeps
<1> QED
  BY <1>1, <1>2, <1>3, <1>4, <1>5, <1>6, <1>7, Zenon DEF HistoryNext

LEMMA JournalHolds == JournalInv => JournalComplete
<1> SUFFICES ASSUME JournalInv
             PROVE  JournalComplete
  OBVIOUS
<1>1. ASSUME NEW d \in CalendarDays, lists[d] # NoList
      PROVE  LET records == lists[d].records IN
             /\ lists[d].loaded /\ lists[d].cursor = NoCursor =>
                  index.days[d] \subseteq {records[i] : i \in DOMAIN records}
             /\ \A i, j \in DOMAIN records : i < j => Newer(records[i], records[j])
  <2>1. ListTrue(lists[d], index.days[d], closed)
    BY DEF JournalInv
  <2> QED
    BY <2>1, <1>1 DEF ListTrue, PageTrue, Descending, Covers
<1>2. index.ready /\ index.before = NoCursor => \A r \in begun : r \in index.days[DayOf(r.at)]
  BY DEF JournalInv, IndexTrue, Reaches
<1> QED
  BY <1>1, <1>2 DEF JournalComplete

-----------------------------------------------------------------------------
(* The registry of Zigbee roles *)

Steps == {"apply", "take", "drop", "free", "rename", "retake"}
Assigning == {<<>>, <<"take">>, <<"apply", "take">>, <<"drop", "apply">>, <<"apply">>}
Releasing == {<<"apply">>, <<"apply", "drop">>, <<"drop">>}
Renaming == {<<"rename", "retake">>, <<"retake">>}
Removing == {<<"free", "drop">>, <<"drop">>}

Orders ==
  [pc : {"idle", "waiting", "writing"}, op : {"none", "assign", "release", "rename", "remove"},
   dev : Devices \cup {None}, name : Names \cup {None}, to : Names \cup {None},
   roles : RoleMaps \cup {None}, todo : Seq(Steps), txn : Nat, stale : BOOLEAN]

\* What a command may be, by its operation.
Formed(cmd) ==
  /\ cmd.op = "none" <=> cmd.pc = "idle"
  /\ cmd.op # "none" => cmd.dev \in Devices
  /\ cmd.op = "assign" => cmd.todo \in Assigning /\ cmd.name \in Names /\ cmd.roles \in RoleMaps
                          /\ (cmd.pc = "writing" => cmd.todo # <<>>)
  /\ cmd.op = "release" => cmd.todo \in Releasing /\ cmd.roles \in RoleMaps /\ cmd.pc = "writing"
  /\ cmd.op = "rename" => cmd.todo \in Renaming /\ cmd.to \in Names
  /\ cmd.op = "remove" => cmd.todo \in Removing

News == [kind : {"devices"}, names : Named] \cup [kind : {"response"}, txn : Nat, ok : BOOLEAN]
Queries == [op : {"assign", "rename", "remove"}, dev : Devices, to : Names \cup {None}, txn : Nat]
Views == [listed : Named, roles : RoleMaps, source : [Roles -> Devices \cup {None}],
          others : Named, subs : SUBSET Names]
Pasts == [overtaken : BOOLEAN, unsaved : BOOLEAN, departed : BOOLEAN,
          deaf : SUBSET Names, removed : SUBSET Devices]

RegistryTypes ==
  /\ mesh \in Named /\ link \in {"up", "down"} /\ loop \in {"alive", "dead"}
  /\ monitor \in Views /\ file \in [roles : RoleMaps, others : Named]
  /\ cmds \in [Clients -> Orders] /\ \A c \in Clients : Formed(cmds[c])
  /\ wire \in Seq(News) /\ asked \subseteq Queries
  /\ past \in Pasts /\ budget \in [commands : Nat, trouble : Nat]

Inventoried(w, i) == w[i].kind = "devices"
Quiet == link = "up" /\ loop = "alive" /\ \A i \in 1..Len(wire) : ~Inventoried(wire, i)
AnsweredAt(w, i, txn) == w[i].kind = "response" /\ w[i].ok /\ w[i].txn = txn
Granted(w, txn) == \E i \in 1..Len(w) : AnsweredAt(w, i, txn)
OneName(named) == \A d, e \in Devices : named[d] = named[e] => d = e \/ named[d] = None

\* Inventories arrive in their order: the last one on its way, or the one the monitor
\* has, is the network's.
Arriving ==
  /\ link = "down" => wire = <<>>
  /\ OneName(mesh)
  /\ Quiet => monitor.listed = mesh
  /\ \A i \in 1..Len(wire) : Inventoried(wire, i) =>
       /\ OneName(wire[i].names)
       /\ (\A j \in 1..Len(wire) : i < j => ~Inventoried(wire, j)) => wire[i].names = mesh

\* A response is to the command that waits for its number.
Matched ==
  /\ \A q \in asked : q.txn > budget.commands
  /\ \A i \in 1..Len(wire) : wire[i].kind = "response" => wire[i].txn > budget.commands
  /\ \A c \in Clients : cmds[c].pc = "waiting" => cmds[c].txn > budget.commands
  /\ \A q \in asked, c \in Clients : cmds[c].pc = "waiting" /\ cmds[c].txn = q.txn =>
       q.op = cmds[c].op /\ q.dev = cmds[c].dev /\ q.to = cmds[c].to

\* The inventory with the new name is next to the response that grants it.
Near(w, inv, i, d, n) ==
  \/ \E j \in 1..Len(w) : i < j /\ Inventoried(w, j)
  \/ i = 1 /\ inv[d] = n
  \/ i > 1 /\ Inventoried(w, i - 1) /\ w[i - 1].names[d] = n

\* A rename writes the name of the inventory, or the inventory is still to come.
RenamesSeen ==
  \A c \in Clients : cmds[c].op = "rename" =>
    /\ cmds[c].pc = "waiting" =>
         \A i \in 1..Len(wire) : AnsweredAt(wire, i, cmds[c].txn) => Near(wire, monitor.listed, i, cmds[c].dev, cmds[c].to)
    /\ cmds[c].pc = "writing" /\ ~cmds[c].stale /\ Quiet => monitor.listed[cmds[c].dev] = cmds[c].to

\* A device that left is assigned by no command that was granted and not overtaken.
Barred(d) ==
  /\ mesh[d] = None
  /\ \A c \in Clients : cmds[c].op = "assign" /\ cmds[c].dev = d /\ ~cmds[c].stale =>
       cmds[c].pc = "waiting" /\ ~Granted(wire, cmds[c].txn)

Gone ==
  \A c \in Clients : cmds[c].op = "remove" /\ ~cmds[c].stale =>
    /\ cmds[c].pc = "writing" \/ Granted(wire, cmds[c].txn) => mesh[cmds[c].dev] = None
    /\ Orderly /\ cmds[c].todo = <<"drop">> => Barred(cmds[c].dev) /\ RoleOf(cmds[c].dev) = {}

Forgotten ==
  Orderly => \A d \in past.removed : Barred(d) /\ RoleOf(d) = {} /\ monitor.others[d] = None

Frees(cmd, roles) == cmd.roles = Freed(roles, cmd.dev)
Given(roles, d, n, slot) == [Freed(roles, d) EXCEPT ![slot] = [dev |-> d, name |-> n]]
Gives(cmd, roles) ==
  \E slot \in Roles : cmd.roles = Given(roles, cmd.dev, cmd.name, slot)

\* What a command found that nothing overtook is still so.
Found(cmd, view) ==
  /\ cmd.op = "assign" =>
       /\ cmd.name = view.listed[cmd.dev]
       /\ cmd.todo = <<"take">> => \A r \in Roles : view.roles[r].dev # cmd.dev
       /\ cmd.todo = <<"apply", "take">> => Frees(cmd, view.roles)
       /\ cmd.todo = <<"drop", "apply">> => Gives(cmd, view.roles)
       /\ cmd.todo = <<"apply">> => Gives(cmd, view.roles) /\ view.others[cmd.dev] = None
  /\ cmd.op = "release" /\ cmd.todo # <<"drop">> => Frees(cmd, view.roles)

Captures == Orderly => \A c \in Clients : ~cmds[c].stale => Found(cmds[c], monitor)

Saved == ~past.unsaved => file.roles = monitor.roles /\ file.others = monitor.others
Single == Orderly => OnlyRole(monitor.roles, monitor.others)

NamesKept ==
  Orderly /\ Quiet => \A r \in Roles : Held(monitor.roles, r) =>
    \/ monitor.listed[monitor.roles[r].dev] = None /\ past.departed
    \/ monitor.roles[r].name = monitor.listed[monitor.roles[r].dev]

Listening ==
  link = "up" /\ loop = "alive" =>
    /\ Listed(monitor.listed) \subseteq monitor.subs \cup past.deaf
    /\ Orderly => Topics(monitor.roles) \cap past.deaf = {}

Sourced == Orderly /\ ~past.departed => \A r \in Roles : monitor.source[r] \in {None, monitor.roles[r].dev}
Mourned == loop = "dead" /\ Orderly => past.departed

RegistryInv ==
  /\ RegistryTypes /\ Arriving /\ Matched /\ RenamesSeen /\ Gone /\ Forgotten
  /\ Captures /\ Saved /\ Single /\ NamesKept /\ Listening /\ Sourced /\ Mourned

\* A role without a holder has no name either.
LEMMA RoleIs ==
  ASSUME NEW m \in RoleMaps, NEW r \in Roles
  PROVE  /\ m[r].dev \in Devices \cup {None} /\ m[r].name \in Names \cup {None}
         /\ Held(m, r) => m[r].dev \in Devices /\ m[r].name \in Names
                           /\ m[r] = [dev |-> m[r].dev, name |-> m[r].name]
         /\ ~Held(m, r) => m[r] = Unassigned /\ m[r].name = None
<1>1. m[r] \in {Unassigned} \cup [dev : Devices, name : Names]
  BY DEF RoleMaps
<1>2. CASE m[r] = Unassigned
  BY <1>2 DEF Unassigned, Held
<1>3. CASE m[r] \in [dev : Devices, name : Names]
  BY <1>3, ZigbeeAssumption DEF Held
<1> QED
  BY <1>1, <1>2, <1>3

\* Forms of a map.
LEMMA FreedIs ==
  ASSUME NEW m \in RoleMaps, NEW d \in Devices
  PROVE  /\ Freed(m, d) \in RoleMaps
         /\ \A r \in Roles : Freed(m, d)[r] = IF m[r].dev = d THEN Unassigned ELSE m[r]
  BY DEF Freed, RoleMaps

LEMMA RenamedIs ==
  ASSUME NEW m \in RoleMaps, NEW d \in Devices, NEW n \in Names
  PROVE  /\ Renamed(m, d, n) \in RoleMaps
         /\ \A r \in Roles : /\ Renamed(m, d, n)[r].dev = m[r].dev
                             /\ Renamed(m, d, n)[r].name = IF m[r].dev = d THEN n ELSE m[r].name
  BY DEF Renamed, RoleMaps

LEMMA GivenIs ==
  ASSUME NEW m \in RoleMaps, NEW d \in Devices, NEW n \in Names, NEW slot \in Roles
  PROVE  /\ Given(m, d, n, slot) \in RoleMaps
         /\ Given(m, d, n, slot)[slot].dev = d /\ Given(m, d, n, slot)[slot].name = n
         /\ \A r \in Roles \ {slot} :
              Given(m, d, n, slot)[r] = IF m[r].dev = d THEN Unassigned ELSE m[r]
  BY FreedIs DEF RoleMaps, Given

LEMMA SyncedIs ==
  ASSUME RegistryTypes, NEW s \in Named
  PROVE  /\ Synced(s, monitor.others) \in Named
         /\ \A d \in Devices : Synced(s, monitor.others)[d] = None <=> monitor.others[d] = None
         /\ SyncedRoles(s) \in RoleMaps
         /\ \A r \in Roles : /\ SyncedRoles(s)[r].dev = monitor.roles[r].dev
                             /\ Held(monitor.roles, r) /\ s[monitor.roles[r].dev] # None =>
                                  SyncedRoles(s)[r].name = s[monitor.roles[r].dev]
<1>1. monitor.others \in Named /\ monitor.roles \in RoleMaps
  BY DEF RegistryTypes, Views
<1>2. /\ Synced(s, monitor.others) \in Named
      /\ \A d \in Devices : Synced(s, monitor.others)[d] = None <=> monitor.others[d] = None
  BY <1>1 DEF Synced, Named
<1>3. ASSUME NEW r \in Roles
      PROVE  /\ SyncedRoles(s)[r] \in {Unassigned} \cup [dev : Devices, name : Names]
             /\ SyncedRoles(s)[r].dev = monitor.roles[r].dev
             /\ Held(monitor.roles, r) /\ s[monitor.roles[r].dev] # None =>
                  SyncedRoles(s)[r].name = s[monitor.roles[r].dev]
  <2>1. CASE Held(monitor.roles, r) /\ s[monitor.roles[r].dev] # None
    <3>1. monitor.roles[r] \in [dev : Devices, name : Names] /\ s[monitor.roles[r].dev] \in Names
      <4>1. /\ monitor.roles[r].dev \in Devices /\ monitor.roles[r].name \in Names
            /\ monitor.roles[r] = [dev |-> monitor.roles[r].dev, name |-> monitor.roles[r].name]
        BY <2>1, <1>1, RoleIs
      <4>2. s[monitor.roles[r].dev] \in Names
        BY <4>1, <2>1 DEF Named
      <4> QED
        BY <4>1, <4>2
    <3>2. SyncedRoles(s)[r] = [monitor.roles[r] EXCEPT !.name = s[monitor.roles[r].dev]]
      BY <2>1 DEF SyncedRoles
    <3> QED
      BY <3>1, <3>2
  <2>2. CASE ~(Held(monitor.roles, r) /\ s[monitor.roles[r].dev] # None)
    <3>1. SyncedRoles(s)[r] = monitor.roles[r]
      BY <2>2 DEF SyncedRoles
    <3> QED
      BY <3>1, <2>2, <1>1 DEF RoleMaps
  <2> QED
    BY <2>1, <2>2
<1>4. SyncedRoles(s) \in RoleMaps
  <2>1. SyncedRoles(s) = [r \in Roles |-> SyncedRoles(s)[r]]
    BY DEF SyncedRoles
  <2> QED
    BY <2>1, <1>3 DEF RoleMaps
<1> QED
  BY <1>2, <1>3, <1>4

LEMMA TopicsAre ==
  ASSUME NEW m \in RoleMaps
  PROVE  /\ Topics(m) \subseteq Names
         /\ \A t : t \in Topics(m) <=> \E r \in Roles : Held(m, r) /\ m[r].name = t
<1>1. \A t : t \in Topics(m) <=> \E r \in Roles : Held(m, r) /\ m[r].name = t
  BY DEF Topics
<1> QED
  BY <1>1, RoleIs

LEMMA ListedAre ==
  ASSUME NEW s \in Named
  PROVE  Listed(s) \subseteq Names
  BY DEF Listed, Named

\* Readings move with their device.
LEMMA CarriedIs ==
  ASSUME RegistryTypes, NEW m \in RoleMaps
  PROVE  /\ Carried(m) \in [Roles -> Devices \cup {None}]
         /\ Sourced /\ Orderly /\ ~past.departed =>
              \A r \in Roles : Carried(m)[r] \in {None, m[r].dev}
<1>1. monitor.source \in [Roles -> Devices \cup {None}]
  BY DEF RegistryTypes, Views
<1>2. ASSUME NEW r \in Roles
      PROVE  /\ Carried(m)[r] \in Devices \cup {None}
             /\ Sourced /\ Orderly /\ ~past.departed => Carried(m)[r] \in {None, m[r].dev}
  <2>1. CASE Held(m, r) /\ \E q \in Roles : monitor.roles[q].dev = m[r].dev
    <3> DEFINE q == CHOOSE q \in Roles : monitor.roles[q].dev = m[r].dev
    <3>1. q \in Roles /\ monitor.roles[q].dev = m[r].dev
      BY <2>1
    <3>2. Carried(m)[r] = monitor.source[q]
      BY <2>1 DEF Carried
    <3> QED
      BY <3>1, <3>2, <1>1 DEF Sourced
  <2>2. CASE ~(Held(m, r) /\ \E q \in Roles : monitor.roles[q].dev = m[r].dev)
    BY <2>2 DEF Carried
  <2> QED
    BY <2>1, <2>2
<1>3. Carried(m) = [r \in Roles |-> Carried(m)[r]]
  BY DEF Carried
<1> QED
  BY <1>2, <1>3

\* What the invariant says, in the words of the property.
LEMMA RegistryHolds == RegistryInv => RegistrySound
<1> SUFFICES ASSUME RegistryInv
             PROVE  RegistrySound
  OBVIOUS
<1> USE DEF RegistryInv
<1>1. Orderly => OnlyRole(monitor.roles, monitor.others) /\ OnlyRole(file.roles, file.others)
  BY DEF Single, Saved, Orderly
<1>2. Orderly => \A d \in past.removed : RoleOf(d) = {} /\ monitor.others[d] = None
                                           /\ \A r \in Roles : file.roles[r].dev # d
  BY DEF Forgotten, Saved, Orderly, RoleOf
<1>3. Settled => Quiet /\ monitor.listed = mesh /\ Listed(monitor.listed) \subseteq monitor.subs \cup past.deaf
  <2>1. wire = <<>> => 1..Len(wire) = {}
    OBVIOUS
  <2> QED
    BY <2>1 DEF Settled, Quiet, Arriving, Listening
<1>4. ASSUME Settled, Orderly, NEW r \in Roles, Held(monitor.roles, r)
      PROVE  IF mesh[monitor.roles[r].dev] = None
               THEN OfflineSignal(r) \/ \E d \in Devices : mesh[d] = monitor.roles[r].name
               ELSE /\ monitor.roles[r].name = mesh[monitor.roles[r].dev]
                    /\ monitor.roles[r].name \in monitor.subs /\ ~OfflineSignal(r)
  <2>1. CASE mesh[monitor.roles[r].dev] = None
    BY <2>1, <1>3, <1>4 DEF OfflineSignal
  <2>2. CASE mesh[monitor.roles[r].dev] # None
    <3>1. monitor.roles[r].name = monitor.listed[monitor.roles[r].dev]
      BY <2>2, <1>3, <1>4 DEF NamesKept
    <3>2. monitor.roles[r].name \in Topics(monitor.roles)
      BY <1>4 DEF Topics
    <3>3. monitor.roles[r].dev \in Devices
      <4>1. monitor.roles \in RoleMaps
        BY DEF RegistryTypes, Views
      <4> QED
        BY <4>1, <1>4, RoleIs
    <3>4. monitor.roles[r].name \in Listed(monitor.listed)
      BY <3>1, <3>3, <2>2, <1>3, <1>4 DEF Listed
    <3>5. link = "up" /\ loop = "alive"
      BY <1>4 DEF Settled
    <3>6. monitor.roles[r].name \in monitor.subs
      BY <3>2, <3>4, <3>5, <1>4 DEF Listening
    <3>7. ~OfflineSignal(r)
      BY <2>2, <1>3, <1>4 DEF OfflineSignal
    <3> QED
      BY <2>2, <3>1, <3>6, <3>7, <1>3, <1>4
  <2> QED
    BY <2>1, <2>2
<1> QED
  BY <1>1, <1>2, <1>3, <1>4 DEF RegistrySound, Sourced, Mourned
-----------------------------------------------------------------------------
(* Messages on their way *)

LEMMA PopOf ==
  ASSUME wire \in Seq(News), wire # <<>>
  PROVE  /\ Head(wire) \in News /\ Head(wire) = wire[1] /\ 1 \in 1..Len(wire)
         /\ Tail(wire) \in Seq(News) /\ Len(Tail(wire)) = Len(wire) - 1 /\ Len(wire) \in Nat
         /\ \A i \in 1..Len(Tail(wire)) : i + 1 \in 1..Len(wire) /\ Tail(wire)[i] = wire[i + 1]
         /\ \A i \in 1..Len(wire) : i = 1 \/ i - 1 \in 1..Len(Tail(wire))
  OBVIOUS

LEMMA GrowOf ==
  ASSUME NEW w \in Seq(News), NEW v \in Seq(News)
  PROVE  /\ w \o v \in Seq(News) /\ Len(w \o v) = Len(w) + Len(v) /\ Len(w) \in Nat /\ Len(v) \in Nat
         /\ \A i \in 1..Len(w) : (w \o v)[i] = w[i]
         /\ \A i \in 1..Len(w \o v) : i > Len(w) => i - Len(w) \in 1..Len(v) /\ (w \o v)[i] = v[i - Len(w)]
  OBVIOUS

LEMMA NewsAre ==
  ASSUME NEW m \in News
  PROVE  /\ m.kind \in {"devices", "response"}
         /\ m.kind = "devices" => m.names \in Named
         /\ m.kind = "response" => m.txn \in Nat /\ m.ok \in BOOLEAN
  BY DEF News

-----------------------------------------------------------------------------
(* Commands *)

\* A command that goes on as it was, or was at most overtaken.
Alike(x, y) ==
  /\ x.pc = y.pc /\ x.op = y.op /\ x.dev = y.dev /\ x.name = y.name /\ x.to = y.to
  /\ x.roles = y.roles /\ x.todo = y.todo /\ x.txn = y.txn /\ (x.stale => y.stale)

\* No command advances.
Resting == \A c \in Clients : cmds'[c] = Idle \/ Alike(cmds[c], cmds'[c])

LEMMA IdleIs == Idle \in Orders /\ Idle.pc = "idle" /\ Idle.op = "none" /\ Formed(Idle)
  BY DEF Idle, Orders, Formed, Steps

LEMMA AlikeFormed ==
  ASSUME NEW x, NEW y, Alike(x, y), Formed(x)
  PROVE  Formed(y)
  BY DEF Alike, Formed

LEMMA StaleIs ==
  ASSUME cmds \in [Clients -> Orders], NEW S
  PROVE  /\ Stale(S) \in [Clients -> Orders]
         /\ \A c \in Clients : /\ Alike(cmds[c], Stale(S)[c])
                              /\ Stale(S)[c].stale = (cmds[c].stale \/ c \in S)
<1>1. ASSUME NEW c \in Clients
      PROVE  /\ Stale(S)[c] \in Orders /\ Alike(cmds[c], Stale(S)[c])
             /\ Stale(S)[c].stale = (cmds[c].stale \/ c \in S)
  <2>1. cmds[c] \in Orders
    OBVIOUS
  <2>2. CASE c \in S
    <3>1. Stale(S)[c] = [cmds[c] EXCEPT !.stale = TRUE]
      BY <2>2 DEF Stale
    <3>2. [cmds[c] EXCEPT !.stale = TRUE] \in Orders
      BY <2>1 DEF Orders
    <3>3. Alike(cmds[c], [cmds[c] EXCEPT !.stale = TRUE]) /\ [cmds[c] EXCEPT !.stale = TRUE].stale = TRUE
      BY <2>1 DEF Orders, Alike
    <3> QED
      BY <3>1, <3>2, <3>3, <2>2
  <2>3. CASE c \notin S
    <3>1. Stale(S)[c] = cmds[c] /\ cmds[c].stale \in BOOLEAN
      BY <2>1, <2>3 DEF Stale, Orders
    <3> QED
      BY <3>1, <2>1, <2>3 DEF Alike
  <2> QED
    BY <2>2, <2>3
<1>2. Stale(S) = [c \in Clients |-> Stale(S)[c]]
  BY DEF Stale
<1> QED
  BY <1>1, <1>2

\* What a part of the invariant says of commands that rest, while the rest of it stays.
LEMMA MatchedRests ==
  ASSUME Matched, Resting, asked' = asked, wire' = wire, budget'.commands = budget.commands
  PROVE  Matched'
  BY DEF Matched, Resting, Alike, Idle

LEMMA RenamesRest ==
  ASSUME RenamesSeen, Resting, wire' = wire, monitor'.listed = monitor.listed, Quiet' => Quiet
  PROVE  RenamesSeen'
  BY DEF RenamesSeen, Resting, Alike, Idle, Near, AnsweredAt, Inventoried

LEMMA FoundRests ==
  ASSUME NEW x, NEW y, Alike(x, y), ~y.stale, NEW v, NEW w, Found(x, v),
         w.roles = v.roles, w.others = v.others, w.listed = v.listed
  PROVE  ~x.stale /\ Found(y, w)
<1>1. /\ x.op = y.op /\ x.dev = y.dev /\ x.name = y.name /\ x.roles = y.roles
      /\ x.todo = y.todo /\ ~x.stale
  BY DEF Alike
<1>2. /\ Frees(x, v.roles) => Frees(y, w.roles)
      /\ Gives(x, v.roles) => Gives(y, w.roles)
  BY <1>1 DEF Frees, Gives
<1> QED
  BY <1>1, <1>2 DEF Found

LEMMA CapturesRest ==
  ASSUME Captures, Resting, monitor'.roles = monitor.roles, monitor'.others = monitor.others,
         monitor'.listed = monitor.listed, Orderly' => Orderly
  PROVE  Captures'
<1>1. ASSUME Orderly', NEW c \in Clients, ~cmds'[c].stale
      PROVE  Found(cmds'[c], monitor')
  <2>1. CASE cmds'[c] = Idle
    BY <2>1 DEF Idle, Found
  <2>2. CASE Alike(cmds[c], cmds'[c])
    <3>1. ~cmds[c].stale
      BY <2>2, <1>1 DEF Alike
    <3>2. Found(cmds[c], monitor)
      BY <3>1, <1>1 DEF Captures
    <3> QED
      BY <3>2, <2>2, <1>1, FoundRests
  <2> QED
    BY <2>1, <2>2 DEF Resting
<1> QED
  BY <1>1 DEF Captures

LEMMA GoneRests ==
  ASSUME RegistryTypes, Gone, Resting, Orderly' => Orderly,
         \A r \in Roles : monitor'.roles[r].dev = monitor.roles[r].dev,
         \A txn : Granted(wire', txn) => Granted(wire, txn),
         \A c \in Clients : cmds'[c].op = "remove" /\ ~cmds'[c].stale /\ mesh[cmds[c].dev] = None
                              => mesh'[cmds[c].dev] = None
  PROVE  Gone'
<1>1. ASSUME NEW c \in Clients, cmds'[c].op = "remove", ~cmds'[c].stale
      PROVE  /\ cmds'[c].pc = "writing" \/ Granted(wire', cmds'[c].txn) => mesh'[cmds'[c].dev] = None
             /\ Orderly' /\ cmds'[c].todo = <<"drop">> =>
                  Barred(cmds[c].dev)' /\ RoleOf(cmds[c].dev)' = {}
  <2>1. Alike(cmds[c], cmds'[c])
    BY <1>1 DEF Resting, Idle
  <2>2. /\ cmds[c].op = "remove" /\ ~cmds[c].stale /\ cmds'[c].dev = cmds[c].dev
        /\ cmds'[c].pc = cmds[c].pc /\ cmds'[c].txn = cmds[c].txn /\ cmds'[c].todo = cmds[c].todo
    BY <2>1, <1>1 DEF Alike
  <2>3. cmds[c].pc = "writing" \/ Granted(wire, cmds[c].txn) => mesh'[cmds[c].dev] = None
    BY <2>2, <1>1 DEF Gone
  <2>4. ASSUME Orderly', cmds[c].todo = <<"drop">>
        PROVE  Barred(cmds[c].dev)' /\ RoleOf(cmds[c].dev)' = {}
    <3> DEFINE d == cmds[c].dev
    <3>1. Barred(d) /\ RoleOf(d) = {}
      BY <2>2, <2>4 DEF Gone
    <3>2. mesh'[d] = None
      BY <3>1, <2>2, <1>1 DEF Barred
    <3>3. \A k \in Clients : cmds'[k].op = "assign" /\ cmds'[k].dev = d /\ ~cmds'[k].stale =>
            cmds'[k].pc = "waiting" /\ ~Granted(wire', cmds'[k].txn)
      BY <3>1 DEF Barred, Resting, Alike, Idle
    <3>4. \A r \in Roles : monitor'.roles[r].dev # d
      BY <3>1 DEF RoleOf
    <3> QED
      BY <3>2, <3>3, <3>4, <2>2 DEF Barred, RoleOf
  <2> QED
    BY <2>2, <2>3, <2>4
<1> QED
  BY <1>1 DEF Gone

LEMMA ForgottenRests ==
  ASSUME Forgotten, Resting, Orderly' => Orderly,
         \A r \in Roles : monitor'.roles[r].dev = monitor.roles[r].dev,
         \A d \in past.removed : monitor.others[d] = None => monitor'.others[d] = None, past'.removed \subseteq past.removed,
         \A txn : Granted(wire', txn) => Granted(wire, txn),
         \A d \in past'.removed : mesh[d] = None => mesh'[d] = None
  PROVE  Forgotten'
<1>1. ASSUME Orderly', NEW d \in past'.removed
      PROVE  Barred(d)' /\ RoleOf(d)' = {} /\ monitor'.others[d] = None
  <2>1. Barred(d) /\ RoleOf(d) = {} /\ monitor.others[d] = None
    BY <1>1 DEF Forgotten
  <2>2. mesh'[d] = None
    BY <2>1, <1>1 DEF Barred
  <2>3. \A k \in Clients : cmds'[k].op = "assign" /\ cmds'[k].dev = d /\ ~cmds'[k].stale =>
          cmds'[k].pc = "waiting" /\ ~Granted(wire', cmds'[k].txn)
    BY <2>1 DEF Barred, Resting, Alike, Idle
  <2> QED
    BY <2>1, <2>2, <2>3 DEF Barred, RoleOf
<1> QED
  BY <1>1 DEF Forgotten
-----------------------------------------------------------------------------
(* Steps that write nothing *)

LEMMA NothingWritten ==
  ASSUME RegistryInv, RegistryTypes', Sourced', Resting,
         mesh' = mesh, asked' = asked, wire' = wire, link' = link, loop' = loop, file' = file,
         past' = past, budget'.commands = budget.commands,
         monitor'.listed = monitor.listed, monitor'.roles = monitor.roles,
         monitor'.others = monitor.others, monitor'.subs = monitor.subs
  PROVE  RegistryInv'
<1>1. Orderly' = Orderly /\ Quiet' = Quiet
  BY DEF Orderly, Quiet
<1>2. Arriving'
  BY <1>1 DEF RegistryInv, Arriving
<1>3. Matched' /\ RenamesSeen' /\ Captures'
  BY <1>1, MatchedRests, RenamesRest, CapturesRest DEF RegistryInv
<1>4. Gone' /\ Forgotten'
  BY <1>1, GoneRests, ForgottenRests DEF RegistryInv
<1>5. Saved' /\ Single' /\ NamesKept'
  BY <1>1 DEF RegistryInv, Saved, Single, NamesKept, OnlyRole, Held
<1>6. Listening' /\ Mourned'
  BY <1>1 DEF RegistryInv, Listening, Mourned, Topics, Held
<1> QED
  BY <1>2, <1>3, <1>4, <1>5, <1>6 DEF RegistryInv

\* A command that ends.
LEMMA Ending ==
  ASSUME RegistryTypes, NEW c \in Clients, cmds' = [cmds EXCEPT ![c] = Idle]
  PROVE  /\ Resting /\ cmds' \in [Clients -> Orders] /\ \A k \in Clients : Formed(cmds'[k])
<1>1. \A k \in Clients : cmds'[k] = IF k = c THEN Idle ELSE cmds[k]
  BY DEF RegistryTypes
<1>2. \A k \in Clients : Alike(cmds[k], cmds[k])
  BY DEF Alike
<1> QED
  BY <1>1, <1>2, IdleIs DEF RegistryTypes, Resting

LEMMA Troubled ==
  ASSUME RegistryTypes, Trouble
  PROVE  budget' \in [commands : Nat, trouble : Nat] /\ budget'.commands = budget.commands
  BY DEF RegistryTypes, Trouble

LEMMA TimeoutKeeps ==
  ASSUME RegistryInv, NEW c \in Clients, Timeout(c) \/ WriteRefused(c)
  PROVE  RegistryInv'
<1>1. /\ cmds' = [cmds EXCEPT ![c] = Idle]
      /\ mesh' = mesh /\ asked' = asked /\ wire' = wire /\ link' = link /\ loop' = loop
      /\ file' = file /\ past' = past /\ monitor' = monitor
      /\ Trouble \/ budget' = budget
  BY DEF Timeout, WriteRefused
<1>2. RegistryTypes
  BY DEF RegistryInv
<1>3. budget' \in [commands : Nat, trouble : Nat] /\ budget'.commands = budget.commands
  BY <1>1, <1>2, Troubled DEF RegistryTypes
<1>4. RegistryTypes' /\ Resting
  BY <1>1, <1>2, <1>3, Ending DEF RegistryTypes
<1>5. Sourced'
  BY <1>1 DEF RegistryInv, Sourced, Orderly
<1> QED
  BY <1>1, <1>3, <1>4, <1>5, NothingWritten

LEMMA ReadingKeeps ==
  ASSUME RegistryInv, NEW d \in Devices, Reading(d)
  PROVE  RegistryInv'
<1> DEFINE source == [r \in Roles |-> IF monitor.roles[r].name = mesh[d] THEN d ELSE monitor.source[r]]
<1>1. /\ loop = "alive" /\ link = "up" /\ wire = <<>> /\ mesh[d] \in monitor.subs
      /\ monitor' = [monitor EXCEPT !.source = source]
      /\ cmds' = cmds /\ mesh' = mesh /\ asked' = asked /\ wire' = wire /\ link' = link
      /\ loop' = loop /\ file' = file /\ past' = past /\ budget' = budget
  BY DEF Reading
<1>2. RegistryTypes /\ monitor \in Views
  BY DEF RegistryInv, RegistryTypes
<1>3. source \in [Roles -> Devices \cup {None}]
  BY <1>2 DEF Views
<1>4. /\ monitor' \in Views /\ monitor'.listed = monitor.listed /\ monitor'.roles = monitor.roles
      /\ monitor'.others = monitor.others /\ monitor'.subs = monitor.subs /\ monitor'.source = source
  BY <1>1, <1>2, <1>3 DEF Views
<1>5. RegistryTypes'
  BY <1>1, <1>2, <1>4 DEF RegistryTypes
<1>6. Resting
  BY <1>1 DEF Resting, Alike
<1>7. ASSUME Orderly, ~past.departed, NEW r \in Roles
      PROVE  source[r] \in {None, monitor.roles[r].dev}
  <2>1. CASE monitor.roles[r].name # mesh[d]
    BY <2>1, <1>7 DEF RegistryInv, Sourced
  <2>2. CASE monitor.roles[r].name = mesh[d]
    <3>1. Quiet
      BY <1>1 DEF Quiet
    <3>2. monitor.listed = mesh /\ OneName(mesh)
      BY <3>1 DEF RegistryInv, Arriving
    <3>3. mesh[d] # None /\ monitor.roles \in RoleMaps
      BY <1>1, <1>2, ZigbeeAssumption DEF Views
    <3>4. Held(monitor.roles, r) /\ monitor.roles[r].dev \in Devices
      BY <2>2, <3>3, RoleIs
    <3>5. monitor.roles[r].name = monitor.listed[monitor.roles[r].dev]
      BY <3>1, <3>4, <1>7 DEF RegistryInv, NamesKept
    <3>6. monitor.roles[r].dev = d
      BY <2>2, <3>2, <3>3, <3>4, <3>5 DEF OneName
    <3> QED
      BY <3>6, <2>2
  <2> QED
    BY <2>1, <2>2
<1>8. Sourced'
  BY <1>1, <1>4, <1>7 DEF Sourced, Orderly
<1> QED
  BY <1>1, <1>4, <1>5, <1>6, <1>8, NothingWritten
-----------------------------------------------------------------------------
(* The connection *)

LEMMA NothingComing ==
  /\ <<>> \in Seq(News) /\ Len(<<>>) = 0 /\ \A txn : ~Granted(<<>>, txn)
  BY DEF Granted

LEMMA BrokerConnects ==
  ASSUME RegistryInv, Connect
  PROVE  RegistryInv'
<1> DEFINE m == [kind |-> "devices", names |-> mesh]
<1>1. /\ link = "down" /\ loop = "alive" /\ link' = "up" /\ wire' = <<m>>
      /\ monitor' = [monitor EXCEPT !.subs = Connected]
      /\ past' = [past EXCEPT !.deaf = {}]
      /\ mesh' = mesh /\ asked' = asked /\ loop' = loop /\ file' = file /\ cmds' = cmds /\ budget' = budget
  BY DEF Connect
<1>2. RegistryTypes /\ monitor \in Views /\ past \in Pasts /\ mesh \in Named
  BY DEF RegistryInv, RegistryTypes
<1>3. Connected \subseteq Names
  <2>1. monitor.roles \in RoleMaps /\ monitor.listed \in Named
    BY <1>2 DEF Views
  <2> QED
    BY <2>1, TopicsAre, ListedAre DEF Connected
<1>4. /\ monitor' \in Views /\ monitor'.listed = monitor.listed /\ monitor'.roles = monitor.roles
      /\ monitor'.others = monitor.others /\ monitor'.subs = Connected /\ monitor'.source = monitor.source
  BY <1>1, <1>2, <1>3 DEF Views
<1>5. /\ past' \in Pasts /\ past'.overtaken = past.overtaken /\ past'.unsaved = past.unsaved
      /\ past'.departed = past.departed /\ past'.deaf = {} /\ past'.removed = past.removed
  BY <1>1, <1>2 DEF Pasts
<1>6. /\ m \in News /\ wire' \in Seq(News) /\ Len(wire') = 1 /\ wire'[1] = m
      /\ m.kind = "devices" /\ m.names = mesh
  BY <1>1, <1>2 DEF News
<1> HIDE DEF m
<1>7. RegistryTypes'
  BY <1>1, <1>2, <1>4, <1>5, <1>6 DEF RegistryTypes
<1>8. ~Quiet' /\ (\A txn : ~Granted(wire', txn)) /\ Orderly' = Orderly
  BY <1>5, <1>6 DEF Quiet, Granted, AnsweredAt, Inventoried, Orderly
<1>9. Resting
  BY <1>1 DEF Resting, Alike
<1>10. Arriving'
  BY <1>1, <1>6, <1>8 DEF RegistryInv, Arriving, Inventoried
<1>11. Matched'
  BY <1>1, <1>6 DEF RegistryInv, Matched
<1>12. RenamesSeen'
  BY <1>6, <1>8 DEF RenamesSeen, Granted
<1>13. Captures' /\ Gone' /\ Forgotten'
  BY <1>1, <1>2, <1>4, <1>5, <1>8, <1>9, CapturesRest, GoneRests, ForgottenRests DEF RegistryInv
<1>14. Saved' /\ Single' /\ NamesKept' /\ Sourced' /\ Mourned'
  BY <1>1, <1>4, <1>5, <1>8 DEF RegistryInv, Saved, Single, NamesKept, OnlyRole, Held, Sourced, Mourned
<1>15. Listening'
  BY <1>4, <1>5 DEF Listening, Connected, Topics, Held
<1> QED
  BY <1>7, <1>10, <1>11, <1>12, <1>13, <1>14, <1>15 DEF RegistryInv

LEMMA DisconnectKeeps ==
  ASSUME RegistryInv, Disconnect
  PROVE  RegistryInv'
<1>1. /\ link' = "down" /\ wire' = <<>> /\ Trouble /\ loop = "alive"
      /\ monitor' = [monitor EXCEPT !.subs = {}]
      /\ cmds' = [c \in Clients |-> IF cmds[c].pc = "waiting" THEN Idle ELSE cmds[c]]
      /\ mesh' = mesh /\ asked' = asked /\ loop' = loop /\ file' = file /\ past' = past
  BY DEF Disconnect
<1>2. RegistryTypes /\ monitor \in Views
  BY DEF RegistryInv, RegistryTypes
<1>3. budget' \in [commands : Nat, trouble : Nat] /\ budget'.commands = budget.commands
  BY <1>1, <1>2, Troubled
<1>4. /\ monitor' \in Views /\ monitor'.listed = monitor.listed /\ monitor'.roles = monitor.roles
      /\ monitor'.others = monitor.others /\ monitor'.source = monitor.source
  BY <1>1, <1>2 DEF Views
<1>5. /\ Resting /\ cmds' \in [Clients -> Orders] /\ \A c \in Clients : Formed(cmds'[c])
      /\ \A c \in Clients : cmds'[c].pc # "waiting"
  <2>1. \A c \in Clients : cmds'[c] = IF cmds[c].pc = "waiting" THEN Idle ELSE cmds[c]
    BY <1>1
  <2>2. \A c \in Clients : cmds[c] \in Orders /\ Formed(cmds[c]) /\ Alike(cmds[c], cmds[c])
    BY <1>2 DEF RegistryTypes, Alike
  <2> QED
    BY <1>1, <2>1, <2>2, IdleIs DEF Resting
<1>6. RegistryTypes'
  BY <1>1, <1>2, <1>3, <1>4, <1>5, NothingComing DEF RegistryTypes
<1>7. ~Quiet' /\ (\A txn : ~Granted(wire', txn)) /\ Orderly' = Orderly /\ Len(wire') = 0
  BY <1>1, NothingComing DEF Quiet, Orderly
<1>8. Arriving' /\ Matched' /\ RenamesSeen'
  BY <1>1, <1>3, <1>5, <1>7 DEF RegistryInv, Arriving, Matched, RenamesSeen
<1>9. Captures' /\ Gone' /\ Forgotten'
  BY <1>1, <1>2, <1>4, <1>5, <1>7, CapturesRest, GoneRests, ForgottenRests DEF RegistryInv
<1>10. Saved' /\ Single' /\ NamesKept' /\ Sourced' /\ Mourned' /\ Listening'
  BY <1>1, <1>4, <1>7 DEF RegistryInv, Saved, Single, NamesKept, OnlyRole, Held, Sourced, Mourned, Listening
<1> QED
  BY <1>6, <1>8, <1>9, <1>10 DEF RegistryInv

\* A registry just read from its file.
LEMMA LoadedIs ==
  ASSUME file \in [roles : RoleMaps, others : Named]
  PROVE  /\ Loaded(file) \in Views /\ Loaded(file).roles = file.roles /\ Loaded(file).others = file.others
         /\ Loaded(file).listed = [d \in Devices |-> None]
         /\ Loaded(file).source = [r \in Roles |-> None] /\ Loaded(file).subs = {}
  BY DEF Loaded, Views, Named

LEMMA AllIdle ==
  ASSUME cmds' = [c \in Clients |-> Idle]
  PROVE  /\ cmds' \in [Clients -> Orders] /\ \A c \in Clients : cmds'[c] = Idle /\ Formed(cmds'[c])
         /\ \A c \in Clients : cmds'[c].op = "none" /\ cmds'[c].pc = "idle"
  BY IdleIs

LEMMA ProcessRestarts ==
  ASSUME RegistryInv, Restart
  PROVE  RegistryInv'
<1>1. /\ link' = "down" /\ wire' = <<>> /\ Trouble /\ loop' = "alive"
      /\ monitor' = Loaded(file)
      /\ cmds' = [c \in Clients |-> Idle]
      /\ past' = [past EXCEPT !.deaf = {}]
      /\ mesh' = mesh /\ asked' = asked /\ file' = file
  BY DEF Restart
<1>2. RegistryTypes /\ past \in Pasts
  BY DEF RegistryInv, RegistryTypes
<1>3. budget' \in [commands : Nat, trouble : Nat] /\ budget'.commands = budget.commands
  BY <1>1, <1>2, Troubled
<1>4. /\ monitor' \in Views /\ monitor'.roles = file.roles /\ monitor'.others = file.others
      /\ monitor'.source = [r \in Roles |-> None]
  BY <1>1, <1>2, LoadedIs DEF RegistryTypes
<1>5. /\ past' \in Pasts /\ past'.overtaken = past.overtaken /\ past'.unsaved = past.unsaved
      /\ past'.departed = past.departed /\ past'.removed = past.removed
  BY <1>1, <1>2 DEF Pasts
<1>6. RegistryTypes'
  BY <1>1, <1>2, <1>3, <1>4, <1>5, AllIdle, NothingComing DEF RegistryTypes
<1>7. ~Quiet' /\ Len(wire') = 0 /\ Orderly' = Orderly
  BY <1>1, <1>5, NothingComing DEF Quiet, Orderly
<1>8. Arriving' /\ Matched' /\ RenamesSeen'
  BY <1>1, <1>3, <1>7, AllIdle DEF RegistryInv, Arriving, Matched, RenamesSeen
<1>9. Captures' /\ Gone'
  BY <1>1, AllIdle DEF Captures, Gone, Found
<1>10. Forgotten'
  <2>1. ASSUME Orderly, NEW d \in past.removed
        PROVE  mesh[d] = None /\ RoleOf(d) = {} /\ monitor.others[d] = None
    BY <2>1 DEF RegistryInv, Forgotten, Barred
  <2>2. Orderly => file.roles = monitor.roles /\ file.others = monitor.others
    BY DEF RegistryInv, Saved, Orderly
  <2> QED
    BY <1>1, <1>4, <1>5, <1>7, <2>1, <2>2, AllIdle DEF Forgotten, Barred, RoleOf
<1>11. Saved' /\ NamesKept' /\ Sourced' /\ Mourned' /\ Listening'
  BY <1>1, <1>4, <1>7 DEF Saved, NamesKept, Sourced, Mourned, Listening
<1>12. Single'
  BY <1>4, <1>7 DEF RegistryInv, Saved, Single, OnlyRole, Held, Orderly
<1> QED
  BY <1>6, <1>8, <1>9, <1>10, <1>11, <1>12 DEF RegistryInv
-----------------------------------------------------------------------------
(* The bridge *)

\* What an answer and, when the network changed, an inventory add to the wire.
LEMMA InventoryIs ==
  ASSUME NEW after \in Named
  PROVE  /\ Inventory(after) \in Seq(News)
         /\ after = mesh => Inventory(after) = <<>> /\ Len(Inventory(after)) = 0
         /\ after # mesh => /\ Len(Inventory(after)) = 1 /\ Inventory(after)[1].kind = "devices"
                            /\ Inventory(after)[1].names = after
<1> DEFINE m == [kind |-> "devices", names |-> after]
<1>1. m \in News /\ m.kind = "devices" /\ m.names = after
  BY DEF News
<1> HIDE DEF m
<1>2. <<m>> \in Seq(News) /\ Len(<<m>>) = 1 /\ <<m>>[1] = m
  BY <1>1
<1>3. Inventory(after) = IF after = mesh THEN <<>> ELSE <<m>>
  BY DEF Inventory, m
<1> QED
  BY <1>1, <1>2, <1>3, NothingComing

\* The first elements of a sequence that is added, by their place.
LEMMA AddedAt ==
  ASSUME NEW w \in Seq(News), NEW v \in Seq(News)
  PROVE  /\ Len(v) >= 1 => (w \o v)[Len(w) + 1] = v[1]
         /\ Len(v) = 2 => (w \o v)[Len(w) + 2] = v[2]
<1>1. Len(w) \in Nat /\ Len(v) \in Nat /\ Len(w \o v) = Len(w) + Len(v)
  BY GrowOf
<1>2. \A i \in 1..Len(w \o v) : i > Len(w) => (w \o v)[i] = v[i - Len(w)]
  BY GrowOf
<1>3. ASSUME NEW k \in {1, 2}, Len(v) >= k
      PROVE  (w \o v)[Len(w) + k] = v[k]
  <2>1. Len(w) + k \in 1..Len(w \o v) /\ Len(w) + k > Len(w) /\ (Len(w) + k) - Len(w) = k
    BY <1>1, <1>3
  <2> QED
    BY <2>1, <1>2
<1> QED
  BY <1>3, <1>1

Served(after, m, first) ==
  wire \o (IF first THEN <<m>> \o Inventory(after) ELSE Inventory(after) \o <<m>>)
AnswerAt(after, first) == IF first \/ after = mesh THEN Len(wire) + 1 ELSE Len(wire) + 2
InventoryAt(first) == IF first THEN Len(wire) + 2 ELSE Len(wire) + 1

LEMMA ServedWire ==
  ASSUME wire \in Seq(News), NEW after \in Named, NEW m \in News, NEW first \in BOOLEAN
  PROVE  LET w == Served(after, m, first)
         IN  /\ Len(wire) \in Nat /\ w \in Seq(News)
             /\ Len(w) = IF after = mesh THEN Len(wire) + 1 ELSE Len(wire) + 2
             /\ \A i \in 1..Len(wire) : w[i] = wire[i]
             /\ w[AnswerAt(after, first)] = m
             /\ after # mesh => w[InventoryAt(first)].kind = "devices" /\ w[InventoryAt(first)].names = after
<1> DEFINE v == IF first THEN <<m>> \o Inventory(after) ELSE Inventory(after) \o <<m>>
           inv == Inventory(after)
<1>1. /\ inv \in Seq(News)
      /\ after = mesh => inv = <<>> /\ Len(inv) = 0
      /\ after # mesh => Len(inv) = 1 /\ inv[1].kind = "devices" /\ inv[1].names = after
  BY InventoryIs
<1> DEFINE one == <<m>>
<1>2. one \in Seq(News) /\ Len(one) = 1 /\ one[1] = m
  OBVIOUS
<1> HIDE DEF inv, one
<1>3. v = IF first THEN one \o inv ELSE inv \o one
  BY DEF inv, one
<1>4. /\ v \in Seq(News) /\ Len(v) = IF after = mesh THEN 1 ELSE 2
      /\ v[IF first \/ after = mesh THEN 1 ELSE 2] = m
      /\ after # mesh => LET e == v[IF first THEN 2 ELSE 1] IN e.kind = "devices" /\ e.names = after
  <2> HIDE DEF v
  <2>1. CASE first
    <3>1. v = one \o inv
      BY <2>1, <1>3
    <3>2. v \in Seq(News) /\ Len(v) = 1 + Len(inv) /\ v[1] = m
      <4>1. one \in Seq(News) /\ inv \in Seq(News) /\ 1 \in 1..Len(one)
        BY <1>1, <1>2
      <4>2. /\ one \o inv \in Seq(News) /\ Len(one \o inv) = Len(one) + Len(inv)
            /\ (one \o inv)[1] = one[1]
        BY ONLY <4>1, GrowOf
      <4> QED
        BY <3>1, <4>2, <1>2
    <3>3. Len(inv) = 1 => v[2] = inv[1]
      <4>1. one \in Seq(News) /\ inv \in Seq(News)
        BY <1>1, <1>2
      <4>2. Len(inv) = 1 => (one \o inv)[Len(one) + 1] = inv[1]
        BY ONLY <4>1, AddedAt
      <4>3. Len(inv) = 1 => v[Len(one) + 1] = inv[1]
        BY ONLY <3>1, <4>2
      <4>4. Len(one) + 1 = 2
        BY ONLY <1>2
      <4> QED
        BY ONLY <4>3, <4>4
    <3>4. CASE after = mesh
      BY ONLY <3>2, <3>4, <2>1, <1>1
    <3>5. CASE after # mesh
      <4>1. Len(v) = 2 /\ v[1] = m /\ v[2].kind = "devices" /\ v[2].names = after
        <5>1. Len(inv) = 1 /\ inv[1].kind = "devices" /\ inv[1].names = after
          BY ONLY <3>5, <1>1
        <5>2. v[2] = inv[1] /\ Len(v) = 2 /\ v[1] = m
          BY ONLY <3>2, <3>3, <5>1
        <5> QED
          BY ONLY <5>1, <5>2
      <4>2. (IF first THEN 2 ELSE 1) = 2 /\ (IF first \/ after = mesh THEN 1 ELSE 2) = 1
        BY ONLY <2>1
      <4> QED
        BY ONLY <4>1, <4>2, <3>2, <3>5
    <3> QED
      BY <3>4, <3>5
  <2>2. CASE ~first
    <3>1. v = inv \o one
      BY <2>2, <1>3
    <3>2. v \in Seq(News) /\ Len(v) = 1 + Len(inv) /\ v[Len(inv) + 1] = m
      <4>1. one \in Seq(News) /\ inv \in Seq(News) /\ Len(one) >= 1
        BY <1>1, <1>2
      <4>2. /\ inv \o one \in Seq(News) /\ Len(inv \o one) = Len(inv) + Len(one)
            /\ (inv \o one)[Len(inv) + 1] = one[1] /\ Len(inv) \in Nat
        BY ONLY <4>1, GrowOf, AddedAt
      <4> QED
        BY <3>1, <4>2, <1>2
    <3>3. Len(inv) = 1 => v[1] = inv[1]
      <4>1. one \in Seq(News) /\ inv \in Seq(News)
        BY <1>1, <1>2
      <4>2. Len(inv) = 1 => (inv \o one)[1] = inv[1]
        BY ONLY <4>1, GrowOf
      <4> QED
        BY <3>1, <4>2
    <3>4. CASE after = mesh
      BY ONLY <3>2, <3>4, <2>2, <1>1
    <3>5. CASE after # mesh
      BY ONLY <3>2, <3>3, <3>5, <2>2, <1>1
    <3> QED
      BY <3>4, <3>5
  <2> QED
    BY <2>1, <2>2
<1> HIDE DEF v
<1> DEFINE w == Served(after, m, first)
<1>5. w = wire \o v
  BY DEF v, Served
<1> HIDE DEF v, w
<1>6. /\ wire \in Seq(News) /\ v \in Seq(News)
      /\ Len(v) = (IF after = mesh THEN 1 ELSE 2) /\ Len(v) >= 1
  BY <1>4
<1>7. /\ Len(wire) \in Nat /\ w \in Seq(News) /\ Len(w) = Len(wire) + Len(v)
      /\ \A i \in 1..Len(wire) : w[i] = wire[i]
      /\ w[Len(wire) + 1] = v[1]
      /\ Len(v) = 2 => w[Len(wire) + 2] = v[2]
  BY ONLY <1>5, <1>6, GrowOf, AddedAt
<1>8. w[AnswerAt(after, first)] = m
  <2>1. CASE first \/ after = mesh
    BY <2>1, <1>4, <1>7 DEF AnswerAt
  <2>2. CASE ~(first \/ after = mesh)
    BY <2>2, <1>4, <1>7 DEF AnswerAt
  <2> QED
    BY <2>1, <2>2
<1>9. ASSUME after # mesh
      PROVE  w[InventoryAt(first)].kind = "devices" /\ w[InventoryAt(first)].names = after
  <2>1. CASE first
    BY <2>1, <1>4, <1>7, <1>9 DEF InventoryAt
  <2>2. CASE ~first
    BY <2>2, <1>4, <1>7, <1>9 DEF InventoryAt
  <2> QED
    BY <2>1, <2>2
<1>10. Len(w) = IF after = mesh THEN Len(wire) + 1 ELSE Len(wire) + 2
  BY <1>6, <1>7
<1> QED
  BY <1>7, <1>8, <1>9, <1>10 DEF w

\* A wire that only got longer.
Prolongs(w, v) == Len(w) \in Nat /\ Len(v) \in Nat /\ Len(w) <= Len(v) /\ \A i \in 1..Len(w) : v[i] = w[i]

LEMMA NearStays ==
  ASSUME NEW w, NEW v, Prolongs(w, v), NEW inv, NEW i \in 1..Len(w), NEW d, NEW n, Near(w, inv, i, d, n)
  PROVE  Near(v, inv, i, d, n)
<1>1. i \in 1..Len(v) /\ (i > 1 => i - 1 \in 1..Len(w)) /\ 1..Len(w) \subseteq 1..Len(v)
  BY DEF Prolongs
<1>2. \A j \in 1..Len(w) : v[j] = w[j]
  BY DEF Prolongs
<1> QED
  BY <1>1, <1>2 DEF Near, Inventoried

LEMMA StillNamed ==
  ASSUME OneName(mesh), mesh \in Named, NEW d \in Devices, NEW to \in Names \cup {None}, Free(to)
  PROVE  [mesh EXCEPT ![d] = to] \in Named /\ OneName([mesh EXCEPT ![d] = to])
<1> DEFINE after == [mesh EXCEPT ![d] = to]
<1>1. after \in Named /\ \A e \in Devices : after[e] = IF e = d THEN to ELSE mesh[e]
  BY DEF Named
<1>2. ASSUME NEW e \in Devices, NEW f \in Devices, after[e] = after[f], after[e] # None
      PROVE  e = f
  BY <1>1, <1>2 DEF OneName, Free
<1> HIDE DEF after
<1>3. OneName(after)
  BY <1>2 DEF OneName
<1> QED
  BY <1>1, <1>3 DEF after

\* The inventory that ends a longer wire is the network's.
LEMMA ArrivingGrows ==
  ASSUME RegistryInv, link' = link, loop' = loop, monitor' = monitor, OneName(mesh'),
         link = "down" => wire' = <<>>, link = "up" => Prolongs(wire, wire'),
         link = "up" => \A i \in 1..Len(wire') : i > Len(wire) /\ Inventoried(wire', i) => wire'[i].names = mesh',
         link = "up" /\ mesh' # mesh =>
           \E i \in 1..Len(wire') : i > Len(wire) /\ Inventoried(wire', i)
  PROVE  Arriving' /\ (Quiet' => Quiet)
<1>1. Arriving /\ link \in {"up", "down"}
  BY DEF RegistryInv, RegistryTypes
<1>2. CASE link = "down"
  <2>1. Len(wire') = 0 /\ ~Quiet'
    BY <1>2 DEF Quiet
  <2> QED
    BY <1>1, <1>2, <2>1 DEF Arriving
<1>3. CASE link = "up"
  <2>1. /\ Len(wire) \in Nat /\ Len(wire') \in Nat /\ Len(wire) <= Len(wire')
        /\ \A i \in 1..Len(wire) : wire'[i] = wire[i] /\ i \in 1..Len(wire')
    BY <1>3 DEF Prolongs
  <2>2. Quiet' => Quiet /\ mesh' = mesh
    BY <1>3, <2>1 DEF Quiet, Inventoried
  <2>3. ASSUME NEW i \in 1..Len(wire'), Inventoried(wire', i)
        PROVE  /\ OneName(wire'[i].names)
               /\ (\A j \in 1..Len(wire') : i < j => ~Inventoried(wire', j)) => wire'[i].names = mesh'
    <3>1. CASE i > Len(wire)
      BY <3>1, <2>3, <1>3
    <3>2. CASE i <= Len(wire)
      <4>1. i \in 1..Len(wire) /\ wire'[i] = wire[i] /\ Inventoried(wire, i)
        BY <3>2, <2>1, <2>3 DEF Inventoried
      <4>2. OneName(wire[i].names)
        BY <4>1, <1>1 DEF Arriving
      <4>3. ASSUME \A j \in 1..Len(wire') : i < j => ~Inventoried(wire', j)
            PROVE  wire'[i].names = mesh'
        <5>1. mesh' = mesh
          BY <4>3, <4>1, <2>1, <1>3
        <5>2. \A j \in 1..Len(wire) : i < j => ~Inventoried(wire, j)
          BY <4>3, <2>1 DEF Inventoried
        <5> QED
          BY <5>1, <5>2, <4>1, <1>1 DEF Arriving
      <4> QED
        BY <4>1, <4>2, <4>3
    <3> QED
      BY <3>1, <3>2, <2>1
  <2> QED
    BY <1>1, <1>3, <2>2, <2>3 DEF Arriving
<1> QED
  BY <1>1, <1>2, <1>3

LEMMA NetworkChangesKeeps ==
  ASSUME RegistryInv, NEW d \in Devices, NEW to \in Names \cup {None}, NetworkChanges(d, to)
  PROVE  RegistryInv'
<1> DEFINE after == [mesh EXCEPT ![d] = to]
           overtaken == {c \in Clients : cmds[c].op = "remove" /\ cmds[c].dev = d}
<1>1. /\ mesh[d] # to /\ Free(to) /\ Trouble /\ mesh' = after
      /\ wire' = IF link = "down" THEN <<>> ELSE wire \o Inventory(after)
      /\ asked' = asked /\ link' = link /\ loop' = loop /\ monitor' = monitor /\ file' = file
      /\ mesh[d] # None => past' = past /\ cmds' = cmds
      /\ mesh[d] = None => past' = [past EXCEPT !.removed = @ \ {d}] /\ cmds' = Stale(overtaken)
  BY DEF NetworkChanges
<1>2. /\ RegistryTypes /\ past \in Pasts /\ mesh \in Named /\ OneName(mesh) /\ wire \in Seq(News)
      /\ link \in {"up", "down"} /\ cmds \in [Clients -> Orders]
      /\ link = "down" => wire = <<>>
  BY DEF RegistryInv, RegistryTypes, Arriving
<1>3. budget' \in [commands : Nat, trouble : Nat] /\ budget'.commands = budget.commands
  BY <1>1, <1>2, Troubled
<1>4. /\ after \in Named /\ OneName(after) /\ after # mesh
      /\ \A e \in Devices : after[e] = IF e = d THEN to ELSE mesh[e]
  BY <1>1, <1>2, StillNamed DEF Named
<1> HIDE DEF after
<1>5. /\ past' \in Pasts /\ past'.overtaken = past.overtaken /\ past'.unsaved = past.unsaved
      /\ past'.departed = past.departed /\ past'.deaf = past.deaf
      /\ past'.removed = IF mesh[d] = None THEN past.removed \ {d} ELSE past.removed
  BY <1>1, <1>2 DEF Pasts
<1>6. /\ cmds' \in [Clients -> Orders]
      /\ \A c \in Clients : Alike(cmds[c], cmds'[c])
      /\ mesh[d] = None => \A c \in overtaken : cmds'[c].stale
  <2>1. CASE mesh[d] = None
    <3>1. overtaken \subseteq Clients /\ cmds' = Stale(overtaken)
      BY <2>1, <1>1
    <3> HIDE DEF overtaken
    <3> QED
      BY <3>1, <1>2, StaleIs
  <2>2. CASE mesh[d] # None
    BY <2>2, <1>1, <1>2 DEF Alike
  <2> QED
    BY <2>1, <2>2
<1>7. Resting /\ \A c \in Clients : Formed(cmds'[c])
  BY <1>2, <1>6, AlikeFormed DEF Resting, RegistryTypes
<1>8. /\ wire' \in Seq(News)
      /\ link = "up" => /\ Prolongs(wire, wire') /\ Len(wire') = Len(wire) + 1
                         /\ wire'[Len(wire) + 1].kind = "devices" /\ wire'[Len(wire) + 1].names = after
  <2> DEFINE inv == Inventory(after)
  <2>1. inv \in Seq(News) /\ Len(inv) = 1 /\ inv[1].kind = "devices" /\ inv[1].names = after
    BY <1>4, InventoryIs
  <2> HIDE DEF inv
  <2>2. wire \in Seq(News) /\ inv \in Seq(News)
    BY <1>2, <2>1
  <2>3. /\ wire \o inv \in Seq(News) /\ Len(wire \o inv) = Len(wire) + Len(inv) /\ Len(wire) \in Nat
        /\ \A i \in 1..Len(wire) : (wire \o inv)[i] = wire[i]
        /\ Len(inv) >= 1 => (wire \o inv)[Len(wire) + 1] = inv[1]
    BY ONLY <2>2, GrowOf, AddedAt
  <2>4. CASE link = "down"
    BY <2>4, <1>1, NothingComing
  <2>5. CASE link = "up"
    <3>1. wire' = wire \o inv
      BY <2>5, <1>1 DEF inv
    <3>2. /\ wire' \in Seq(News) /\ Len(wire') = Len(wire) + 1 /\ Len(wire) \in Nat
          /\ \A i \in 1..Len(wire) : wire'[i] = wire[i]
          /\ wire'[Len(wire) + 1] = inv[1]
      BY ONLY <3>1, <2>1, <2>3
    <3> QED
      BY ONLY <3>2, <2>1 DEF Prolongs
  <2> QED
    BY <2>4, <2>5, <1>2
<1>9. RegistryTypes'
  BY <1>1, <1>2, <1>3, <1>4, <1>5, <1>6, <1>7, <1>8 DEF RegistryTypes
<1>10. /\ link = "down" => Len(wire') = 0
       /\ link = "up" => \A i \in 1..Len(wire') : i > Len(wire) => i = Len(wire) + 1
       /\ link = "up" => Len(wire) + 1 \in 1..Len(wire') /\ Len(wire) + 1 > Len(wire)
  BY <1>1, <1>8 DEF Prolongs
<1>11. Arriving' /\ (Quiet' => Quiet)
  BY <1>1, <1>4, <1>8, <1>10, ArrivingGrows DEF Inventoried
<1>12. /\ Orderly' = Orderly
       /\ \A txn : Granted(wire', txn) => Granted(wire, txn)
  <2>1. CASE link = "down"
    BY <2>1, <1>5, <1>10 DEF Orderly, Granted
  <2>2. CASE link = "up"
    BY <2>2, <1>5, <1>8, <1>10 DEF Orderly, Granted, AnsweredAt, Prolongs
  <2> QED
    BY <2>1, <2>2, <1>2
<1>13. Matched'
  <2>1. ASSUME NEW i \in 1..Len(wire'), wire'[i].kind = "response"
        PROVE  wire'[i].txn > budget.commands
    <3>1. link = "up" /\ i \in 1..Len(wire) /\ wire'[i] = wire[i]
      BY <2>1, <1>2, <1>8, <1>10 DEF Prolongs
    <3> QED
      BY <2>1, <3>1 DEF RegistryInv, Matched
  <2>2. \A c \in Clients : cmds'[c].pc = cmds[c].pc /\ cmds'[c].txn = cmds[c].txn /\ cmds'[c].op = cmds[c].op
                             /\ cmds'[c].dev = cmds[c].dev /\ cmds'[c].to = cmds[c].to
    BY <1>6 DEF Alike
  <2> QED
    BY <2>1, <2>2, <1>1, <1>3 DEF RegistryInv, Matched
<1>14. RenamesSeen'
  <2>1. ASSUME NEW c \in Clients, cmds'[c].op = "rename", cmds'[c].pc = "waiting",
               NEW i \in 1..Len(wire'), AnsweredAt(wire', i, cmds'[c].txn)
        PROVE  Near(wire', monitor'.listed, i, cmds'[c].dev, cmds'[c].to)
    <3>1. link = "up" /\ i \in 1..Len(wire) /\ i < Len(wire) + 1
      BY <2>1, <1>2, <1>8, <1>10 DEF Prolongs, AnsweredAt
    <3> QED
      BY <3>1, <1>8, <1>10 DEF Near, Inventoried
  <2>2. ASSUME NEW c \in Clients, cmds'[c].op = "rename", cmds'[c].pc = "writing", ~cmds'[c].stale, Quiet'
        PROVE  monitor'.listed[cmds'[c].dev] = cmds'[c].to
    BY <2>2, <1>1, <1>6, <1>11 DEF RegistryInv, RenamesSeen, Alike
  <2> QED
    BY <2>1, <2>2 DEF RenamesSeen
<1>15. Captures'
  BY <1>1, <1>7, <1>12, CapturesRest DEF RegistryInv
<1>16. Gone'
  <2>1. ASSUME NEW c \in Clients, cmds'[c].op = "remove", ~cmds'[c].stale, mesh[cmds[c].dev] = None
        PROVE  mesh'[cmds[c].dev] = None
    <3>1. cmds[c].op = "remove" /\ cmds[c].dev \in Devices
      BY <2>1, <1>2, <1>6 DEF Alike, RegistryTypes, Formed
    <3>2. cmds[c].dev # d
      BY <3>1, <2>1, <1>6
    <3> QED
      BY <3>1, <3>2, <2>1, <1>1, <1>4
  <2> QED
    BY <2>1, <1>1, <1>2, <1>7, <1>12, GoneRests DEF RegistryInv
<1>17. Forgotten'
  <2>1. past'.removed \subseteq past.removed
    BY <1>5
  <2>2. ASSUME NEW e \in past'.removed, mesh[e] = None
        PROVE  mesh'[e] = None
    <3>1. past.removed \subseteq Devices
      BY <1>2 DEF Pasts
    <3>2. e \in Devices /\ e # d
      BY <3>1, <2>2, <1>5
    <3> QED
      BY <3>2, <2>2, <1>1, <1>4
  <2> QED
    BY <2>1, <2>2, <1>1, <1>7, <1>12, ForgottenRests DEF RegistryInv
<1>18. Saved' /\ Single' /\ NamesKept' /\ Sourced' /\ Mourned' /\ Listening'
  <2>1. Saved' /\ Single' /\ Sourced' /\ Mourned'
    BY <1>1, <1>5, <1>12 DEF RegistryInv, Saved, Single, OnlyRole, Held, Sourced, Mourned
  <2>2. NamesKept' /\ Listening'
    BY <1>1, <1>5, <1>11, <1>12 DEF RegistryInv, NamesKept, Held, Listening, Topics
  <2> QED
    BY <2>1, <2>2
<1> QED
  BY <1>9, <1>11, <1>13, <1>14, <1>15, <1>16, <1>17, <1>18 DEF RegistryInv
LEMMA ServeKeeps ==
  ASSUME RegistryInv, NEW q \in asked, NEW ok \in BOOLEAN, NEW first \in BOOLEAN, Serve(q, ok, first)
  PROVE  RegistryInv'
<1> DEFINE to == IF q.op = "rename" THEN q.to ELSE None
           after == IF ~ok \/ q.op = "assign" THEN mesh ELSE [mesh EXCEPT ![q.dev] = to]
           m == [kind |-> "response", txn |-> q.txn, ok |-> ok]
           n == Len(wire)
           at == AnswerAt(after, first)
           new == InventoryAt(first)
<1>1. /\ ok => mesh[q.dev] # None /\ (q.op = "rename" => Free(q.to))
      /\ asked' = asked \ {q} /\ mesh' = after
      /\ wire' = IF link = "down" THEN <<>> ELSE Served(after, m, first)
      /\ link' = link /\ loop' = loop /\ monitor' = monitor /\ file' = file /\ cmds' = cmds
      /\ past' = past /\ budget' = budget
  BY DEF Serve, Served
<1>2. /\ RegistryTypes /\ mesh \in Named /\ OneName(mesh) /\ wire \in Seq(News)
      /\ link \in {"up", "down"} /\ q \in Queries /\ asked \subseteq Queries
      /\ link = "down" => wire = <<>>
  BY DEF RegistryInv, RegistryTypes, Arriving
<1>3. /\ q.op \in {"assign", "rename", "remove"} /\ q.dev \in Devices /\ q.to \in Names \cup {None}
      /\ q.txn \in Nat
  BY <1>2 DEF Queries
<1>4. /\ after \in Named /\ OneName(after)
      /\ \A d \in Devices : d # q.dev \/ ~ok => after[d] = mesh[d]
      /\ ok /\ q.op # "assign" => after[q.dev] = to
  <2>1. to \in Names \cup {None}
    BY <1>3
  <2>2. CASE ~ok \/ q.op = "assign"
    BY <2>2, <1>2
  <2>3. CASE ok /\ q.op # "assign"
    <3>1. Free(to)
      BY <2>3, <1>1 DEF Free
    <3> HIDE DEF to
    <3>2. after = [mesh EXCEPT ![q.dev] = to]
      BY <2>3
    <3>3. [mesh EXCEPT ![q.dev] = to] \in Named /\ OneName([mesh EXCEPT ![q.dev] = to])
      BY <2>1, <3>1, <1>2, <1>3, StillNamed
    <3> QED
      BY <3>2, <3>3, <2>3, <1>2, <1>3 DEF Named
  <2> QED
    BY <2>2, <2>3
<1>5. m \in News /\ m.kind = "response" /\ m.txn = q.txn /\ m.ok = ok
  BY <1>3 DEF News
<1> HIDE DEF to, after, m
<1>6. link = "up" =>
        /\ wire' \in Seq(News) /\ Len(wire') = (IF after = mesh THEN n + 1 ELSE n + 2) /\ n \in Nat
        /\ \A i \in 1..n : wire'[i] = wire[i]
        /\ wire'[at] = m
        /\ after # mesh => wire'[new].kind = "devices" /\ wire'[new].names = after
  <2> DEFINE w == Served(after, m, first)
  <2>1. wire \in Seq(News) /\ after \in Named /\ m \in News
    BY <1>2, <1>4, <1>5
  <2>2. /\ w \in Seq(News) /\ Len(w) = (IF after = mesh THEN n + 1 ELSE n + 2) /\ n \in Nat
        /\ \A i \in 1..n : w[i] = wire[i]
        /\ w[at] = m
        /\ after # mesh => w[new].kind = "devices" /\ w[new].names = after
    BY ONLY <2>1, ServedWire
  <2>3. link = "up" => wire' = w
    BY <1>1
  <2> HIDE DEF w
  <2> QED
    BY ONLY <2>2, <2>3
<1>7. link = "up" =>
        /\ Prolongs(wire, wire') /\ at \in 1..Len(wire') /\ at > n
        /\ \A i \in 1..Len(wire') : i > n => i = at \/ (i = new /\ after # mesh)
        /\ after # mesh => new \in 1..Len(wire') /\ new > n
                           /\ (first => at < new) /\ (~first => at > 1 /\ new = at - 1)
  BY <1>6 DEF Prolongs, AnswerAt, InventoryAt
<1>8. wire' \in Seq(News) /\ (link = "down" => Len(wire') = 0 /\ wire' = <<>>)
  BY <1>1, <1>2, <1>6, NothingComing
<1> HIDE DEF at, new, n
<1>9. RegistryTypes'
  BY <1>1, <1>2, <1>4, <1>8 DEF RegistryTypes
<1>10. Arriving' /\ (Quiet' => Quiet)
  <2>1. ASSUME link = "up", NEW i \in 1..Len(wire'), i > Len(wire), Inventoried(wire', i)
        PROVE  wire'[i].names = mesh'
    BY <2>1, <1>1, <1>5, <1>6, <1>7 DEF Inventoried, n
  <2>2. link = "up" /\ mesh' # mesh => \E i \in 1..Len(wire') : i > Len(wire) /\ Inventoried(wire', i)
    BY <1>1, <1>6, <1>7 DEF Inventoried, n
  <2> QED
    BY <2>1, <2>2, <1>1, <1>4, <1>7, <1>8, ArrivingGrows
<1>11. Orderly' = Orderly
  BY <1>1 DEF Orderly
<1>12. \A txn : Granted(wire', txn) => Granted(wire, txn) \/ (ok /\ txn = q.txn)
  <2>1. ASSUME NEW txn, NEW i \in 1..Len(wire'), AnsweredAt(wire', i, txn)
        PROVE  Granted(wire, txn) \/ (ok /\ txn = q.txn)
    <3>1. link = "up"
      BY <1>2, <1>8
    <3>2. CASE i > n
      <4>1. i = at
        BY <3>1, <3>2, <2>1, <1>6, <1>7 DEF AnsweredAt
      <4> QED
        BY <4>1, <3>1, <2>1, <1>5, <1>6 DEF AnsweredAt
    <3>3. CASE i <= n
      <4>1. i \in 1..Len(wire) /\ wire'[i] = wire[i]
        BY <3>1, <3>3, <1>6, <1>7 DEF n, Prolongs
      <4> QED
        BY <4>1, <2>1 DEF Granted, AnsweredAt
    <3> QED
      BY <3>1, <3>2, <3>3, <1>6, <1>7 DEF Prolongs, n
  <2> QED
    BY <2>1 DEF Granted
<1>13. /\ q.txn > budget.commands
       /\ \A c \in Clients : cmds[c].pc = "waiting" /\ cmds[c].txn = q.txn =>
            q.op = cmds[c].op /\ q.dev = cmds[c].dev /\ q.to = cmds[c].to
  BY DEF RegistryInv, Matched
<1>14. Matched'
  <2>1. ASSUME NEW i \in 1..Len(wire'), wire'[i].kind = "response"
        PROVE  wire'[i].txn > budget.commands
    <3>1. link = "up"
      BY <1>2, <1>8
    <3>2. CASE i > n
      BY <3>1, <3>2, <2>1, <1>5, <1>6, <1>7, <1>13
    <3>3. CASE i <= n
      <4>1. i \in 1..Len(wire) /\ wire'[i] = wire[i]
        BY <3>1, <3>3, <1>6, <1>7 DEF n, Prolongs
      <4> QED
        BY <4>1, <2>1 DEF RegistryInv, Matched
    <3> QED
      BY <3>1, <3>2, <3>3, <1>6, <1>7 DEF Prolongs, n
  <2> QED
    BY <2>1, <1>1 DEF RegistryInv, Matched
<1>15. RenamesSeen'
  <2>1. ASSUME NEW c \in Clients, cmds[c].op = "rename", cmds[c].pc = "waiting",
               NEW i \in 1..Len(wire'), AnsweredAt(wire', i, cmds[c].txn)
        PROVE  Near(wire', monitor.listed, i, cmds[c].dev, cmds[c].to)
    <3>1. link = "up"
      BY <1>2, <1>8
    <3>2. CASE i <= n
      <4>1. i \in 1..Len(wire) /\ wire'[i] = wire[i]
        BY <3>1, <3>2, <1>6, <1>7 DEF n, Prolongs
      <4>2. Near(wire, monitor.listed, i, cmds[c].dev, cmds[c].to)
        BY <4>1, <2>1 DEF RegistryInv, RenamesSeen, AnsweredAt
      <4> QED
        BY <3>1, <4>1, <4>2, <1>7, NearStays
    <3>3. CASE i > n
      <4>1. i = at /\ ok /\ cmds[c].txn = q.txn
        BY <3>1, <3>3, <2>1, <1>5, <1>6, <1>7 DEF AnsweredAt
      <4>2. q.op = "rename" /\ q.dev = cmds[c].dev /\ q.to = cmds[c].to
        BY <4>1, <2>1, <1>13
      <4>3. cmds[c].to \in Names
        BY <2>1, <1>2 DEF RegistryTypes, Formed
      <4>4. after[q.dev] = q.to
        BY <4>1, <4>2, <1>4 DEF to
      <4>5. mesh[q.dev] # q.to
        BY <4>1, <4>2, <4>3, <1>1, <1>3, ZigbeeAssumption DEF Free
      <4>6. after # mesh
        BY <4>4, <4>5
      <4>7. CASE first
        BY <3>1, <4>1, <4>6, <4>7, <1>6, <1>7 DEF Near, Inventoried
      <4>8. CASE ~first
        BY <3>1, <4>1, <4>2, <4>4, <4>6, <4>8, <1>6, <1>7 DEF Near, Inventoried
      <4> QED
        BY <4>7, <4>8
    <3> QED
      BY <3>1, <3>2, <3>3, <1>6, <1>7 DEF Prolongs, n
  <2>2. ASSUME NEW c \in Clients, cmds[c].op = "rename", cmds[c].pc = "writing", ~cmds[c].stale, Quiet'
        PROVE  monitor.listed[cmds[c].dev] = cmds[c].to
    BY <2>2, <1>10 DEF RegistryInv, RenamesSeen
  <2> QED
    BY <2>1, <2>2, <1>1 DEF RenamesSeen
<1>16. Resting
  BY <1>1 DEF Resting, Alike
<1>17. Captures'
  BY <1>1, <1>11, <1>16, CapturesRest DEF RegistryInv
<1>18. ASSUME NEW d \in Devices, mesh[d] = None
       PROVE  after[d] = None /\ (ok => q.dev # d)
  BY <1>18, <1>1, <1>4
<1>19. ASSUME NEW d \in Devices, Barred(d)
       PROVE  Barred(d)'
  <2>1. mesh[d] = None
    BY <1>19 DEF Barred
  <2>2. ASSUME NEW c \in Clients, cmds[c].op = "assign", cmds[c].dev = d, ~cmds[c].stale
        PROVE  cmds[c].pc = "waiting" /\ ~Granted(wire', cmds[c].txn)
    <3>1. cmds[c].pc = "waiting" /\ ~Granted(wire, cmds[c].txn)
      BY <2>2, <1>19 DEF Barred
    <3>2. ~(ok /\ cmds[c].txn = q.txn)
      BY <3>1, <2>1, <2>2, <1>13, <1>18
    <3> QED
      BY <3>1, <3>2, <1>12
  <2> QED
    BY <2>1, <2>2, <1>1, <1>18 DEF Barred
<1>20. Gone'
  <2>1. ASSUME NEW c \in Clients, cmds[c].op = "remove", ~cmds[c].stale,
               cmds[c].pc = "writing" \/ Granted(wire', cmds[c].txn)
        PROVE  mesh'[cmds[c].dev] = None
    <3>1. cmds[c].dev \in Devices /\ cmds[c].pc \in {"waiting", "writing"}
      BY <2>1, <1>2 DEF RegistryTypes, Formed, Orders
    <3>2. CASE cmds[c].pc = "writing" \/ Granted(wire, cmds[c].txn)
      BY <3>1, <3>2, <2>1, <1>1, <1>18 DEF RegistryInv, Gone
    <3>3. CASE ~(cmds[c].pc = "writing" \/ Granted(wire, cmds[c].txn))
      <4>1. ok /\ cmds[c].txn = q.txn /\ cmds[c].pc = "waiting"
        BY <3>1, <3>3, <2>1, <1>12
      <4>2. q.op = "remove" /\ q.dev = cmds[c].dev
        BY <4>1, <2>1, <1>13
      <4> QED
        BY <4>1, <4>2, <1>1, <1>4 DEF to
    <3> QED
      BY <3>2, <3>3
  <2>2. ASSUME NEW c \in Clients, cmds[c].op = "remove", ~cmds[c].stale, Orderly, cmds[c].todo = <<"drop">>
        PROVE  Barred(cmds[c].dev)' /\ RoleOf(cmds[c].dev)' = {}
    <3>1. cmds[c].dev \in Devices /\ Barred(cmds[c].dev) /\ RoleOf(cmds[c].dev) = {}
      BY <2>2, <1>2 DEF RegistryInv, Gone, RegistryTypes, Formed
    <3> DEFINE d == cmds[c].dev
    <3>2. d' = d
      BY <1>1
    <3>3. \A e \in Devices : Barred(e) => Barred(e)'
      BY <1>19
    <3> QED
      BY <3>1, <3>2, <3>3, <1>1 DEF RoleOf, Barred
  <2> QED
    BY <2>1, <2>2, <1>1, <1>11 DEF Gone
<1>21. Forgotten'
  <2>1. past.removed \subseteq Devices
    BY <1>2 DEF RegistryTypes, Pasts
  <2> QED
    BY <2>1, <1>1, <1>11, <1>19 DEF RegistryInv, Forgotten, RoleOf
<1>22. Saved' /\ Single' /\ Sourced' /\ Mourned'
  BY <1>1, <1>11 DEF RegistryInv, Saved, Single, OnlyRole, Held, Sourced, Mourned
<1>23. NamesKept' /\ Listening'
  BY <1>1, <1>10, <1>11 DEF RegistryInv, NamesKept, Held, Listening, Topics
<1> QED
  BY <1>9, <1>10, <1>14, <1>15, <1>17, <1>20, <1>21, <1>22, <1>23 DEF RegistryInv
-----------------------------------------------------------------------------
(* The network thread *)

\* A response that was the first message.
LEMMA Shifted ==
  ASSUME RegistryTypes, wire # <<>>, wire' = Tail(wire)
  PROVE  /\ wire' \in Seq(News) /\ Len(wire) \in Nat /\ Len(wire') = Len(wire) - 1 /\ 1 \in 1..Len(wire)
         /\ Head(wire) = wire[1] /\ Head(wire) \in News
         /\ \A i \in 1..Len(wire') : i + 1 \in 1..Len(wire) /\ wire'[i] = wire[i + 1]
         /\ \A i \in 1..Len(wire) : i = 1 \/ (i - 1 \in 1..Len(wire') /\ wire'[i - 1] = wire[i])
  BY PopOf DEF RegistryTypes

LEMMA GrantsPass ==
  ASSUME RegistryTypes, wire # <<>>, wire' = Tail(wire)
  PROVE  \A txn : Granted(wire', txn) => Granted(wire, txn)
  BY Shifted DEF Granted, AnsweredAt

LEMMA AnswerPops ==
  ASSUME RegistryInv, wire # <<>>, ~Inventoried(wire, 1), wire' = Tail(wire), link' = link, loop' = loop,
         monitor' = monitor, mesh' = mesh
  PROVE  Arriving' /\ (Quiet' => Quiet)
<1>1. RegistryTypes /\ Arriving
  BY DEF RegistryInv
<1>2. /\ Len(wire) \in Nat /\ Len(wire') \in Nat
      /\ \A i \in 1..Len(wire') : i \in Nat /\ i + 1 \in 1..Len(wire) /\ wire'[i] = wire[i + 1]
      /\ \A i \in 1..Len(wire) : i = 1 \/ (i - 1 \in 1..Len(wire') /\ wire'[i - 1] = wire[i])
  BY <1>1, Shifted DEF RegistryTypes
<1>3. Quiet' => Quiet
  BY <1>2 DEF Quiet, Inventoried
<1>4. ASSUME NEW i \in 1..Len(wire'), Inventoried(wire', i)
      PROVE  /\ OneName(wire'[i].names)
             /\ (\A j \in 1..Len(wire') : i < j => ~Inventoried(wire', j)) => wire'[i].names = mesh
  <2>1. i + 1 \in 1..Len(wire) /\ Inventoried(wire, i + 1) /\ wire'[i] = wire[i + 1]
    BY <1>2, <1>4 DEF Inventoried
  <2>2. ASSUME \A j \in 1..Len(wire') : i < j => ~Inventoried(wire', j), NEW k \in 1..Len(wire), i + 1 < k
        PROVE  ~Inventoried(wire, k)
    <3>1. k - 1 \in 1..Len(wire') /\ wire'[k - 1] = wire[k] /\ i < k - 1
      BY <1>2, <2>2
    <3> QED
      BY <3>1, <2>2 DEF Inventoried
  <2> QED
    BY <2>1, <2>2, <1>1 DEF Arriving
<1>5. link = "down" => wire' = <<>>
  BY <1>1 DEF Arriving
<1> QED
  BY <1>1, <1>3, <1>4, <1>5 DEF Arriving

LEMMA HandleResponseKeeps ==
  ASSUME RegistryInv, HandleResponse
  PROVE  RegistryInv'
<1> DEFINE m == Head(wire)
           woken(c) == cmds[c].pc = "waiting" /\ cmds[c].txn = m.txn
<1>1. /\ loop = "alive" /\ wire # <<>> /\ m.kind = "response" /\ wire' = Tail(wire)
      /\ cmds' = [c \in Clients |->
           IF ~woken(c) THEN cmds[c]
           ELSE IF m.ok /\ cmds[c].todo # <<>> THEN [cmds[c] EXCEPT !.pc = "writing"] ELSE Idle]
      /\ mesh' = mesh /\ asked' = asked /\ link' = link /\ loop' = loop /\ monitor' = monitor
      /\ file' = file /\ past' = past /\ budget' = budget
  BY DEF HandleResponse
<1>2. /\ RegistryTypes /\ wire \in Seq(News)
      /\ \A c \in Clients : cmds[c] \in Orders /\ Formed(cmds[c])
  BY DEF RegistryInv, RegistryTypes
<1>3. /\ wire' \in Seq(News) /\ Len(wire) \in Nat /\ 1 \in 1..Len(wire) /\ m = wire[1]
      /\ \A i \in 1..Len(wire') : i \in Nat /\ i + 1 \in 1..Len(wire) /\ wire'[i] = wire[i + 1]
      /\ \A i \in 1..Len(wire) : i = 1 \/ (i - 1 \in 1..Len(wire') /\ wire'[i - 1] = wire[i])
  BY <1>1, <1>2, Shifted
<1>4. ~Inventoried(wire, 1) /\ (m.ok => AnsweredAt(wire, 1, m.txn))
  BY <1>1, <1>3 DEF Inventoried, AnsweredAt
<1>5. ASSUME NEW c \in Clients
      PROVE  \/ cmds'[c] = cmds[c] /\ ~woken(c)
             \/ cmds'[c] = Idle
             \/ woken(c) /\ m.ok /\ cmds[c].todo # <<>> /\ cmds'[c] = [cmds[c] EXCEPT !.pc = "writing"]
  BY <1>1
<1> HIDE DEF m, woken
<1>6. ASSUME NEW c \in Clients
      PROVE  /\ cmds'[c] \in Orders /\ Formed(cmds'[c])
             /\ \/ cmds'[c] = Idle
                \/ /\ cmds'[c].op = cmds[c].op /\ cmds'[c].dev = cmds[c].dev /\ cmds'[c].name = cmds[c].name
                   /\ cmds'[c].to = cmds[c].to /\ cmds'[c].roles = cmds[c].roles
                   /\ cmds'[c].todo = cmds[c].todo /\ cmds'[c].txn = cmds[c].txn
                   /\ cmds'[c].stale = cmds[c].stale
                   /\ \/ cmds'[c].pc = cmds[c].pc
                      \/ cmds'[c].pc = "writing" /\ cmds[c].pc = "waiting" /\ Granted(wire, cmds[c].txn)
                         /\ m.ok /\ cmds[c].txn = m.txn
  <2>1. CASE woken(c) /\ m.ok /\ cmds[c].todo # <<>> /\ cmds'[c] = [cmds[c] EXCEPT !.pc = "writing"]
    <3> DEFINE new == [cmds[c] EXCEPT !.pc = "writing"]
    <3>1. /\ new \in Orders /\ new.pc = "writing" /\ new.op = cmds[c].op /\ new.dev = cmds[c].dev
          /\ new.name = cmds[c].name /\ new.to = cmds[c].to /\ new.roles = cmds[c].roles
          /\ new.todo = cmds[c].todo /\ new.txn = cmds[c].txn /\ new.stale = cmds[c].stale
      BY <1>2 DEF Orders
    <3> HIDE DEF new
    <3>2. cmds[c].pc = "waiting" /\ cmds[c].txn = m.txn
      BY <2>1 DEF woken
    <3>3. Formed(new)
      BY <3>1, <3>2, <2>1, <1>2 DEF Formed
    <3>4. Granted(wire, cmds[c].txn)
      BY <3>2, <2>1, <1>3, <1>4 DEF Granted
    <3>5. cmds'[c] = new
      BY <2>1 DEF new
    <3> QED
      BY <3>1, <3>2, <3>3, <3>4, <3>5, <2>1
  <2>2. CASE cmds'[c] = cmds[c]
    BY <2>2, <1>2
  <2>3. CASE cmds'[c] = Idle
    BY <2>3, IdleIs
  <2> QED
    BY <2>1, <2>2, <2>3, <1>5
<1>7. cmds' \in [Clients -> Orders]
  BY <1>1, <1>6
<1>8. RegistryTypes'
  BY <1>1, <1>2, <1>3, <1>6, <1>7 DEF RegistryTypes
<1>9. Arriving' /\ (Quiet' => Quiet)
  BY <1>1, <1>4, AnswerPops
<1>10. /\ Orderly' = Orderly
       /\ \A txn : Granted(wire', txn) => Granted(wire, txn)
  BY <1>1, <1>2, GrantsPass DEF Orderly
<1>11. Matched'
  <2>1. \A i \in 1..Len(wire') : wire'[i].kind = "response" => wire'[i].txn > budget.commands
    BY <1>3 DEF RegistryInv, Matched
  <2>2. \A c \in Clients : cmds'[c].pc = "waiting" =>
          /\ cmds[c].pc = "waiting" /\ cmds'[c].txn = cmds[c].txn /\ cmds'[c].op = cmds[c].op
          /\ cmds'[c].dev = cmds[c].dev /\ cmds'[c].to = cmds[c].to
    BY <1>6, IdleIs
  <2> QED
    BY <2>1, <2>2, <1>1 DEF RegistryInv, Matched
<1>12. RenamesSeen'
  <2>1. ASSUME NEW c \in Clients, cmds'[c].op = "rename", cmds'[c].pc = "waiting",
               NEW i \in 1..Len(wire'), AnsweredAt(wire', i, cmds'[c].txn)
        PROVE  Near(wire', monitor.listed, i, cmds'[c].dev, cmds'[c].to)
    <3>1. /\ cmds[c].op = "rename" /\ cmds[c].pc = "waiting" /\ cmds'[c].txn = cmds[c].txn
          /\ cmds'[c].dev = cmds[c].dev /\ cmds'[c].to = cmds[c].to
      BY <2>1, <1>6, IdleIs
    <3>2. i \in Nat /\ i + 1 \in 1..Len(wire) /\ AnsweredAt(wire, i + 1, cmds[c].txn)
      BY <2>1, <3>1, <1>3 DEF AnsweredAt
    <3>3. Near(wire, monitor.listed, i + 1, cmds[c].dev, cmds[c].to)
      BY <3>1, <3>2 DEF RegistryInv, RenamesSeen
    <3>4. CASE \E j \in 1..Len(wire) : i + 1 < j /\ Inventoried(wire, j)
      <4>1. PICK j \in 1..Len(wire) : i + 1 < j /\ Inventoried(wire, j)
        BY <3>4
      <4>2. j - 1 \in 1..Len(wire') /\ i < j - 1 /\ Inventoried(wire', j - 1)
        BY <4>1, <3>2, <1>3 DEF Inventoried
      <4> QED
        BY <4>2 DEF Near
    <3>5. CASE i + 1 > 1 /\ Inventoried(wire, i) /\ wire[i].names[cmds[c].dev] = cmds[c].to
      <4>1. i # 1
        BY <3>5, <1>4
      <4>2. i > 1 /\ i \in 1..Len(wire)
        BY <4>1, <2>1, <3>2, <1>3
      <4>3. wire'[i - 1] = wire[i]
        BY <4>2, <1>3
      <4> QED
        BY <4>2, <4>3, <3>1, <3>5 DEF Near, Inventoried
    <3>6. i + 1 # 1 /\ (i + 1) - 1 = i
      BY <3>2, <2>1
    <3> QED
      BY <3>3, <3>4, <3>5, <3>6 DEF Near
  <2>2. ASSUME NEW c \in Clients, cmds'[c].op = "rename", cmds'[c].pc = "writing", ~cmds'[c].stale, Quiet'
        PROVE  monitor.listed[cmds'[c].dev] = cmds'[c].to
    <3>1. /\ cmds[c].op = "rename" /\ cmds'[c].dev = cmds[c].dev /\ cmds'[c].to = cmds[c].to
          /\ cmds'[c].stale = cmds[c].stale
      BY <2>2, <1>6, IdleIs
    <3>2. CASE cmds[c].pc = "writing"
      BY <3>1, <3>2, <2>2, <1>9 DEF RegistryInv, RenamesSeen
    <3>3. CASE cmds[c].pc # "writing"
      <4>1. cmds[c].pc = "waiting" /\ m.ok /\ cmds[c].txn = m.txn
        BY <3>3, <2>2, <1>6, IdleIs
      <4>2. Near(wire, monitor.listed, 1, cmds[c].dev, cmds[c].to)
        BY <4>1, <3>1, <1>3, <1>4 DEF RegistryInv, RenamesSeen
      <4>3. \A j \in 1..Len(wire) : ~Inventoried(wire, j)
        BY <2>2, <1>9 DEF Quiet
      <4> QED
        BY <4>2, <4>3, <3>1 DEF Near
    <3> QED
      BY <3>2, <3>3
  <2> QED
    BY <2>1, <2>2, <1>1 DEF RenamesSeen
<1>13. Captures'
  <2>1. ASSUME Orderly, NEW c \in Clients, ~cmds'[c].stale
        PROVE  Found(cmds'[c], monitor)
    <3>1. CASE cmds'[c] = Idle
      BY <3>1, IdleIs DEF Found
    <3>2. CASE cmds'[c] # Idle
      <4>1. ~cmds[c].stale
        BY <3>2, <2>1, <1>6
      <4>2. Found(cmds[c], monitor)
        BY <4>1, <2>1 DEF RegistryInv, Captures
      <4> QED
        BY <4>2, <3>2, <1>6 DEF Found, Frees, Gives
    <3> QED
      BY <3>1, <3>2
  <2> QED
    BY <2>1, <1>1, <1>10 DEF Captures
<1>14. ASSUME NEW d, Barred(d)
       PROVE  Barred(d)'
  <2>1. ASSUME NEW c \in Clients, cmds'[c].op = "assign", cmds'[c].dev = d, ~cmds'[c].stale
        PROVE  cmds'[c].pc = "waiting" /\ ~Granted(wire', cmds'[c].txn)
    <3>1. /\ cmds[c].op = "assign" /\ cmds[c].dev = d /\ ~cmds[c].stale /\ cmds'[c].txn = cmds[c].txn
          /\ cmds'[c].pc = cmds[c].pc \/ Granted(wire, cmds[c].txn)
      BY <2>1, <1>6, IdleIs
    <3>2. cmds[c].pc = "waiting" /\ ~Granted(wire, cmds[c].txn)
      BY <3>1, <1>14 DEF Barred
    <3> QED
      BY <3>1, <3>2, <1>10
  <2> QED
    BY <2>1, <1>1, <1>14 DEF Barred
<1>15. Gone'
  <2>1. ASSUME NEW c \in Clients, cmds'[c].op = "remove", ~cmds'[c].stale
        PROVE  /\ cmds'[c].pc = "writing" \/ Granted(wire', cmds'[c].txn) => mesh'[cmds'[c].dev] = None
               /\ Orderly' /\ cmds'[c].todo = <<"drop">> =>
                    Barred(cmds[c].dev)' /\ RoleOf(cmds[c].dev)' = {}
    <3>1. /\ cmds[c].op = "remove" /\ ~cmds[c].stale /\ cmds'[c].dev = cmds[c].dev
          /\ cmds'[c].todo = cmds[c].todo /\ cmds'[c].txn = cmds[c].txn
          /\ cmds'[c].pc = cmds[c].pc \/ Granted(wire, cmds[c].txn)
      BY <2>1, <1>6, IdleIs
    <3>2. cmds'[c].pc = "writing" \/ Granted(wire', cmds'[c].txn) => mesh'[cmds'[c].dev] = None
      BY <3>1, <1>1, <1>10 DEF RegistryInv, Gone
    <3>3. ASSUME Orderly', cmds'[c].todo = <<"drop">>
          PROVE  Barred(cmds[c].dev)' /\ RoleOf(cmds[c].dev)' = {}
      <4> DEFINE d == cmds[c].dev
      <4>1. Barred(d) /\ RoleOf(d) = {}
        BY <3>1, <3>3, <1>10 DEF RegistryInv, Gone
      <4>2. d' = d
        BY <3>1
      <4> QED
        BY <4>1, <4>2, <1>1, <1>14 DEF RoleOf, Barred
    <3> QED
      BY <3>2, <3>3
  <2> QED
    BY <2>1 DEF Gone
<1>16. Forgotten'
  BY <1>1, <1>10, <1>14 DEF RegistryInv, Forgotten, RoleOf
<1>17. Saved' /\ Single' /\ Sourced' /\ Mourned'
  BY <1>1, <1>10 DEF RegistryInv, Saved, Single, OnlyRole, Held, Sourced, Mourned
<1>18. NamesKept' /\ Listening'
  BY <1>1, <1>9, <1>10 DEF RegistryInv, NamesKept, Held, Listening, Topics
<1> QED
  BY <1>8, <1>9, <1>11, <1>12, <1>13, <1>15, <1>16, <1>17, <1>18 DEF RegistryInv
\* The names of holders after an inventory: two are the same only if one has left.
LEMMA ClashMeansGone ==
  ASSUME RegistryInv, Orderly, NEW s \in Named, OneName(s), Clash(SyncedRoles(s))
  PROVE  Departed(monitor.roles, s)
<1> DEFINE roles == SyncedRoles(s)
<1>1. RegistryTypes /\ monitor.roles \in RoleMaps
  BY DEF RegistryInv, RegistryTypes, Views
<1>2. \A r \in Roles : /\ roles[r].dev = monitor.roles[r].dev
                       /\ Held(monitor.roles, r) /\ s[monitor.roles[r].dev] # None =>
                            roles[r].name = s[monitor.roles[r].dev]
  BY <1>1, SyncedIs
<1> HIDE DEF roles
<1>3. PICK r \in Roles, q \in Roles :
        r # q /\ Held(roles, r) /\ Held(roles, q) /\ roles[r].name = roles[q].name
  BY DEF Clash, roles
<1>4. Held(monitor.roles, r) /\ Held(monitor.roles, q)
  BY <1>2, <1>3 DEF Held
<1>5. monitor.roles[r].dev \in Devices /\ monitor.roles[q].dev \in Devices
  BY <1>1, <1>4, RoleIs
<1>6. monitor.roles[r].dev # monitor.roles[q].dev
  BY <1>3, <1>4 DEF RegistryInv, Single, OnlyRole
<1>7. s[monitor.roles[r].dev] = None \/ s[monitor.roles[q].dev] = None
  BY <1>2, <1>3, <1>4, <1>5, <1>6 DEF OneName
<1> QED
  BY <1>4, <1>7 DEF Departed

LEMMA HandleDevicesKeeps ==
  ASSUME RegistryInv, NEW failing \in {"no", "roles", "others"}, HandleDevices(failing)
  PROVE  RegistryInv'
<1> DEFINE s == Head(wire).names
           roles == SyncedRoles(s)
           others == Synced(s, monitor.others)
           old == Topics(monitor.roles)
           new == Topics(roles)
           changed == roles # monitor.roles \/ others # monitor.others
           clash == roles # monitor.roles /\ Clash(roles)
           stale == Overtaken(None, None, changed) \cup Outdated(s)
           subs == IF clash \/ failing = "roles" THEN monitor.subs
                   ELSE IF failing = "others" THEN Resubscribed(monitor.subs, old, new)
                   ELSE Resubscribed(Resubscribed(monitor.subs, old, new), Listed(monitor.listed), Listed(s))
           deaf == ((past.deaf \cup (old \ new)) \ (new \ old)) \ (Listed(s) \ Listed(monitor.listed))
<1>1. /\ loop = "alive" /\ wire # <<>> /\ Head(wire).kind = "devices"
      /\ failing = "roles" => roles # monitor.roles
      /\ clash => failing = "no"
      /\ wire' = Tail(wire)
      /\ loop' = IF clash \/ failing # "no" THEN "dead" ELSE loop
      /\ monitor' = [monitor EXCEPT
           !.listed = s, !.roles = IF clash THEN monitor.roles ELSE roles,
           !.source = IF clash THEN monitor.source ELSE Carried(roles),
           !.others = IF clash \/ failing = "roles" THEN monitor.others ELSE others,
           !.subs = subs]
      /\ file' = [roles |-> IF clash \/ failing = "roles" \/ roles = monitor.roles THEN file.roles ELSE roles,
                  others |-> IF clash \/ failing # "no" \/ others = monitor.others THEN file.others ELSE others]
      /\ cmds' = Stale(stale)
      /\ past' = [past EXCEPT !.unsaved = past.unsaved \/ failing # "no",
                              !.departed = past.departed \/ Departed(monitor.roles, s), !.deaf = deaf]
      /\ failing = "no" => budget' = budget
      /\ failing # "no" => Trouble
      /\ mesh' = mesh /\ asked' = asked /\ link' = link
  BY DEF HandleDevices
<1>2. /\ RegistryTypes /\ monitor \in Views /\ past \in Pasts /\ cmds \in [Clients -> Orders]
      /\ file \in [roles : RoleMaps, others : Named]
  BY DEF RegistryInv, RegistryTypes
<1>3. /\ wire' \in Seq(News) /\ Len(wire) \in Nat /\ 1 \in 1..Len(wire) /\ Head(wire) = wire[1]
      /\ Head(wire) \in News
      /\ \A i \in 1..Len(wire') : i \in Nat /\ i + 1 \in 1..Len(wire) /\ wire'[i] = wire[i + 1]
      /\ \A i \in 1..Len(wire) : i = 1 \/ (i - 1 \in 1..Len(wire') /\ wire'[i - 1] = wire[i])
  BY <1>1, <1>2, Shifted
<1>4. s \in Named /\ s = wire[1].names /\ Inventoried(wire, 1) /\ OneName(s)
  BY <1>1, <1>3, NewsAre DEF Inventoried, RegistryInv, Arriving
<1> HIDE DEF s
<1>5. /\ roles \in RoleMaps /\ others \in Named
      /\ \A d \in Devices : others[d] = None <=> monitor.others[d] = None
      /\ \A r \in Roles : /\ roles[r].dev = monitor.roles[r].dev
                          /\ Held(monitor.roles, r) /\ s[monitor.roles[r].dev] # None =>
                               roles[r].name = s[monitor.roles[r].dev]
  BY <1>2, <1>4, SyncedIs
<1> HIDE DEF roles, others
<1>6. /\ monitor.listed \in Named /\ monitor.roles \in RoleMaps /\ monitor.others \in Named
      /\ monitor.source \in [Roles -> Devices \cup {None}] /\ monitor.subs \subseteq Names
      /\ past.deaf \subseteq Names
  BY <1>2 DEF Views, Pasts
<1>7. old \subseteq Names /\ new \subseteq Names /\ Listed(s) \subseteq Names /\ Listed(monitor.listed) \subseteq Names
  BY <1>4, <1>5, <1>6, TopicsAre, ListedAre
<1>8. Carried(roles) \in [Roles -> Devices \cup {None}]
  BY <1>2, <1>5, CarriedIs
<1> HIDE DEF old, new
<1>9. subs \subseteq Names /\ deaf \subseteq Names
  BY <1>6, <1>7 DEF Resubscribed
<1> HIDE DEF clash, changed, stale, subs, deaf
<1>10. /\ monitor' \in Views /\ monitor'.listed = s
       /\ monitor'.roles = IF clash THEN monitor.roles ELSE roles
       /\ monitor'.source = IF clash THEN monitor.source ELSE Carried(roles)
       /\ monitor'.others = IF clash \/ failing = "roles" THEN monitor.others ELSE others
       /\ monitor'.subs = subs
  BY <1>1, <1>2, <1>4, <1>5, <1>6, <1>8, <1>9 DEF Views
<1>11. /\ past' \in Pasts /\ past'.overtaken = past.overtaken
       /\ past'.unsaved = (past.unsaved \/ failing # "no")
       /\ past'.departed = (past.departed \/ Departed(monitor.roles, s)) /\ past'.deaf = deaf
       /\ past'.removed = past.removed
  BY <1>1, <1>2, <1>9 DEF Pasts, Departed
<1>12. /\ cmds' \in [Clients -> Orders]
       /\ \A c \in Clients : Alike(cmds[c], cmds'[c]) /\ (cmds'[c].stale = (cmds[c].stale \/ c \in stale))
  BY <1>1, <1>2, StaleIs
<1>13. Resting /\ \A c \in Clients : Formed(cmds'[c])
  BY <1>2, <1>12, AlikeFormed DEF Resting, RegistryTypes
<1>14. budget' \in [commands : Nat, trouble : Nat] /\ budget'.commands = budget.commands
  BY <1>1, <1>2, Troubled DEF RegistryTypes
<1>15. file' \in [roles : RoleMaps, others : Named]
  BY <1>1, <1>2, <1>5
<1>16. RegistryTypes'
  BY <1>1, <1>2, <1>3, <1>10, <1>11, <1>12, <1>13, <1>14, <1>15 DEF RegistryTypes
<1>17. Arriving'
  <2>1. Arriving
    BY DEF RegistryInv
  <2>2. ASSUME NEW i \in 1..Len(wire), \A j \in 1..Len(wire') : i <= j => ~Inventoried(wire', j),
               NEW k \in 1..Len(wire), i < k
        PROVE  ~Inventoried(wire, k)
    <3>1. k - 1 \in 1..Len(wire') /\ wire'[k - 1] = wire[k] /\ i <= k - 1
      BY <1>3, <2>2
    <3> QED
      BY <3>1, <2>2 DEF Inventoried
  <2>3. Quiet' => s = mesh
    BY <2>1, <2>2, <1>3, <1>4 DEF Quiet, Arriving
  <2>4. ASSUME NEW i \in 1..Len(wire'), Inventoried(wire', i)
        PROVE  /\ OneName(wire'[i].names)
               /\ (\A j \in 1..Len(wire') : i < j => ~Inventoried(wire', j)) => wire'[i].names = mesh
    <3>1. i \in Nat /\ i + 1 \in 1..Len(wire) /\ wire'[i] = wire[i + 1] /\ Inventoried(wire, i + 1)
      BY <1>3, <2>4 DEF Inventoried
    <3>2. ASSUME \A j \in 1..Len(wire') : i < j => ~Inventoried(wire', j),
                 NEW k \in 1..Len(wire), i + 1 < k
          PROVE  ~Inventoried(wire, k)
      <4>1. k - 1 \in 1..Len(wire') /\ wire'[k - 1] = wire[k] /\ i < k - 1
        BY <1>3, <3>1, <3>2
      <4> QED
        BY <4>1, <3>2 DEF Inventoried
    <3> QED
      BY <3>1, <3>2, <2>1 DEF Arriving
  <2>5. link' = "down" => wire' = <<>>
    BY <2>1, <1>1 DEF Arriving
  <2> QED
    BY <2>1, <2>3, <2>4, <2>5, <1>1, <1>10 DEF Arriving
<1>18. Orderly' => Orderly /\ failing = "no"
  BY <1>11 DEF Orderly
<1>19. \A txn : Granted(wire', txn) => Granted(wire, txn)
  BY <1>1, <1>2, GrantsPass
<1>20. Matched'
  <2>1. \A i \in 1..Len(wire') : wire'[i].kind = "response" => wire'[i].txn > budget.commands
    BY <1>3 DEF RegistryInv, Matched
  <2>2. \A c \in Clients : cmds'[c].pc = cmds[c].pc /\ cmds'[c].txn = cmds[c].txn /\ cmds'[c].op = cmds[c].op
                             /\ cmds'[c].dev = cmds[c].dev /\ cmds'[c].to = cmds[c].to
    BY <1>12 DEF Alike
  <2> QED
    BY <2>1, <2>2, <1>1, <1>14 DEF RegistryInv, Matched
<1>21. RenamesSeen'
  <2>1. ASSUME NEW c \in Clients, cmds[c].op = "rename", cmds[c].pc = "waiting",
               NEW i \in 1..Len(wire'), AnsweredAt(wire', i, cmds[c].txn)
        PROVE  Near(wire', s, i, cmds[c].dev, cmds[c].to)
    <3>2. i \in Nat /\ i >= 1 /\ i + 1 \in 1..Len(wire) /\ AnsweredAt(wire, i + 1, cmds[c].txn)
      BY <2>1, <1>3 DEF AnsweredAt
    <3>3. Near(wire, monitor.listed, i + 1, cmds[c].dev, cmds[c].to)
      BY <2>1, <3>2 DEF RegistryInv, RenamesSeen
    <3>4. CASE \E j \in 1..Len(wire) : i + 1 < j /\ Inventoried(wire, j)
      <4>1. PICK j \in 1..Len(wire) : i + 1 < j /\ Inventoried(wire, j)
        BY <3>4
      <4>2. j - 1 \in 1..Len(wire') /\ i < j - 1 /\ Inventoried(wire', j - 1)
        BY <4>1, <3>2, <1>3 DEF Inventoried
      <4> QED
        BY <4>2 DEF Near
    <3>5. CASE Inventoried(wire, i) /\ wire[i].names[cmds[c].dev] = cmds[c].to
      <4>1. CASE i = 1
        BY <4>1, <3>5, <1>4 DEF Near
      <4>2. CASE i # 1
        <5>1. i > 1 /\ i \in 1..Len(wire)
          BY <4>2, <3>2, <1>3
        <5>2. wire'[i - 1] = wire[i]
          BY <5>1, <1>3
        <5> QED
          BY <5>1, <5>2, <3>5 DEF Near, Inventoried
      <4> QED
        BY <4>1, <4>2
    <3>6. i + 1 # 1 /\ (i + 1) - 1 = i
      BY <3>2
    <3> QED
      BY <3>3, <3>4, <3>5, <3>6 DEF Near
  <2>2. ASSUME NEW c \in Clients, cmds[c].op = "rename", cmds[c].pc = "writing", ~cmds'[c].stale
        PROVE  s[cmds[c].dev] = cmds[c].to
    BY <2>2, <1>12 DEF stale, Outdated
  <2>3. \A c \in Clients : cmds'[c].pc = cmds[c].pc /\ cmds'[c].txn = cmds[c].txn /\ cmds'[c].op = cmds[c].op
                             /\ cmds'[c].dev = cmds[c].dev /\ cmds'[c].to = cmds[c].to
    BY <1>12 DEF Alike
  <2> QED
    BY <2>1, <2>2, <2>3, <1>10 DEF RenamesSeen
<1>22. Gone' /\ Forgotten'
  <2>1. \A r \in Roles : monitor'.roles[r].dev = monitor.roles[r].dev
    BY <1>5, <1>10
  <2>2. \A d \in past.removed : monitor.others[d] = None => monitor'.others[d] = None
    BY <1>2, <1>5, <1>10 DEF Pasts
  <2> QED
    BY <2>1, <2>2, <1>1, <1>2, <1>11, <1>13, <1>18, <1>19, GoneRests, ForgottenRests DEF RegistryInv
<1>23. Captures'
  <2>1. ASSUME Orderly, NEW c \in Clients, ~cmds'[c].stale
        PROVE  Found(cmds'[c], monitor')
    <3>1. ~cmds[c].stale /\ c \notin stale /\ Formed(cmds[c]) /\ c # None
      BY <2>1, <1>2, <1>12, ZigbeeAssumption DEF RegistryTypes
    <3>2. Found(cmds[c], monitor)
      BY <3>1, <2>1 DEF RegistryInv, Captures
    <3>3. cmds[c].op \in {"assign", "release"} => ~changed
      BY <3>1 DEF stale, Overtaken, Formed
    <3>4. ~changed => monitor'.roles = monitor.roles /\ monitor'.others = monitor.others
      BY <1>10 DEF changed
    <3>5. cmds[c].op = "assign" => s[cmds[c].dev] = cmds[c].name
      BY <3>1 DEF stale, Outdated
    <3>6. Found(cmds[c], monitor')
      BY <3>2, <3>3, <3>4, <3>5, <1>10 DEF Found
    <3> QED
      BY <3>6, <2>1, <1>12, FoundRests
  <2> QED
    BY <2>1, <1>18 DEF Captures
<1>24. Saved'
  BY <1>1, <1>10, <1>11 DEF RegistryInv, Saved
<1>25. Single'
  <2>1. \A r \in Roles : monitor'.roles[r].dev = monitor.roles[r].dev
    BY <1>5, <1>10
  <2>2. \A d \in Devices : monitor.others[d] = None => monitor'.others[d] = None
    BY <1>5, <1>10
  <2>3. \A r \in Roles : Held(monitor.roles, r) => monitor.roles[r].dev \in Devices
    BY <1>6, RoleIs
  <2> QED
    BY <2>1, <2>2, <2>3, <1>18 DEF RegistryInv, Single, OnlyRole, Held
<1>26. NamesKept'
  <2>1. ASSUME Orderly', Quiet', NEW r \in Roles, Held(monitor.roles, r)'
        PROVE  \/ s[monitor'.roles[r].dev] = None /\ past'.departed
               \/ monitor'.roles[r].name = s[monitor'.roles[r].dev]
    <3>1. monitor'.roles = roles
      BY <2>1, <1>1, <1>10 DEF Quiet
    <3>2. Held(monitor.roles, r) /\ monitor'.roles[r].dev = monitor.roles[r].dev
      BY <2>1, <3>1, <1>5 DEF Held
    <3>3. CASE s[monitor.roles[r].dev] = None
      BY <3>2, <3>3, <1>11 DEF Departed
    <3>4. CASE s[monitor.roles[r].dev] # None
      BY <3>1, <3>2, <3>4, <1>5
    <3> QED
      BY <3>2, <3>3, <3>4
  <2> QED
    BY <2>1, <1>10 DEF NamesKept
<1>27. Listening'
  <2>1. SUFFICES ASSUME link' = "up", loop' = "alive"
                 PROVE  /\ Listed(s) \subseteq subs \cup deaf
                        /\ Orderly => Topics(monitor'.roles) \cap deaf = {}
    BY <1>10, <1>11, <1>18 DEF Listening
  <2>2. ~clash /\ failing = "no" /\ link = "up" /\ loop = "alive"
    BY <2>1, <1>1
  <2>3. /\ Listed(monitor.listed) \subseteq monitor.subs \cup past.deaf
        /\ Orderly => old \cap past.deaf = {}
    BY <2>2 DEF RegistryInv, Listening, old
  <2>4. subs = Resubscribed(Resubscribed(monitor.subs, old, new), Listed(monitor.listed), Listed(s))
    BY <2>2 DEF subs
  <2>5. Listed(s) \subseteq subs \cup deaf
    BY <2>3, <2>4 DEF Resubscribed, deaf
  <2>6. Topics(monitor'.roles) = new
    BY <2>2, <1>10 DEF new
  <2>7. Orderly => new \cap deaf = {}
    BY <2>3 DEF deaf
  <2> QED
    BY <2>5, <2>6, <2>7
<1>28. Sourced'
  <2>1. ASSUME Orderly, ~past.departed
        PROVE  \A r \in Roles : monitor'.source[r] \in {None, monitor'.roles[r].dev}
    <3>1. CASE clash
      BY <3>1, <2>1, <1>10 DEF RegistryInv, Sourced
    <3>2. CASE ~clash
      <4>1. \A r \in Roles : Carried(roles)[r] \in {None, roles[r].dev}
        BY <2>1, <1>2, <1>5, CarriedIs DEF RegistryInv
      <4> QED
        BY <4>1, <3>2, <1>10
    <3> QED
      BY <3>1, <3>2
  <2> QED
    BY <2>1, <1>11, <1>18 DEF Sourced
<1>29. Mourned'
  <2>1. ASSUME loop' = "dead", Orderly'
        PROVE  past'.departed
    <3>1. clash /\ Orderly
      BY <2>1, <1>1, <1>18
    <3>2. Clash(SyncedRoles(s))
      BY <3>1 DEF clash, roles
    <3>3. Departed(monitor.roles, s)
      BY <3>1, <3>2, <1>4, ClashMeansGone
    <3> QED
      BY <3>3, <1>11
  <2> QED
    BY <2>1 DEF Mourned
<1> QED
  BY <1>16, <1>17, <1>20, <1>21, <1>22, <1>23, <1>24, <1>25, <1>26, <1>27, <1>28, <1>29 DEF RegistryInv
-----------------------------------------------------------------------------
(* Commands that begin *)

LEMMA CommandStarts ==
  ASSUME RegistryInv, NEW c \in Clients, NEW x \in Orders, Formed(x), ~x.stale, Found(x, monitor),
         x.pc = "waiting" \/ x.op = "release", x.todo # <<"drop">> \/ x.op # "remove",
         x.txn = budget.commands, budget.commands > 0,
         cmds' = [cmds EXCEPT ![c] = x], budget' = [budget EXCEPT !.commands = @ - 1],
         asked' = asked \/ \E q \in Queries : /\ q.txn = x.txn /\ q.op = x.op /\ q.dev = x.dev /\ q.to = x.to
                                           /\ asked' = asked \cup {q},
         mesh' = mesh, wire' = wire, link' = link, loop' = loop, monitor' = monitor,
         file' = file, past' = past
  PROVE  RegistryInv'
<1>1. /\ RegistryTypes /\ asked \subseteq Queries /\ cmds \in [Clients -> Orders]
      /\ budget \in [commands : Nat, trouble : Nat]
  BY DEF RegistryInv, RegistryTypes
<1>2. \A k \in Clients : cmds'[k] = IF k = c THEN x ELSE cmds[k]
  BY <1>1
<1>3. budget' \in [commands : Nat, trouble : Nat] /\ budget'.commands = budget.commands - 1
  BY <1>1
<1>4. RegistryTypes'
  BY <1>1, <1>2, <1>3 DEF RegistryTypes
<1>5. Orderly' = Orderly /\ Quiet' = Quiet
  BY DEF Orderly, Quiet
<1>6. Arriving' /\ Saved' /\ Single' /\ NamesKept' /\ Listening' /\ Sourced' /\ Mourned'
  BY <1>5 DEF RegistryInv, Arriving, Saved, Single, OnlyRole, NamesKept, Held, Listening, Topics, Sourced, Mourned
<1>7. x.txn \in Nat /\ ~Granted(wire, x.txn) /\ \A i \in 1..Len(wire) : ~AnsweredAt(wire, i, x.txn)
  BY <1>1 DEF RegistryInv, Matched, Granted, AnsweredAt
<1>8. Matched'
  <2>1. /\ \A p \in asked : p.txn > x.txn /\ p.txn \in Nat
        /\ \A i \in 1..Len(wire) : wire[i].kind = "response" => wire[i].txn > x.txn
        /\ \A k \in Clients : cmds[k].pc = "waiting" => cmds[k].txn > x.txn
        /\ \A p \in asked, k \in Clients : cmds[k].pc = "waiting" /\ cmds[k].txn = p.txn =>
             p.op = cmds[k].op /\ p.dev = cmds[k].dev /\ p.to = cmds[k].to
    BY <1>1 DEF RegistryInv, Matched, Queries
  <2>2. /\ budget'.commands \in Nat /\ x.txn > budget'.commands
        /\ \A k \in Clients : cmds[k].txn \in Nat
        /\ \A m \in Nat : m > x.txn => m > budget'.commands
    <3>1. budget.commands \in Nat /\ x.txn = budget.commands
      BY <1>1
    <3>2. \A k \in Clients : cmds[k].txn \in Nat
      BY <1>1 DEF Orders
    <3> QED
      BY <3>1, <3>2, <1>3
  <2>3. \A p \in asked' : \/ p \in asked
                         \/ (p.txn = x.txn /\ p.op = x.op /\ p.dev = x.dev /\ p.to = x.to)
    OBVIOUS
  <2>4. \A p \in asked' : p.txn > budget'.commands
    BY ONLY <2>1, <2>2, <2>3
  <2>5. \A i \in 1..Len(wire) : wire[i].kind = "response" => wire[i].txn > budget'.commands
    <3>1. wire \in Seq(News)
      BY <1>1 DEF RegistryTypes
    <3>2. \A i \in 1..Len(wire) : wire[i].kind = "response" => wire[i].txn \in Nat
      BY <3>1, NewsAre
    <3> QED
      BY ONLY <2>1, <2>2, <3>2
  <2>6. \A k \in Clients : cmds'[k].pc = "waiting" => cmds'[k].txn > budget'.commands
    BY ONLY <2>1, <2>2, <1>2
  <2>7. ASSUME NEW p \in asked', NEW k \in Clients, cmds'[k].pc = "waiting", cmds'[k].txn = p.txn
        PROVE  p.op = cmds'[k].op /\ p.dev = cmds'[k].dev /\ p.to = cmds'[k].to
    <3>1. CASE k = c
      <4>1. p.txn = x.txn /\ p.op = x.op /\ p.dev = x.dev /\ p.to = x.to
        BY <3>1, <2>1, <2>2, <2>3, <2>7, <1>2
      <4> QED
        BY <4>1, <3>1, <1>2
    <3>2. CASE k # c
      <4>1. p \in asked
        BY <3>2, <2>1, <2>2, <2>3, <2>7, <1>2
      <4> QED
        BY <4>1, <3>2, <2>1, <2>7, <1>2
    <3> QED
      BY <3>1, <3>2
  <2> QED
    BY <2>4, <2>5, <2>6, <2>7 DEF Matched
<1>9. RenamesSeen'
  <2>1. x.op = "rename" => x.pc = "waiting"
    OBVIOUS
  <2> QED
    BY <2>1, <1>2, <1>5, <1>7 DEF RegistryInv, RenamesSeen
<1>10. ASSUME NEW d, Barred(d)
       PROVE  /\ mesh'[d] = None
              /\ \A k \in Clients : cmds'[k].op = "assign" /\ cmds'[k].dev = d /\ ~cmds'[k].stale =>
                   cmds'[k].pc = "waiting" /\ ~Granted(wire', cmds'[k].txn)
  BY <1>2, <1>7, <1>10 DEF Barred
<1>11. Gone'
  <2>1. ASSUME NEW k \in Clients, cmds'[k].op = "remove", ~cmds'[k].stale
        PROVE  /\ cmds'[k].pc = "writing" \/ Granted(wire', cmds'[k].txn) => mesh'[cmds'[k].dev] = None
               /\ Orderly' /\ cmds'[k].todo = <<"drop">> => Barred(cmds[k].dev)' /\ RoleOf(cmds[k].dev)' = {}
    <3>1. CASE k = c
      BY <3>1, <2>1, <1>2, <1>7
    <3>2. CASE k # c
      <4>1. cmds'[k] = cmds[k]
        BY <3>2, <1>2
      <4>2. /\ cmds[k].pc = "writing" \/ Granted(wire, cmds[k].txn) => mesh[cmds[k].dev] = None
            /\ Orderly /\ cmds[k].todo = <<"drop">> => Barred(cmds[k].dev) /\ RoleOf(cmds[k].dev) = {}
        BY <4>1, <2>1 DEF RegistryInv, Gone
      <4> QED
        BY <4>1, <4>2, <1>5, <1>10 DEF Barred, RoleOf
    <3> QED
      BY <3>1, <3>2
  <2> QED
    BY <2>1 DEF Gone
<1>12. Forgotten'
  BY <1>5, <1>10 DEF RegistryInv, Forgotten, Barred, RoleOf
<1>13. Captures'
  BY <1>2, <1>5 DEF RegistryInv, Captures
<1> QED
  BY <1>4, <1>6, <1>8, <1>9, <1>11, <1>12, <1>13 DEF RegistryInv

\* The sequences of writes, told apart.
LEMMA OrdersDiffer ==
  /\ Assigning \subseteq Seq(Steps) /\ Releasing \subseteq Seq(Steps)
  /\ Renaming \subseteq Seq(Steps) /\ Removing \subseteq Seq(Steps)
  /\ <<"free", "drop">> # <<"drop">> /\ <<"apply", "drop">> # <<"drop">> /\ <<"apply">> # <<"drop">>
  /\ <<"apply", "take">> # <<"take">> /\ <<"apply">> # <<"take">> /\ <<"drop", "apply">> # <<"take">>
  /\ <<"drop", "apply">> # <<"apply", "take">> /\ <<"apply">> # <<"apply", "take">>
  /\ <<"apply">> # <<"drop", "apply">>
  /\ \A t \in {<<"take">>, <<"apply">>, <<"apply", "take">>, <<"drop", "apply">>} : t # <<>>
  BY DEF Assigning, Releasing, Renaming, Removing, Steps

LEMMA RequestKeeps ==
  ASSUME RegistryInv, NEW c \in Clients, NEW y \in Orders, y.op \in {"assign", "rename", "remove"}, ~y.stale,
         y.dev \in Devices, y.todo # <<"drop">>, Request(c, y),
         y.op = "assign" => y.todo \in Assigning /\ y.name \in Names /\ y.roles \in RoleMaps,
         y.op = "rename" => y.todo \in Renaming /\ y.to \in Names,
         y.op = "remove" => y.todo \in Removing,
         Found(y, monitor)
  PROVE  RegistryInv'
<1> DEFINE x == [[y EXCEPT !.pc = "waiting"] EXCEPT !.txn = budget.commands]
           q == [op |-> y.op, dev |-> y.dev, to |-> y.to, txn |-> budget.commands]
<1>1. budget.commands \in Nat
  BY DEF RegistryInv, RegistryTypes
<1>2. /\ x \in Orders /\ x.pc = "waiting" /\ x.txn = budget.commands /\ x.op = y.op /\ x.dev = y.dev
      /\ x.name = y.name /\ x.to = y.to /\ x.roles = y.roles /\ x.todo = y.todo /\ x.stale = y.stale
  BY <1>1 DEF Orders
<1>3. q.op = y.op /\ q.dev = y.dev /\ q.to = y.to /\ q.txn = budget.commands
  OBVIOUS
<1>4. q \in Queries
  BY <1>1 DEF Queries, Orders
<1>5. /\ Start(c, [y EXCEPT !.pc = "waiting"]) /\ asked' = asked \cup {q}
      /\ mesh' = mesh /\ wire' = wire /\ link' = link /\ loop' = loop /\ monitor' = monitor
      /\ file' = file /\ past' = past
  BY DEF Request
<1>6. budget.commands > 0 /\ cmds' = [cmds EXCEPT ![c] = x] /\ budget' = [budget EXCEPT !.commands = @ - 1]
  BY <1>5 DEF Start
<1> HIDE DEF x, q
<1>7. Formed(x)
  BY <1>2 DEF Formed
<1>8. Found(x, monitor)
  BY <1>2 DEF Found, Frees, Gives
<1> QED
  BY <1>2, <1>3, <1>4, <1>5, <1>6, <1>7, <1>8, CommandStarts

LEMMA AssignKeeps ==
  ASSUME RegistryInv, NEW c \in Clients, NEW d \in Devices, NEW slot \in Roles \cup {"other"},
         Assign(c, d, slot)
  PROVE  RegistryInv'
<1> DEFINE n == monitor.listed[d]
           freed == Freed(monitor.roles, d)
           taken == slot # "other" /\ monitor.roles[slot].dev \notin {None, d}
           given == IF slot = "other" THEN freed ELSE [freed EXCEPT ![slot] = [dev |-> d, name |-> n]]
           todo == IF taken THEN <<>>
                   ELSE IF slot = "other"
                     THEN IF RoleOf(d) # {} THEN <<"apply", "take">> ELSE <<"take">>
                     ELSE IF monitor.others[d] # None THEN <<"drop", "apply">> ELSE <<"apply">>
           y == [Idle EXCEPT !.op = "assign", !.dev = d, !.name = n, !.roles = given, !.todo = todo]
<1>1. /\ RegistryTypes /\ monitor \in Views /\ monitor.listed \in Named /\ monitor.roles \in RoleMaps
      /\ budget.commands \in Nat
  BY DEF RegistryInv, RegistryTypes, Views
<1>2. Request(c, y)
  BY DEF Assign
<1>3. /\ todo = <<>> \/ todo \in Assigning
      /\ todo = <<"take">> => RoleOf(d) = {}
      /\ todo = <<"apply", "take">> => slot = "other"
      /\ todo = <<"drop", "apply">> \/ todo = <<"apply">> => slot # "other"
      /\ todo = <<"apply">> => monitor.others[d] = None
  BY OrdersDiffer DEF Assigning
<1>4. todo \in Assigning /\ todo \in Seq(Steps) /\ todo # <<"drop">>
  BY <1>3, OrdersDiffer DEF Assigning
<1> HIDE DEF todo
<1>5. /\ slot = "other" => given = Freed(monitor.roles, d)
      /\ slot # "other" => \E r \in Roles : given = Given(monitor.roles, d, n, r)
  BY DEF Given
<1>6. n \in Names => given \in RoleMaps
  <2>1. CASE slot = "other"
    BY <2>1, <1>1, FreedIs
  <2>2. CASE slot # "other"
    BY <2>2, <1>1, <1>5, FreedIs, GivenIs
  <2> QED
    BY <2>1, <2>2
<1> HIDE DEF given
<1>7. n \in Names
  <2>1. y.dev = d
    BY DEF Idle
  <2>2. Known(d)
    BY <1>2, <2>1 DEF Request
  <2> QED
    BY <1>1, <2>2 DEF Known, Named
<1>8. /\ y \in Orders /\ y.op = "assign" /\ y.dev = d /\ y.name = n /\ y.roles = given
      /\ y.todo = todo /\ y.stale = FALSE
  <2>1. Idle \in Orders /\ Idle.stale = FALSE
    BY IdleIs DEF Idle
  <2> HIDE DEF n
  <2> QED
    BY <2>1, <1>4, <1>6, <1>7 DEF Orders
<1> HIDE DEF y, n
<1>9. Found(y, monitor)
  <2>1. /\ todo = <<"take">> => \A r \in Roles : monitor.roles[r].dev # d
        /\ todo = <<"apply", "take">> => Frees(y, monitor.roles)
        /\ todo = <<"drop", "apply">> => Gives(y, monitor.roles)
        /\ todo = <<"apply">> => Gives(y, monitor.roles) /\ monitor.others[d] = None
    BY <1>3, <1>5, <1>8 DEF RoleOf, Frees, Gives
  <2> QED
    BY <2>1, <1>8 DEF Found, n
<1> QED
  BY <1>2, <1>4, <1>6, <1>7, <1>8, <1>9, RequestKeeps

LEMMA RenameKeeps ==
  ASSUME RegistryInv, NEW c \in Clients, NEW d \in Devices, NEW n \in Names, Rename(c, d, n)
  PROVE  RegistryInv'
<1> DEFINE todo == <<"rename", "retake">>
           y == [Idle EXCEPT !.op = "rename", !.dev = d, !.to = n, !.todo = todo]
<1>1. todo \in Renaming /\ todo \in Seq(Steps) /\ todo # <<"drop">>
  BY OrdersDiffer DEF Renaming
<1>2. Request(c, y)
  BY DEF Rename
<1> HIDE DEF todo
<1>3. y \in Orders /\ y.op = "rename" /\ y.dev = d /\ y.to = n /\ y.todo = todo /\ y.stale = FALSE
  <2>1. Idle \in Orders /\ Idle.stale = FALSE
    BY IdleIs DEF Idle
  <2> QED
    BY <2>1, <1>1 DEF Orders
<1> HIDE DEF y
<1>4. Found(y, monitor)
  BY <1>3 DEF Found
<1> QED
  BY <1>1, <1>2, <1>3, <1>4, RequestKeeps

LEMMA RemoveKeeps ==
  ASSUME RegistryInv, NEW c \in Clients, NEW d \in Devices, Remove(c, d)
  PROVE  RegistryInv'
<1> DEFINE todo == <<"free", "drop">>
           y == [Idle EXCEPT !.op = "remove", !.dev = d, !.todo = todo]
<1>1. todo \in Removing /\ todo \in Seq(Steps) /\ todo # <<"drop">>
  BY OrdersDiffer DEF Removing
<1>2. Request(c, y)
  BY DEF Remove
<1> HIDE DEF todo
<1>3. y \in Orders /\ y.op = "remove" /\ y.dev = d /\ y.todo = todo /\ y.stale = FALSE
  <2>1. Idle \in Orders /\ Idle.stale = FALSE
    BY IdleIs DEF Idle
  <2> QED
    BY <2>1, <1>1 DEF Orders
<1> HIDE DEF y
<1>4. Found(y, monitor)
  BY <1>3 DEF Found
<1> QED
  BY <1>1, <1>2, <1>3, <1>4, RequestKeeps

LEMMA ReleaseKeeps ==
  ASSUME RegistryInv, NEW c \in Clients, NEW d \in Devices, Release(c, d)
  PROVE  RegistryInv'
<1> DEFINE freed == Freed(monitor.roles, d)
           todo == IF RoleOf(d) = {} THEN <<"drop">>
                   ELSE IF monitor.others[d] # None THEN <<"apply", "drop">> ELSE <<"apply">>
           x == [[Idle EXCEPT !.pc = "writing", !.op = "release", !.dev = d,
                              !.roles = freed, !.todo = todo] EXCEPT !.txn = budget.commands]
<1>1. budget.commands \in Nat /\ monitor.roles \in RoleMaps
  BY DEF RegistryInv, RegistryTypes, Views
<1>2. freed \in RoleMaps
  BY <1>1, FreedIs
<1>3. todo \in Releasing
  BY DEF Releasing
<1>4. todo \in Seq(Steps)
  BY <1>3, OrdersDiffer
<1>5. /\ budget.commands > 0 /\ cmds' = [cmds EXCEPT ![c] = x] /\ budget' = [budget EXCEPT !.commands = @ - 1]
      /\ asked' = asked /\ mesh' = mesh /\ wire' = wire /\ link' = link /\ loop' = loop
      /\ monitor' = monitor /\ file' = file /\ past' = past
  BY DEF Release, Start
<1> HIDE DEF todo
<1>6. freed = Freed(monitor.roles, d)
  OBVIOUS
<1> HIDE DEF freed
<1>7. /\ x \in Orders /\ x.pc = "writing" /\ x.op = "release" /\ x.dev = d /\ x.roles = freed
      /\ x.todo = todo /\ x.txn = budget.commands /\ x.stale = FALSE
  <2>1. Idle \in Orders /\ Idle.stale = FALSE
    BY IdleIs DEF Idle
  <2> QED
    BY <2>1, <1>1, <1>2, <1>4 DEF Orders
<1> HIDE DEF x
<1>8. Formed(x) /\ Found(x, monitor)
  BY <1>2, <1>3, <1>6, <1>7 DEF Formed, Found, Frees
<1> QED
  BY <1>5, <1>7, <1>8, CommandStarts
-----------------------------------------------------------------------------
(* Writes *)

LEMMA WritesAre ==
  /\ Head(<<"take">>) = "take" /\ Len(<<"take">>) = 1
  /\ Head(<<"apply">>) = "apply" /\ Len(<<"apply">>) = 1
  /\ Head(<<"drop">>) = "drop" /\ Len(<<"drop">>) = 1
  /\ Head(<<"retake">>) = "retake" /\ Len(<<"retake">>) = 1
  /\ Head(<<"apply", "take">>) = "apply" /\ Tail(<<"apply", "take">>) = <<"take">> /\ Len(<<"apply", "take">>) = 2
  /\ Head(<<"drop", "apply">>) = "drop" /\ Tail(<<"drop", "apply">>) = <<"apply">> /\ Len(<<"drop", "apply">>) = 2
  /\ Head(<<"apply", "drop">>) = "apply" /\ Tail(<<"apply", "drop">>) = <<"drop">> /\ Len(<<"apply", "drop">>) = 2
  /\ Head(<<"free", "drop">>) = "free" /\ Tail(<<"free", "drop">>) = <<"drop">> /\ Len(<<"free", "drop">>) = 2
  /\ Head(<<"rename", "retake">>) = "rename" /\ Tail(<<"rename", "retake">>) = <<"retake">>
  /\ Len(<<"rename", "retake">>) = 2
  OBVIOUS

\* What a command writes first, by its operation, and what it still has to write then.
Doing(x, op, todo, h) == x.op = op /\ x.todo = todo /\ Head(x.todo) = h

LastDoing(x) ==
  /\ Len(x.todo) = 1
  /\ \/ Doing(x, "assign", <<"take">>, "take") \/ Doing(x, "assign", <<"apply">>, "apply")
     \/ Doing(x, "release", <<"apply">>, "apply") \/ Doing(x, "release", <<"drop">>, "drop")
     \/ Doing(x, "rename", <<"retake">>, "retake") \/ Doing(x, "remove", <<"drop">>, "drop")
FirstDoing(x) ==
  /\ Len(x.todo) # 1
  /\ \/ Doing(x, "assign", <<"apply", "take">>, "apply") /\ Tail(x.todo) = <<"take">>
     \/ Doing(x, "assign", <<"drop", "apply">>, "drop") /\ Tail(x.todo) = <<"apply">>
     \/ Doing(x, "release", <<"apply", "drop">>, "apply") /\ Tail(x.todo) = <<"drop">>
     \/ Doing(x, "rename", <<"rename", "retake">>, "rename") /\ Tail(x.todo) = <<"retake">>
     \/ Doing(x, "remove", <<"free", "drop">>, "free") /\ Tail(x.todo) = <<"drop">>

LEMMA WriteIs ==
  ASSUME NEW x \in Orders, Formed(x), x.pc = "writing"
  PROVE  LastDoing(x) \/ FirstDoing(x)
<1>1. CASE x.op = "assign"
  <2>1. x.todo = <<"take">> \/ x.todo = <<"apply">> \/ x.todo = <<"apply", "take">> \/ x.todo = <<"drop", "apply">>
    BY <1>1 DEF Formed, Assigning
  <2>2. CASE x.todo = <<"take">>
    BY <1>1, <2>2, WritesAre DEF Doing, LastDoing
  <2>3. CASE x.todo = <<"apply">>
    BY <1>1, <2>3, WritesAre DEF Doing, LastDoing
  <2>4. CASE x.todo = <<"apply", "take">>
    BY <1>1, <2>4, WritesAre DEF Doing, FirstDoing
  <2>5. CASE x.todo = <<"drop", "apply">>
    BY <1>1, <2>5, WritesAre DEF Doing, FirstDoing
  <2> QED
    BY <2>1, <2>2, <2>3, <2>4, <2>5
<1>2. CASE x.op = "release"
  <2>1. x.todo = <<"apply">> \/ x.todo = <<"drop">> \/ x.todo = <<"apply", "drop">>
    BY <1>2 DEF Formed, Releasing
  <2>2. CASE x.todo = <<"apply">>
    BY <1>2, <2>2, WritesAre DEF Doing, LastDoing
  <2>3. CASE x.todo = <<"drop">>
    BY <1>2, <2>3, WritesAre DEF Doing, LastDoing
  <2>4. CASE x.todo = <<"apply", "drop">>
    BY <1>2, <2>4, WritesAre DEF Doing, FirstDoing
  <2> QED
    BY <2>1, <2>2, <2>3, <2>4
<1>3. CASE x.op = "rename"
  <2>1. x.todo = <<"retake">> \/ x.todo = <<"rename", "retake">>
    BY <1>3 DEF Formed, Renaming
  <2>2. CASE x.todo = <<"retake">>
    BY <1>3, <2>2, WritesAre DEF Doing, LastDoing
  <2>3. CASE x.todo = <<"rename", "retake">>
    BY <1>3, <2>3, WritesAre DEF Doing, FirstDoing
  <2> QED
    BY <2>1, <2>2, <2>3
<1>4. CASE x.op = "remove"
  <2>1. x.todo = <<"drop">> \/ x.todo = <<"free", "drop">>
    BY <1>4 DEF Formed, Removing
  <2>2. CASE x.todo = <<"drop">>
    BY <1>4, <2>2, WritesAre DEF Doing, LastDoing
  <2>3. CASE x.todo = <<"free", "drop">>
    BY <1>4, <2>3, WritesAre DEF Doing, FirstDoing
  <2> QED
    BY <2>1, <2>2, <2>3
<1> QED
  BY <1>1, <1>2, <1>3, <1>4 DEF Formed, Orders

\* A write of the roles, and one of the other roles.
LEMMA WriteTypes ==
  ASSUME RegistryInv, NEW x \in Orders, Formed(x), x.pc = "writing"
  PROVE  /\ RolesAfter(x) \in RoleMaps /\ OthersAfter(x) \in Named
         /\ Head(x.todo) \in {"take", "drop", "retake"} => RolesAfter(x) = monitor.roles
         /\ Head(x.todo) \in {"apply", "free", "rename"} => OthersAfter(x) = monitor.others
         /\ Head(x.todo) \in Steps /\ x.dev \in Devices
         /\ Head(x.todo) = "apply" => RolesAfter(x) = x.roles
         /\ Head(x.todo) = "free" => RolesAfter(x) = Freed(monitor.roles, x.dev)
         /\ Head(x.todo) = "rename" => RolesAfter(x) = Renamed(monitor.roles, x.dev, x.to) /\ x.op = "rename" /\ x.to \in Names
         /\ Head(x.todo) = "take" => OthersAfter(x) = [monitor.others EXCEPT ![x.dev] = x.name]
                                     /\ x.op = "assign" /\ x.todo = <<"take">>
         /\ Head(x.todo) = "drop" => OthersAfter(x) = [monitor.others EXCEPT ![x.dev] = None]
         /\ Head(x.todo) = "retake" => OthersAfter(x) = [monitor.others EXCEPT ![x.dev] = IF @ = None THEN None ELSE x.to]
<1>1. monitor.roles \in RoleMaps /\ monitor.others \in Named
  BY DEF RegistryInv, RegistryTypes, Views
<1>2. /\ Head(x.todo) \in Steps
      /\ Head(x.todo) = "take" => x.op = "assign" /\ x.todo = <<"take">>
      /\ Head(x.todo) \in {"rename", "retake"} => x.op = "rename"
      /\ Head(x.todo) = "apply" => x.op \in {"assign", "release"}
      /\ x.op \in {"assign", "release", "rename", "remove"}
  <2>1. CASE LastDoing(x)
    BY <2>1 DEF LastDoing, Doing, Steps
  <2>2. CASE FirstDoing(x)
    BY <2>2 DEF FirstDoing, Doing, Steps
  <2> QED
    BY <2>1, <2>2, WriteIs
<1>3. /\ x.dev \in Devices
      /\ x.op = "assign" => x.name \in Names
      /\ x.op = "rename" => x.to \in Names
      /\ x.op \in {"assign", "release"} => x.roles \in RoleMaps
  BY <1>2 DEF Formed
<1>4. Freed(monitor.roles, x.dev) \in RoleMaps
  BY <1>1, <1>3, FreedIs
<1>5. x.op = "rename" => Renamed(monitor.roles, x.dev, x.to) \in RoleMaps
  BY <1>1, <1>3, RenamedIs
<1>6. CASE Head(x.todo) \in {"apply", "free", "rename"}
  BY <1>1, <1>2, <1>3, <1>4, <1>5, <1>6 DEF RolesAfter, OthersAfter
<1>7. CASE Head(x.todo) \in {"take", "drop", "retake"}
  <2>1. RolesAfter(x) = monitor.roles
    BY <1>7 DEF RolesAfter
  <2>2. CASE Head(x.todo) = "take"
    <3>1. OthersAfter(x) = [monitor.others EXCEPT ![x.dev] = x.name]
      BY <2>2 DEF OthersAfter
    <3>2. [monitor.others EXCEPT ![x.dev] = x.name] \in Named
      BY <1>1, <1>2, <1>3, <2>2 DEF Named
    <3> QED
      BY <2>1, <2>2, <3>1, <3>2, <1>1, <1>2, <1>3
  <2>3. CASE Head(x.todo) = "drop"
    <3>1. OthersAfter(x) = [monitor.others EXCEPT ![x.dev] = None]
      BY <2>3 DEF OthersAfter
    <3>2. [monitor.others EXCEPT ![x.dev] = None] \in Named
      BY <1>1, <1>3 DEF Named
    <3> QED
      BY <2>1, <2>3, <3>1, <3>2, <1>1, <1>2, <1>3
  <2>4. CASE Head(x.todo) = "retake"
    <3> DEFINE n == IF monitor.others[x.dev] = None THEN None ELSE x.to
    <3>1. OthersAfter(x) = [monitor.others EXCEPT ![x.dev] = n]
      BY <2>4 DEF OthersAfter
    <3>2. n \in Names \cup {None}
      BY <2>4, <1>2, <1>3
    <3> HIDE DEF n
    <3>3. [monitor.others EXCEPT ![x.dev] = n] \in Named
      BY <1>1, <1>3, <3>2 DEF Named
    <3> USE DEF n
    <3> QED
      BY <2>1, <2>4, <3>1, <3>3, <1>1, <1>2, <1>3
  <2> QED
    BY <1>7, <2>2, <2>3, <2>4
<1> QED
  BY <1>2, <1>6, <1>7 DEF Steps

\* What a command that nothing overtook leaves of the registry.
LEMMA WriteFinds ==
  ASSUME RegistryInv, Orderly, NEW c \in Clients, cmds[c].pc = "writing", ~cmds[c].stale
  PROVE  LET x == cmds[c]
             roles == RolesAfter(x)
             others == OthersAfter(x)
         IN  /\ \A r \in Roles : \/ roles[r].dev \in {monitor.roles[r].dev, None}
                                 \/ x.op = "assign" /\ roles[r].dev = x.dev
             /\ \A d \in Devices : monitor.others[d] = None => others[d] = None \/ (x.op = "assign" /\ d = x.dev)
             /\ OnlyRole(roles, others)
             /\ \A r \in Roles : Held(roles, r) =>
                  \/ roles[r] = monitor.roles[r]
                  \/ x.op = "assign" /\ roles[r].name = x.name /\ roles[r].dev = x.dev
                  \/ x.op = "rename" /\ roles[r].name = x.to /\ roles[r].dev = x.dev
<1> DEFINE x == cmds[c]
           roles == RolesAfter(x)
           others == OthersAfter(x)
           h == Head(x.todo)
<1>1. /\ x \in Orders /\ Formed(x) /\ x.pc = "writing" /\ ~x.stale
      /\ monitor.roles \in RoleMaps /\ monitor.others \in Named
  BY DEF RegistryInv, RegistryTypes, Views
<1>2. Found(x, monitor) /\ OnlyRole(monitor.roles, monitor.others)
  BY DEF RegistryInv, Captures, Single
<1> HIDE DEF x
<1>3. /\ roles \in RoleMaps /\ others \in Named /\ h \in Steps /\ x.dev \in Devices
      /\ h \in {"take", "drop", "retake"} => roles = monitor.roles
      /\ h \in {"apply", "free", "rename"} => others = monitor.others
      /\ h = "apply" => roles = x.roles
      /\ h = "free" => roles = Freed(monitor.roles, x.dev)
      /\ h = "rename" => roles = Renamed(monitor.roles, x.dev, x.to) /\ x.op = "rename" /\ x.to \in Names
      /\ h = "take" => others = [monitor.others EXCEPT ![x.dev] = x.name]
                       /\ x.op = "assign" /\ x.todo = <<"take">>
      /\ h = "drop" => others = [monitor.others EXCEPT ![x.dev] = None]
      /\ h = "retake" => others = [monitor.others EXCEPT ![x.dev] = IF @ = None THEN None ELSE x.to]
  BY <1>1, WriteTypes
<1>4. h = "apply" => \/ Frees(x, monitor.roles)
                     \/ x.op = "assign" /\ Gives(x, monitor.roles) /\ monitor.others[x.dev] = None
  <2>1. CASE LastDoing(x)
    BY <2>1, <1>2, OrdersDiffer DEF LastDoing, Doing, Found
  <2>2. CASE FirstDoing(x)
    BY <2>2, <1>2, OrdersDiffer DEF FirstDoing, Doing, Found
  <2> QED
    BY <2>1, <2>2, <1>1, WriteIs
<1>5. h = "take" => \A r \in Roles : monitor.roles[r].dev # x.dev
  BY <1>2, <1>3 DEF Found
<1>6. x.op = "assign" => x.name \in Names
  BY <1>1 DEF Formed
<1> HIDE DEF roles, others, h
<1>7. CASE roles = Freed(monitor.roles, x.dev) /\ others = monitor.others
  <2>1. \A r \in Roles : roles[r] = IF monitor.roles[r].dev = x.dev THEN Unassigned ELSE monitor.roles[r]
    BY <1>1, <1>3, <1>7, FreedIs
  <2>2. \A r \in Roles : roles[r] = monitor.roles[r] \/ roles[r].dev = None
    BY <2>1 DEF Unassigned
  <2>3. OnlyRole(roles, others)
    BY <2>2, <1>2, <1>7 DEF OnlyRole, Held
  <2> QED
    BY <2>2, <2>3, <1>7 DEF Held, x, roles, others
<1>8. CASE h = "apply" /\ x.op = "assign" /\ Gives(x, monitor.roles) /\ monitor.others[x.dev] = None
  <2>1. PICK slot \in Roles : x.roles = Given(monitor.roles, x.dev, x.name, slot)
    BY <1>8 DEF Gives
  <2>2. roles = x.roles /\ others = monitor.others
    BY <1>3, <1>8
  <2>3. /\ roles[slot].dev = x.dev /\ roles[slot].name = x.name
        /\ \A r \in Roles \ {slot} : roles[r] = IF monitor.roles[r].dev = x.dev THEN Unassigned ELSE monitor.roles[r]
    <3>1. x.dev \in Devices /\ x.name \in Names
      BY <1>3, <1>6, <1>8
    <3> QED
      BY <3>1, <2>1, <2>2, <1>1, GivenIs
  <2>4. \A r \in Roles \ {slot} : \/ roles[r] = monitor.roles[r] /\ roles[r].dev # x.dev
                                  \/ roles[r].dev = None
    BY <2>3 DEF Unassigned
  <2>5. x.dev # None
    BY <1>3, ZigbeeAssumption
  <2>6. OnlyRole(roles, others)
    <3>1. ASSUME NEW r \in Roles, NEW q \in Roles, Held(roles, r), roles[r].dev = roles[q].dev
          PROVE  r = q
      BY <3>1, <2>3, <2>4, <2>5, <1>2 DEF OnlyRole, Held
    <3>2. ASSUME NEW r \in Roles, Held(roles, r)
          PROVE  others[roles[r].dev] = None
      BY <3>2, <2>2, <2>3, <2>4, <1>2, <1>8 DEF OnlyRole, Held
    <3> QED
      BY <3>1, <3>2 DEF OnlyRole
  <2>7. \A r \in Roles : Held(roles, r) =>
          \/ roles[r] = monitor.roles[r]
          \/ x.op = "assign" /\ roles[r].name = x.name /\ roles[r].dev = x.dev
    BY <2>3, <2>4, <1>8 DEF Held
  <2>8. \A r \in Roles : roles[r].dev \in {monitor.roles[r].dev, None} \/ (x.op = "assign" /\ roles[r].dev = x.dev)
    BY <2>3, <2>4, <1>8
  <2> QED
    BY <2>2, <2>6, <2>7, <2>8 DEF x, roles, others
<1>9. CASE h = "rename"
  <2>1. \A r \in Roles : /\ roles[r].dev = monitor.roles[r].dev
                         /\ roles[r].name = IF monitor.roles[r].dev = x.dev THEN x.to ELSE monitor.roles[r].name
    BY <1>1, <1>3, <1>9, RenamedIs
  <2>2. \A r \in Roles : Held(roles, r) /\ monitor.roles[r].dev # x.dev => roles[r] = monitor.roles[r]
    BY <1>3, <1>9 DEF Renamed
  <2>3. OnlyRole(roles, others)
    BY <2>1, <1>2, <1>3, <1>9 DEF OnlyRole, Held
  <2> QED
    BY <2>1, <2>2, <2>3, <1>3, <1>9 DEF x, roles, others
<1>10. CASE h \in {"take", "drop", "retake"}
  <2>1. roles = monitor.roles
    BY <1>3, <1>10
  <2>2. \A d \in Devices : monitor.others[d] = None => others[d] = None \/ (x.op = "assign" /\ d = x.dev /\ h = "take")
    <3>1. CASE h = "take"
      BY <3>1, <1>1, <1>3 DEF Named
    <3>2. CASE h = "drop"
      BY <3>2, <1>1, <1>3 DEF Named
    <3>3. CASE h = "retake"
      BY <3>3, <1>1, <1>3 DEF Named
    <3> QED
      BY <3>1, <3>2, <3>3, <1>10
  <2>3. OnlyRole(roles, others)
    <3>1. \A r \in Roles : Held(roles, r) => roles[r].dev \in Devices
      BY <1>3, RoleIs
    <3> QED
      BY <3>1, <2>1, <2>2, <1>2, <1>5 DEF OnlyRole, Held
  <2> QED
    BY <2>1, <2>2, <2>3 DEF x, roles, others
<1>11. h = "apply" /\ Frees(x, monitor.roles) => roles = Freed(monitor.roles, x.dev) /\ others = monitor.others
  BY <1>3 DEF Frees
<1>12. h = "free" => roles = Freed(monitor.roles, x.dev) /\ others = monitor.others
  BY <1>3
<1> QED
  BY <1>3, <1>4, <1>7, <1>8, <1>9, <1>10, <1>11, <1>12 DEF Steps

\* A command between its two writes.
LEMMA Continues ==
  ASSUME NEW x \in Orders, Formed(x), x.pc = "writing", FirstDoing(x),
         NEW y, y = [x EXCEPT !.todo = Tail(@)]
  PROVE  /\ y \in Orders /\ Formed(y) /\ y.todo = Tail(x.todo)
         /\ y.pc = x.pc /\ y.op = x.op /\ y.dev = x.dev /\ y.name = x.name /\ y.to = x.to
         /\ y.roles = x.roles /\ y.txn = x.txn /\ y.stale = x.stale
<1> DEFINE rest == Tail(x.todo)
<1>1. /\ x.op = "assign" => rest \in Assigning /\ rest # <<>>
      /\ x.op = "release" => rest \in Releasing
      /\ x.op = "rename" => rest \in Renaming
      /\ x.op = "remove" => rest \in Removing
      /\ x.op \in {"assign", "release", "rename", "remove"}
  BY OrdersDiffer DEF FirstDoing, Doing, Assigning, Releasing, Renaming, Removing
<1>2. rest \in Seq(Steps)
  BY <1>1, OrdersDiffer
<1> HIDE DEF rest
<1>3. y = [x EXCEPT !.todo = rest]
  BY DEF rest
<1>4. /\ y \in Orders /\ y.todo = rest
      /\ y.pc = x.pc /\ y.op = x.op /\ y.dev = x.dev /\ y.name = x.name /\ y.to = x.to
      /\ y.roles = x.roles /\ y.txn = x.txn /\ y.stale = x.stale
  BY <1>2, <1>3 DEF Orders
<1>5. Formed(y)
  BY <1>1, <1>4 DEF Formed
<1> QED
  BY <1>4, <1>5 DEF rest

LEMMA WriteKeeps ==
  ASSUME RegistryInv, NEW c \in Clients, NEW saved \in BOOLEAN, Write(c, saved)
  PROVE  RegistryInv'
<1> DEFINE x == cmds[c]
           roles == RolesAfter(x)
           others == OthersAfter(x)
           changed == roles # monitor.roles \/ others # monitor.others
           old == Topics(monitor.roles)
           new == Topics(roles)
           heard == saved /\ link = "up"
           last == ~saved \/ Len(x.todo) = 1
           y == IF last THEN Idle ELSE [x EXCEPT !.todo = Tail(@)]
           stale == Overtaken(c, x.dev, changed)
           subs == IF heard THEN Resubscribed(monitor.subs, old, new) ELSE monitor.subs
           deaf == IF heard THEN (past.deaf \cup (old \ new)) \ (new \ old) ELSE past.deaf
           removed == IF x.op = "remove" /\ saved /\ last /\ ~x.stale THEN past.removed \cup {x.dev} ELSE past.removed
<1>1. /\ x.pc = "writing"
      /\ monitor' = [monitor EXCEPT !.roles = roles, !.others = others, !.source = Carried(roles), !.subs = subs]
      /\ file' = [roles |-> IF saved /\ (Head(x.todo) = "apply" \/ roles # monitor.roles) THEN roles ELSE file.roles,
                  others |-> IF saved /\ others # monitor.others THEN others ELSE file.others]
      /\ budget' = budget \/ Trouble
      /\ cmds' = [Stale(stale) EXCEPT ![c] = y]
      /\ past' = [past EXCEPT !.overtaken = past.overtaken \/ x.stale, !.unsaved = past.unsaved \/ ~saved,
                              !.deaf = deaf, !.removed = removed]
      /\ mesh' = mesh /\ asked' = asked /\ wire' = wire /\ link' = link /\ loop' = loop
  BY DEF Write
<1>2. /\ RegistryTypes /\ monitor \in Views /\ past \in Pasts /\ cmds \in [Clients -> Orders]
      /\ file \in [roles : RoleMaps, others : Named] /\ x \in Orders /\ Formed(x)
  BY DEF RegistryInv, RegistryTypes
<1>3. /\ monitor.listed \in Named /\ monitor.roles \in RoleMaps /\ monitor.others \in Named
      /\ monitor.subs \subseteq Names /\ past.deaf \subseteq Names /\ past.removed \subseteq Devices
  BY <1>2 DEF Views, Pasts
<1>4. /\ y \in Orders /\ Formed(y)
      /\ \/ y = Idle
         \/ /\ FirstDoing(x) /\ saved /\ y.todo = Tail(x.todo)
            /\ y.pc = x.pc /\ y.op = x.op /\ y.dev = x.dev /\ y.name = x.name /\ y.to = x.to
            /\ y.roles = x.roles /\ y.txn = x.txn /\ y.stale = x.stale
  <2>1. CASE last
    BY <2>1, IdleIs
  <2>2. CASE ~last
    <3>1. FirstDoing(x)
      BY <2>2, <1>1, <1>2, WriteIs DEF LastDoing
    <3>2. y = [x EXCEPT !.todo = Tail(@)]
      BY <2>2
    <3> HIDE DEF x, y
    <3> QED
      BY <3>1, <3>2, <2>2, <1>1, <1>2, Continues
  <2> QED
    BY <2>1, <2>2
<1>5. last /\ saved => LastDoing(x)
  BY <1>1, <1>2, WriteIs DEF FirstDoing
<1> HIDE DEF y
<1>6. /\ cmds' \in [Clients -> Orders] /\ cmds'[c] = y
      /\ \A k \in Clients \ {c} : /\ Alike(cmds[k], cmds'[k])
                                  /\ cmds'[k].stale = (cmds[k].stale \/ k \in stale)
  <2> HIDE DEF stale
  <2>1. /\ Stale(stale) \in [Clients -> Orders]
        /\ \A k \in Clients : /\ Alike(cmds[k], Stale(stale)[k])
                              /\ Stale(stale)[k].stale = (cmds[k].stale \/ k \in stale)
    BY <1>2, StaleIs
  <2>2. cmds' \in [Clients -> Orders] /\ cmds'[c] = y /\ \A k \in Clients \ {c} : cmds'[k] = Stale(stale)[k]
    BY <2>1, <1>1, <1>4
  <2> QED
    BY <2>1, <2>2
<1> HIDE DEF x, stale
<1>7. /\ roles \in RoleMaps /\ others \in Named /\ x.dev \in Devices
      /\ Head(x.todo) \in {"take", "drop", "retake"} => roles = monitor.roles
      /\ Head(x.todo) \in {"apply", "free", "rename"} => others = monitor.others
      /\ Head(x.todo) = "apply" => roles = x.roles
      /\ Head(x.todo) = "free" => roles = Freed(monitor.roles, x.dev)
      /\ Head(x.todo) = "drop" => others = [monitor.others EXCEPT ![x.dev] = None]
  BY <1>1, <1>2, WriteTypes
<1>8. old \subseteq Names /\ new \subseteq Names
  BY <1>3, <1>7, TopicsAre
<1>9. Carried(roles) \in [Roles -> Devices \cup {None}]
  BY <1>2, <1>7, CarriedIs
<1> HIDE DEF roles, others
<1>10. subs \subseteq Names /\ deaf \subseteq Names /\ removed \subseteq Devices
  <2> HIDE DEF old, new
  <2> QED
    BY <1>3, <1>7, <1>8 DEF Resubscribed
<1> HIDE DEF changed, old, new, heard, last, subs, deaf, removed
<1>11. /\ monitor' \in Views /\ monitor'.listed = monitor.listed
       /\ monitor'.roles = roles /\ monitor'.others = others
       /\ monitor'.source = Carried(roles) /\ monitor'.subs = subs
  BY <1>1, <1>2, <1>7, <1>9, <1>10 DEF Views
<1>12. /\ past' \in Pasts /\ past'.overtaken = (past.overtaken \/ x.stale) /\ past'.unsaved = (past.unsaved \/ ~saved)
       /\ past'.departed = past.departed /\ past'.deaf = deaf /\ past'.removed = removed
  <2>1. x.stale \in BOOLEAN
    BY <1>2 DEF Orders
  <2> QED
    BY <2>1, <1>1, <1>2, <1>10 DEF Pasts
<1>13. budget' \in [commands : Nat, trouble : Nat] /\ budget'.commands = budget.commands
  BY <1>1, <1>2, Troubled DEF RegistryTypes
<1>14. file' \in [roles : RoleMaps, others : Named]
  BY <1>1, <1>2, <1>7
<1>15. \A k \in Clients : Formed(cmds'[k])
  BY <1>2, <1>4, <1>6, AlikeFormed DEF RegistryTypes
<1>16. RegistryTypes'
  BY <1>1, <1>2, <1>6, <1>11, <1>12, <1>13, <1>14, <1>15 DEF RegistryTypes
<1>17. Orderly' => Orderly /\ ~x.stale /\ saved
  BY <1>12 DEF Orderly
<1>18. Quiet' = Quiet
  BY <1>1 DEF Quiet
<1>19. \A k \in Clients : \/ cmds'[k] = Idle
                          \/ /\ cmds'[k].pc = cmds[k].pc /\ cmds'[k].op = cmds[k].op /\ cmds'[k].dev = cmds[k].dev
                             /\ cmds'[k].name = cmds[k].name /\ cmds'[k].to = cmds[k].to
                             /\ cmds'[k].txn = cmds[k].txn /\ (cmds[k].stale => cmds'[k].stale)
  BY <1>4, <1>6 DEF Alike, x
<1>20. Arriving'
  BY <1>1, <1>11, <1>18 DEF RegistryInv, Arriving
<1>21. Matched'
  BY <1>1, <1>13, <1>19 DEF RegistryInv, Matched, Idle
<1>22. RenamesSeen'
  BY <1>1, <1>11, <1>18, <1>19 DEF RegistryInv, RenamesSeen, Idle
<1>23. ASSUME NEW d, Barred(d)
       PROVE  /\ Barred(d)'
              /\ x.op = "assign" /\ ~x.stale => x.dev # d
  <2>1. Barred(d)'
    BY <1>23, <1>1, <1>19 DEF Barred, Idle
  <2>2. x.op = "assign" /\ ~x.stale => x.dev # d
    BY <1>23, <1>1 DEF Barred, x
  <2> QED
    BY <2>1, <2>2
<1>24. Orderly' =>
         /\ \A r \in Roles : \/ roles[r].dev \in {monitor.roles[r].dev, None}
                             \/ x.op = "assign" /\ roles[r].dev = x.dev
         /\ \A d \in Devices : monitor.others[d] = None => others[d] = None \/ (x.op = "assign" /\ d = x.dev)
         /\ OnlyRole(roles, others)
         /\ \A r \in Roles : Held(roles, r) =>
              \/ roles[r] = monitor.roles[r]
              \/ x.op = "assign" /\ roles[r].name = x.name /\ roles[r].dev = x.dev
              \/ x.op = "rename" /\ roles[r].name = x.to /\ roles[r].dev = x.dev
  BY <1>1, <1>17, WriteFinds DEF x, roles, others
<1>25. ASSUME Orderly', NEW d \in Devices, Barred(d), RoleOf(d) = {}
       PROVE  RoleOf(d)' = {} /\ (monitor.others[d] = None => others[d] = None)
  <2>1. x.op = "assign" => x.dev # d
    BY <1>17, <1>23, <1>25
  <2>2. \A r \in Roles : monitor.roles[r].dev # d
    BY <1>25 DEF RoleOf
  <2>3. d # None
    BY ZigbeeAssumption
  <2>4. \A r \in Roles : roles[r].dev # d
    BY <2>1, <2>2, <2>3, <1>24, <1>25
  <2> QED
    BY <2>1, <2>4, <1>11, <1>24, <1>25 DEF RoleOf
<1>26. Orderly' => Found(x, monitor)
  BY <1>17 DEF RegistryInv, Captures, x
<1>27. Captures'
  <2>1. ASSUME Orderly'
        PROVE  Found(y, monitor')
    <3>1. CASE y = Idle
      BY <3>1 DEF Idle, Found
    <3>2. CASE y.op \notin {"assign", "release"}
      BY <3>2 DEF Found
    <3>3. CASE y # Idle /\ y.op = "release"
      <4>1. y.todo = <<"drop">>
        BY <3>3, <1>4 DEF FirstDoing, Doing
      <4> QED
        BY <3>3, <4>1 DEF Found
    <3>4. CASE y # Idle /\ y.op = "assign"
      <4>1. /\ x.op = "assign" /\ y.todo = Tail(x.todo) /\ y.dev = x.dev /\ y.name = x.name /\ y.roles = x.roles
            /\ \/ x.todo = <<"apply", "take">> /\ Head(x.todo) = "apply" /\ y.todo = <<"take">>
               \/ x.todo = <<"drop", "apply">> /\ Head(x.todo) = "drop" /\ y.todo = <<"apply">>
        BY <3>4, <1>4 DEF FirstDoing, Doing
      <4>2. y.name = monitor'.listed[y.dev]
        BY <4>1, <2>1, <1>11, <1>26 DEF Found
      <4>3. CASE x.todo = <<"apply", "take">> /\ Head(x.todo) = "apply" /\ y.todo = <<"take">>
        <5>1. roles = Freed(monitor.roles, x.dev)
          BY <4>1, <4>3, <2>1, <1>7, <1>26 DEF Found, Frees
        <5>2. \A r \in Roles : roles[r].dev # x.dev
          BY <5>1, <1>3, <1>7, FreedIs, ZigbeeAssumption DEF Unassigned
        <5> QED
          BY <3>4, <4>1, <4>2, <4>3, <5>2, <1>11, OrdersDiffer DEF Found
      <4>4. CASE x.todo = <<"drop", "apply">> /\ Head(x.todo) = "drop" /\ y.todo = <<"apply">>
        <5>1. Gives(x, monitor.roles)
          BY <4>1, <4>4, <2>1, <1>26 DEF Found
        <5>2. Gives(y, monitor.roles)
          BY <5>1, <4>1 DEF Gives
        <5>3. roles = monitor.roles /\ others[x.dev] = None
          BY <4>4, <1>3, <1>7 DEF Named
        <5> QED
          BY <3>4, <4>1, <4>2, <4>4, <5>2, <5>3, <1>11, OrdersDiffer DEF Found
      <4> QED
        BY <4>1, <4>3, <4>4
    <3> QED
      BY <3>1, <3>2, <3>3, <3>4
  <2>2. ASSUME Orderly', NEW k \in Clients \ {c}, ~cmds'[k].stale
        PROVE  Found(cmds'[k], monitor')
    <3>1. /\ Alike(cmds[k], cmds'[k]) /\ ~cmds[k].stale /\ k \notin stale /\ Formed(cmds[k])
      BY <2>2, <1>2, <1>6 DEF RegistryTypes
    <3>2. Found(cmds[k], monitor)
      BY <3>1, <2>2, <1>17 DEF RegistryInv, Captures
    <3>3. CASE cmds[k].op \in {"assign", "release"}
      <4>1. ~changed
        BY <3>1, <3>3, <2>2 DEF stale, Overtaken, Formed
      <4>2. roles = monitor.roles /\ others = monitor.others
        BY <4>1 DEF changed
      <4> QED
        BY <4>2, <3>1, <3>2, <2>2, <1>11, FoundRests
    <3>4. CASE cmds[k].op \notin {"assign", "release"}
      BY <3>1, <3>4 DEF Found, Alike
    <3> QED
      BY <3>3, <3>4
  <2>3. ASSUME Orderly', NEW k \in Clients, ~cmds'[k].stale
        PROVE  Found(cmds'[k], monitor')
    BY <2>1, <2>2, <2>3, <1>6
  <2> QED
    BY <2>3 DEF Captures
<1>28. Gone'
  <2>1. ASSUME NEW k \in Clients, cmds'[k].op = "remove", ~cmds'[k].stale
        PROVE  cmds'[k].pc = "writing" \/ Granted(wire', cmds'[k].txn) => mesh'[cmds'[k].dev] = None
    BY <2>1, <1>1, <1>19 DEF RegistryInv, Gone, Idle
  <2>2. ASSUME NEW k \in Clients \ {c}, cmds'[k].op = "remove", ~cmds'[k].stale, Orderly', cmds'[k].todo = <<"drop">>
        PROVE  Barred(cmds[k].dev)' /\ RoleOf(cmds[k].dev)' = {}
    <3> DEFINE d == cmds[k].dev
    <3>1. cmds[k].op = "remove" /\ ~cmds[k].stale /\ cmds[k].todo = <<"drop">> /\ cmds'[k].dev = d
      BY <2>2, <1>6 DEF Alike
    <3>2. d \in Devices
      BY <3>1, <1>2 DEF RegistryTypes, Formed
    <3>3. Barred(d) /\ RoleOf(d) = {}
      BY <3>1, <2>2, <1>17 DEF RegistryInv, Gone
    <3>4. \A e \in Devices : Barred(e) => Barred(e)'
      BY <1>23
    <3>5. \A e \in Devices : Barred(e) /\ RoleOf(e) = {} => RoleOf(e)' = {}
      BY <2>2, <1>25
    <3>6. d' = d
      BY <3>1
    <3> QED
      BY <3>2, <3>3, <3>4, <3>5, <3>6 DEF Barred, RoleOf
  <2>3. ASSUME y.op = "remove", ~y.stale, Orderly', y.todo = <<"drop">>
        PROVE  Barred(x.dev)' /\ RoleOf(x.dev)' = {}
    <3>1. /\ x.op = "remove" /\ ~x.stale /\ Head(x.todo) = "free" /\ y.dev = x.dev
      BY <2>3, <1>4 DEF Idle, FirstDoing, Doing
    <3>2. mesh[x.dev] = None
      BY <3>1, <1>1 DEF RegistryInv, Gone, x
    <3>3. ASSUME NEW k \in Clients, cmds'[k].op = "assign", cmds'[k].dev = x.dev
          PROVE  cmds'[k].stale
      <4>1. k # c
        BY <3>1, <3>3, <1>4, <1>6, <2>3
      <4>2. cmds[k].op = "assign" /\ cmds[k].dev = x.dev /\ Formed(cmds[k])
        BY <4>1, <3>3, <1>2, <1>6 DEF Alike, RegistryTypes
      <4>3. k \in stale
        BY <4>1, <4>2 DEF stale, Overtaken, Formed
      <4> QED
        BY <4>1, <4>3, <1>6
    <3>4. \A r \in Roles : roles[r].dev # x.dev
      BY <3>1, <1>3, <1>7, FreedIs, ZigbeeAssumption DEF Unassigned
    <3>5. cmds'[c].dev = x.dev
      BY <3>1, <1>6
    <3> QED
      BY <3>2, <3>3, <3>4, <3>5, <1>1, <1>11 DEF Barred, RoleOf, x
  <2> QED
    BY <2>1, <2>2, <2>3, <1>6 DEF Gone, x
<1>29. Forgotten'
  <2>1. ASSUME Orderly', NEW d \in past.removed
        PROVE  Barred(d)' /\ RoleOf(d)' = {} /\ others[d] = None
    <3>1. d \in Devices /\ Barred(d) /\ RoleOf(d) = {} /\ monitor.others[d] = None
      BY <2>1, <1>3, <1>17 DEF RegistryInv, Forgotten
    <3> QED
      BY <3>1, <2>1, <1>23, <1>25
  <2>2. ASSUME Orderly', x.op = "remove", last
        PROVE  \A d \in {x.dev} : Barred(d)' /\ RoleOf(d)' = {} /\ others[d] = None
    <3>1. x.todo = <<"drop">> /\ Head(x.todo) = "drop"
      BY <2>2, <1>5, <1>17 DEF LastDoing, Doing
    <3>2. Barred(x.dev) /\ RoleOf(x.dev) = {}
      BY <3>1, <2>2, <1>17 DEF RegistryInv, Gone, x
    <3>3. others[x.dev] = None
      BY <3>1, <1>3, <1>7 DEF Named
    <3>4. \A d \in Devices : Barred(d) /\ RoleOf(d) = {} => Barred(d)' /\ RoleOf(d)' = {}
      BY <2>2, <1>23, <1>25
    <3> QED
      BY <3>2, <3>3, <3>4, <1>7
  <2>3. ASSUME Orderly', NEW d \in removed
        PROVE  Barred(d)' /\ RoleOf(d)' = {} /\ others[d] = None
    <3>1. d \in past.removed \/ (x.op = "remove" /\ last /\ d \in {x.dev})
      BY <2>3 DEF removed
    <3> QED
      BY <3>1, <2>1, <2>2, <2>3
  <2> QED
    BY <2>3, <1>11, <1>12 DEF Forgotten
<1>30. Saved'
  <2>1. ~past'.unsaved => saved /\ file.roles = monitor.roles /\ file.others = monitor.others
    BY <1>12 DEF RegistryInv, Saved
  <2> QED
    BY <2>1, <1>1, <1>11 DEF Saved
<1>31. Single'
  BY <1>11, <1>24 DEF Single
<1>32. NamesKept'
  <2>1. ASSUME Orderly', Quiet, NEW r \in Roles, Held(roles, r)
        PROVE  \/ monitor.listed[roles[r].dev] = None /\ past.departed
               \/ roles[r].name = monitor.listed[roles[r].dev]
    <3>1. CASE roles[r] = monitor.roles[r]
      BY <3>1, <2>1, <1>17 DEF RegistryInv, NamesKept, Held
    <3>2. CASE x.op = "assign" /\ roles[r].name = x.name /\ roles[r].dev = x.dev
      BY <3>2, <2>1, <1>26 DEF Found
    <3>3. CASE x.op = "rename" /\ roles[r].name = x.to /\ roles[r].dev = x.dev
      <4>1. monitor.listed[x.dev] = x.to
        BY <3>3, <2>1, <1>1, <1>17 DEF RegistryInv, RenamesSeen, x
      <4> QED
        BY <4>1, <3>3
    <3> QED
      BY <3>1, <3>2, <3>3, <2>1, <1>24
  <2> QED
    BY <2>1, <1>11, <1>12, <1>18 DEF NamesKept, Held
<1>33. Listening'
  <2>1. SUFFICES ASSUME link = "up", loop = "alive"
                 PROVE  /\ Listed(monitor.listed) \subseteq subs \cup deaf
                        /\ Orderly' => new \cap deaf = {}
    BY <1>1, <1>11, <1>12 DEF Listening, new
  <2>2. /\ Listed(monitor.listed) \subseteq monitor.subs \cup past.deaf
        /\ Orderly => old \cap past.deaf = {}
    BY <2>1 DEF RegistryInv, Listening, old
  <2>3. CASE heard
    <3>1. Listed(monitor.listed) \subseteq subs \cup deaf
      BY <2>2, <2>3 DEF subs, deaf, Resubscribed
    <3>2. Orderly => new \cap deaf = {}
      BY <2>2, <2>3 DEF deaf
    <3> QED
      BY <3>1, <3>2, <1>17
  <2>4. CASE ~heard
    <3>1. ~Orderly'
      BY <2>1, <2>4, <1>17 DEF heard
    <3> QED
      BY <3>1, <2>2, <2>4 DEF subs, deaf
  <2> QED
    BY <2>3, <2>4
<1>34. Sourced'
  <2>1. ASSUME Orderly, ~past.departed
        PROVE  \A r \in Roles : Carried(roles)[r] \in {None, roles[r].dev}
    BY <2>1, <1>2, <1>7, CarriedIs DEF RegistryInv
  <2> QED
    BY <2>1, <1>11, <1>12, <1>17 DEF Sourced
<1>35. Mourned'
  BY <1>1, <1>12, <1>17 DEF RegistryInv, Mourned
<1> QED
  BY <1>16, <1>20, <1>21, <1>22, <1>27, <1>28, <1>29, <1>30, <1>31, <1>32, <1>33, <1>34, <1>35 DEF RegistryInv
-----------------------------------------------------------------------------
(* The registry from its beginning *)

LEMMA RegistryStarts == ZigbeeInit => RegistryInv
<1> SUFFICES ASSUME ZigbeeInit
             PROVE  RegistryInv
  OBVIOUS
<1>1. /\ mesh \in Named /\ \A d, e \in Devices : mesh[d] = mesh[e] => d = e /\ mesh[d] # None
      /\ file \in [roles : RoleMaps, others : {[d \in Devices |-> None]}]
      /\ \A r \in Roles : file.roles[r] = Unassigned \/ mesh[file.roles[r].dev] = file.roles[r].name
      /\ \A r, q \in Roles : file.roles[r] = file.roles[q] => r = q \/ file.roles[r] = Unassigned
      /\ monitor = Loaded(file)
      /\ asked = {} /\ wire = <<>> /\ link = "down" /\ loop = "alive"
      /\ cmds = [c \in Clients |-> Idle]
      /\ past = [overtaken |-> FALSE, unsaved |-> FALSE, departed |-> FALSE, deaf |-> {}, removed |-> {}]
      /\ budget = [commands |-> MaxCommands, trouble |-> MaxTrouble]
  BY DEF ZigbeeInit
<1>2. /\ file \in [roles : RoleMaps, others : Named] /\ file.roles \in RoleMaps
      /\ file.others = [d \in Devices |-> None]
  BY <1>1 DEF Named
<1>3. /\ monitor \in Views /\ monitor.roles = file.roles /\ monitor.others = file.others
      /\ monitor.source = [r \in Roles |-> None]
  BY <1>1, <1>2, LoadedIs
<1>4. /\ cmds \in [Clients -> Orders]
      /\ \A c \in Clients : cmds[c] = Idle /\ Formed(cmds[c]) /\ cmds[c].op = "none" /\ cmds[c].pc = "idle"
  BY <1>1, IdleIs
<1>5. wire \in Seq(News) /\ Len(wire) = 0
  BY <1>1
<1>6. budget \in [commands : Nat, trouble : Nat]
  BY <1>1, ZigbeeAssumption
<1>7. /\ past \in Pasts /\ past.removed = {} /\ past.unsaved = FALSE
  BY <1>1 DEF Pasts
<1>8. RegistryTypes
  BY <1>1, <1>2, <1>3, <1>4, <1>5, <1>6, <1>7 DEF RegistryTypes
<1>9. ~Quiet
  BY <1>1 DEF Quiet
<1>10. Arriving /\ Matched /\ RenamesSeen /\ Gone /\ Captures
  BY <1>1, <1>4, <1>5, <1>9 DEF Arriving, OneName, Matched, RenamesSeen, Gone, Captures, Found
<1>11. Forgotten /\ Saved /\ NamesKept /\ Listening /\ Sourced /\ Mourned
  BY <1>1, <1>3, <1>7, <1>9 DEF Forgotten, Saved, NamesKept, Listening, Sourced, Mourned
<1>12. Single
  <2>1. ASSUME NEW r \in Roles, NEW q \in Roles, Held(file.roles, r), file.roles[r].dev = file.roles[q].dev
        PROVE  r = q
    <3>1. /\ file.roles[r] = [dev |-> file.roles[r].dev, name |-> file.roles[r].name]
          /\ file.roles[q] = [dev |-> file.roles[q].dev, name |-> file.roles[q].name]
      BY <2>1, <1>2, RoleIs DEF Held
    <3>2. file.roles[r].dev # None /\ file.roles[q].dev # None
      BY <2>1 DEF Held
    <3>3. file.roles[r] # Unassigned /\ file.roles[q] # Unassigned
      BY <3>2 DEF Unassigned
    <3>4. file.roles[r].name = file.roles[q].name
      BY <2>1, <3>3, <1>1
    <3>5. file.roles[r] = file.roles[q]
      BY <2>1, <3>1, <3>4
    <3> QED
      BY <3>3, <3>5, <1>1
  <2>2. ASSUME NEW r \in Roles, Held(file.roles, r)
        PROVE  file.others[file.roles[r].dev] = None
    BY <2>2, <1>2, RoleIs
  <2> QED
    BY <2>1, <2>2, <1>3 DEF Single, OnlyRole
<1> QED
  BY <1>8, <1>10, <1>11, <1>12 DEF RegistryInv

LEMMA RegistrySteps ==
  ASSUME RegistryInv, [ZigbeeNext]_zigbeeVars
  PROVE  RegistryInv'
<1>1. CASE \E c \in Clients, d \in Devices :
             \/ \E slot \in Roles \cup {"other"} : Assign(c, d, slot)
             \/ \E n \in Names : Rename(c, d, n)
             \/ Remove(c, d) \/ Release(c, d)
  BY <1>1, AssignKeeps, RenameKeeps, RemoveKeeps, ReleaseKeeps
<1>2. CASE \E d \in Devices : Reading(d)
  BY <1>2, ReadingKeeps
<1>3. CASE \E c \in Clients : Timeout(c) \/ WriteRefused(c)
  BY <1>3, TimeoutKeeps
<1>4. CASE \E c \in Clients, saved \in BOOLEAN : Write(c, saved)
  BY <1>4, WriteKeeps
<1>5. CASE \E failing \in {"no", "roles", "others"} : HandleDevices(failing)
  BY <1>5, HandleDevicesKeeps
<1>6. CASE HandleResponse
  BY <1>6, HandleResponseKeeps
<1>7. CASE Connect
  BY <1>7, BrokerConnects
<1>8. CASE Disconnect
  BY <1>8, DisconnectKeeps
<1>9. CASE Restart
  BY <1>9, ProcessRestarts
<1>10. CASE \E q \in asked, ok, first \in BOOLEAN : Serve(q, ok, first)
  BY <1>10, ServeKeeps
<1>11. CASE \E d \in Devices, to \in Names \cup {None} : NetworkChanges(d, to)
  BY <1>11, NetworkChangesKeeps
<1>12. CASE UNCHANGED zigbeeVars
  <2>1. /\ mesh' = mesh /\ asked' = asked /\ wire' = wire /\ link' = link /\ loop' = loop /\ file' = file
        /\ past' = past /\ budget' = budget /\ monitor' = monitor /\ cmds' = cmds
    BY <1>12 DEF zigbeeVars
  <2>2. RegistryTypes' /\ Sourced' /\ Resting
    BY <2>1 DEF RegistryInv, RegistryTypes, Sourced, Orderly, Resting, Alike
  <2> QED
    BY <2>1, <2>2, NothingWritten
<1> QED
  BY <1>1, <1>2, <1>3, <1>4, <1>5, <1>6, <1>7, <1>8, <1>9, <1>10, <1>11, <1>12 DEF ZigbeeNext
-----------------------------------------------------------------------------
(* The types *)

\* What a node counts stays within its bounds, and nothing was read in the future.
InBounds(node) ==
  /\ node \in NodeRecords /\ node.at <= now
  /\ node.failures <= Confirmed /\ node.polls <= Confirmed
  /\ node.usable => node.online

Bounded(s) == s \in BusStates /\ \A a \in Addresses : InBounds(s.nodes[a])

SensingBounds ==
  /\ now <= MaxTime /\ port \in {"there", "gone"} /\ mishaps \in 0..MaxMishaps
  /\ Len(queue) <= QueueSize /\ \A i \in 1..Len(queue) : Bounded(queue[i])
  /\ Bounded(worker.state) /\ Bounded(core) /\ Bounded(shown.state)

SensingKept == SensingInv /\ SensingBounds

LEMMA SensingTyped == SensingKept => SensingTypeOK
<1> SUFFICES ASSUME SensingKept
             PROVE  SensingTypeOK
  OBVIOUS
<1>1. /\ now \in 0..MaxTime /\ worker.alive \in BOOLEAN /\ worker.turn \in {"due", "done"}
      /\ worker.open \in BOOLEAN /\ Confirmed \in Nat
  BY SensingAssumption DEF SensingKept, SensingInv, SensingTypes, SensingBounds, WorkerRecords
<1>2. ASSUME NEW s, Bounded(s), NEW a \in Addresses
      PROVE  /\ s.nodes[a].at \in 0..now
             /\ s.nodes[a].failures \in 0..Confirmed /\ s.nodes[a].polls \in 0..Confirmed
             /\ s.nodes[a].usable => s.nodes[a].online
  BY <1>1, <1>2 DEF Bounded, InBounds, NodeRecords
<1> QED
  BY <1>1, <1>2 DEF SensingKept, SensingBounds, SensingTypeOK

LEMMA NewBounds == now \in Nat => Bounded(NewState)
<1> SUFFICES ASSUME now \in Nat
             PROVE  Bounded(NewState)
  OBVIOUS
<1>1. InBounds(NewNode)
  BY SensingAssumption DEF NewNode, InBounds, NodeRecords
<1>2. \A a \in Addresses : NewState.nodes[a] = NewNode
  BY DEF NewState
<1> QED
  BY <1>1, <1>2, NewStates DEF Bounded

LEMMA BoundsStart == SensingInit => SensingKept
<1> SUFFICES ASSUME SensingInit
             PROVE  SensingBounds
  BY SensingStarts DEF SensingKept
<1>1. /\ now = 0 /\ port = "there" /\ mishaps = MaxMishaps /\ queue = <<>>
      /\ worker.state = NewState /\ core = NewState /\ shown.state = NewState
  BY DEF SensingInit, FreshWorker
<1> QED
  BY <1>1, NewBounds, SensingAssumption DEF SensingBounds

\* A state that is in bounds stays there as time passes.
LEMMA BoundsLast ==
  ASSUME NEW s, Bounded(s), now \in Nat, now' \in Nat, now' >= now
  PROVE  s \in BusStates /\ \A a \in Addresses :
           /\ s.nodes[a] \in NodeRecords /\ s.nodes[a].at <= now'
           /\ s.nodes[a].failures <= Confirmed /\ s.nodes[a].polls <= Confirmed
           /\ s.nodes[a].usable => s.nodes[a].online
  BY DEF Bounded, InBounds, NodeRecords

LEMMA DrainedBounds ==
  ASSUME SensingKept
  PROVE  Bounded(Drained)
<1>1. CASE queue = <<>>
  BY <1>1 DEF Drained, SensingKept, SensingBounds
<1>2. CASE queue # <<>>
  <2>1. Len(queue) \in 1..Len(queue)
    BY <1>2 DEF SensingKept, SensingInv, SensingTypes
  <2> QED
    BY <1>2, <2>1 DEF Drained, SensingKept, SensingBounds
<1> QED
  BY <1>1, <1>2

LEMMA PushedBounds ==
  ASSUME SensingKept, NEW s, Bounded(s)
  PROVE  Len(Pushed(s)) <= QueueSize /\ \A i \in 1..Len(Pushed(s)) : Bounded(Pushed(s)[i])
<1> DEFINE q == IF Len(queue) < QueueSize THEN queue ELSE Tail(queue)
<1>1. /\ queue \in Seq(BusStates) /\ QueueSize \in Nat \ {0} /\ Len(queue) <= QueueSize
      /\ \A i \in 1..Len(queue) : Bounded(queue[i])
  BY SensingAssumption DEF SensingKept, SensingInv, SensingTypes, SensingBounds
<1>2. q \in Seq(BusStates) /\ Len(q) < QueueSize /\ \A i \in 1..Len(q) : Bounded(q[i])
  <2>1. CASE Len(queue) < QueueSize
    BY <1>1, <2>1
  <2>2. CASE ~(Len(queue) < QueueSize)
    <3>1. q = Tail(queue) /\ queue # <<>> /\ Len(queue) = QueueSize
      BY <1>1, <2>2
    <3>2. /\ Tail(queue) \in Seq(BusStates) /\ Len(Tail(queue)) = Len(queue) - 1
          /\ \A i \in 1..Len(Tail(queue)) : Tail(queue)[i] = queue[i + 1]
      BY <1>1, <3>1
    <3>3. \A i \in 1..Len(Tail(queue)) : i + 1 \in 1..Len(queue)
      BY <1>1, <3>2
    <3> QED
      BY <1>1, <3>1, <3>2, <3>3
  <2> QED
    BY <2>1, <2>2
<1>3. Pushed(s) = Append(q, s) /\ s \in BusStates
  BY DEF Pushed, Bounded
<1> HIDE DEF q
<1>4. /\ Len(Append(q, s)) = Len(q) + 1 /\ Append(q, s)[Len(q) + 1] = s
      /\ \A i \in 1..Len(q) : Append(q, s)[i] = q[i]
  BY <1>2, <1>3
<1>5. \A i \in 1..(Len(q) + 1) : i = Len(q) + 1 \/ i \in 1..Len(q)
  BY <1>2
<1> QED
  BY <1>1, <1>2, <1>3, <1>4, <1>5

\* The core drains the queue, and shows what it has then.
LEMMA ShowBounds ==
  ASSUME SensingKept, Show, UNCHANGED now
  PROVE  /\ Len(queue') <= QueueSize /\ \A i \in 1..Len(queue') : Bounded(queue[i])'
         /\ Bounded(core)' /\ Bounded(shown.state)'
<1>1. core' = Drained /\ shown'.state = Drained /\ queue' = <<>>
  BY DEF Show
<1>2. Bounded(Drained) /\ QueueSize \in Nat
  BY DrainedBounds, SensingAssumption
<1> QED
  BY <1>1, <1>2 DEF Bounded, InBounds

LEMMA PublishBounds ==
  ASSUME SensingKept, NEW s, Bounded(s), NEW turn, NEW open, Publish(s, turn, open)
  PROVE  SensingBounds'
<1>1. worker'.state = s /\ UNCHANGED <<now, port, mishaps>>
  BY DEF Publish, SensingKept, SensingInv, SensingTypes, WorkerRecords
<1>2. CASE queue' = Pushed(s) /\ UNCHANGED <<core, shown>>
  <2>1. Len(queue') <= QueueSize /\ \A i \in 1..Len(queue') : Bounded(queue'[i])
    BY <1>2, PushedBounds
  <2> QED
    BY <1>1, <1>2, <2>1 DEF SensingKept, SensingBounds, Bounded, InBounds
<1>3. CASE Show
  BY <1>1, <1>3, ShowBounds DEF SensingKept, SensingBounds, Bounded, InBounds
<1> QED
  BY <1>2, <1>3 DEF Publish

LEMMA PolledBounds ==
  ASSUME SensingKept, NEW reached \in SUBSET Addresses, NEW polled \in PolledNodes(reached),
         NEW a \in Addresses
  PROVE  InBounds(polled[a])
<1>1. polled[a] \in IF a \in reached THEN Polled(worker.state.nodes[a]) ELSE {worker.state.nodes[a]}
  BY DEF PolledNodes
<1>2. now \in Nat /\ Confirmed \in Nat /\ Bounded(worker.state)
  BY SensingAssumption DEF SensingKept, SensingInv, SensingTypes, SensingBounds
<1>3. \A n \in Nat : More(n) \in Nat /\ More(n) <= Confirmed
  BY <1>2 DEF More
<1>4. ASSUME NEW node, InBounds(node)
      PROVE  InBounds(Silent(node))
  <2>1. node \in NodeRecords /\ node.at <= now
    BY <1>4 DEF InBounds
  <2>2. /\ More(node.polls) \in Nat /\ More(node.polls) <= Confirmed
        /\ More(node.failures) \in Nat /\ More(node.failures) <= Confirmed
    BY <1>3, <2>1 DEF NodeRecords
  <2> QED
    BY <2>1, <2>2 DEF Silent, InBounds, NodeRecords
<1>5. ASSUME NEW node, InBounds(node), NEW answer \in Answers
      PROVE  InBounds(Answered(node, answer))
  <2>1. node \in NodeRecords
    BY <1>5 DEF InBounds
  <2>2. /\ More(node.polls) \in Nat /\ More(node.polls) <= Confirmed
        /\ More(node.invalid) \in Nat /\ More(node.old) \in Nat
        /\ node.invalid \in Nat /\ node.old \in Nat
    BY <1>3, <2>1 DEF NodeRecords
  <2>3. Answered(node, answer) \in NodeRecords
    BY <1>2, <2>2 DEF Answered, NodeRecords
  <2> QED
    BY <1>2, <2>2, <2>3 DEF Answered, InBounds
<1>6. InBounds(worker.state.nodes[a])
  BY <1>2 DEF Bounded
<1>7. \/ polled[a] = worker.state.nodes[a] \/ polled[a] = Silent(worker.state.nodes[a])
      \/ \E answer \in Answers : polled[a] = Answered(worker.state.nodes[a], answer)
  BY <1>1 DEF Polled
<1> QED
  BY <1>4, <1>5, <1>6, <1>7

LEMMA CycleBounds ==
  ASSUME SensingKept, Cycle
  PROVE  SensingBounds'
<1>1. PICK polled \in PolledNodes(Addresses) :
        Publish([ready |-> TRUE, error |-> FALSE, opening |-> FALSE, nodes |-> polled],
                "done", TRUE)
  BY DEF Cycle
<1> DEFINE s == [ready |-> TRUE, error |-> FALSE, opening |-> FALSE, nodes |-> polled]
<1>2. polled \in [Addresses -> NodeRecords] /\ \A a \in Addresses : InBounds(polled[a])
  BY NodesPolled, PolledBounds DEF SensingKept
<1>3. Bounded(s)
  BY <1>2 DEF Bounded, BusStates
<1>4. Publish(s, "done", TRUE)
  BY <1>1
<1> HIDE DEF s
<1> QED
  BY <1>3, <1>4, PublishBounds

LEMMA PortBounds ==
  ASSUME SensingKept, OpenPort \/ SerialFailure
  PROVE  SensingBounds'
<1>1. Bounded(worker.state)
  BY DEF SensingKept, SensingBounds
<1>2. CASE OpenPort
  <2> DEFINE s == [worker.state EXCEPT !.ready = TRUE, !.error = FALSE, !.opening = TRUE]
  <2>1. Bounded(s) /\ Publish(s, "due", TRUE)
    BY <1>1, <1>2 DEF OpenPort, Bounded, BusStates
  <2> HIDE DEF s
  <2> QED
    BY <2>1, PublishBounds
<1>3. CASE SerialFailure
  <2>1. PICK reached \in SUBSET Addresses : \E polled \in PolledNodes(reached) :
          Publish([ready |-> FALSE, error |-> TRUE, opening |-> FALSE, nodes |-> polled],
                  "done", FALSE)
    BY <1>3 DEF SerialFailure
  <2>2. PICK polled \in PolledNodes(reached) :
          Publish([ready |-> FALSE, error |-> TRUE, opening |-> FALSE, nodes |-> polled],
                  "done", FALSE)
    BY <2>1
  <2> DEFINE s == [ready |-> FALSE, error |-> TRUE, opening |-> FALSE, nodes |-> polled]
  <2>3. polled \in [Addresses -> NodeRecords] /\ \A a \in Addresses : InBounds(polled[a])
    BY NodesPolled, PolledBounds DEF SensingKept
  <2>4. Bounded(s) /\ Publish(s, "done", FALSE)
    BY <2>2, <2>3 DEF Bounded, BusStates
  <2> HIDE DEF s
  <2> QED
    BY <2>4, PublishBounds
<1> QED
  BY <1>2, <1>3

LEMMA HealthBounds ==
  ASSUME SensingKept, HealthCheck
  PROVE  SensingBounds'
<1>1. queue' = <<>> /\ UNCHANGED <<now, port, shown, mishaps>>
  BY DEF HealthCheck
<1>2. Bounded(Drained) /\ Bounded(NewState) /\ QueueSize \in Nat
  BY DrainedBounds, NewBounds, SensingAssumption DEF SensingKept, SensingInv, SensingTypes
<1>3. Bounded(core') /\ Bounded(worker'.state)
  <2>1. CASE worker.alive
    BY <1>2, <2>1 DEF HealthCheck, SensingKept, SensingBounds
  <2>2. CASE ~worker.alive
    <3>1. core' = Buried(Drained) /\ worker'.state = NewState
      BY <2>2 DEF HealthCheck, FreshWorker
    <3>2. Bounded(Buried(Drained))
      BY <1>2 DEF Buried, Bounded, BusStates
    <3> QED
      BY <1>2, <3>1, <3>2
  <2> QED
    BY <2>1, <2>2
<1> QED
  BY <1>1, <1>2, <1>3 DEF SensingKept, SensingBounds, Bounded, InBounds

LEMMA TickBounds ==
  ASSUME SensingKept, Tick
  PROVE  SensingBounds'
<1>1. /\ now \in Nat /\ now' = now + 1 /\ now < MaxTime /\ MaxTime \in Nat
      /\ worker'.state = worker.state /\ UNCHANGED <<port, queue, core, shown, mishaps>>
  BY SensingAssumption DEF Tick, SensingKept, SensingInv, SensingTypes, WorkerRecords
<1>2. ASSUME NEW s, Bounded(s)
      PROVE  s \in BusStates /\ \A a \in Addresses :
               /\ s.nodes[a] \in NodeRecords /\ s.nodes[a].at <= now'
               /\ s.nodes[a].failures <= Confirmed /\ s.nodes[a].polls <= Confirmed
               /\ s.nodes[a].usable => s.nodes[a].online
  BY <1>1, <1>2, BoundsLast
<1>3. now' <= MaxTime
  BY <1>1
<1> QED
  BY <1>1, <1>2, <1>3 DEF SensingKept, SensingBounds, Bounded, InBounds

LEMMA BoundsStep == SensingKept /\ [SensingNext]_sensingVars => SensingKept'
<1> SUFFICES ASSUME SensingKept, [SensingNext]_sensingVars
             PROVE  SensingBounds'
  BY SensingSteps DEF SensingKept
<1>1. CASE OpenPort \/ Cycle \/ SerialFailure
  BY <1>1, PortBounds, CycleBounds
<1>2. CASE HealthCheck \/ Tick
  BY <1>2, HealthBounds, TickBounds
<1>3. CASE View
  <2>1. Show /\ UNCHANGED <<now, port, worker, mishaps>>
    BY <1>3 DEF View
  <2> QED
    BY <2>1, ShowBounds DEF SensingKept, SensingBounds, Bounded, InBounds
<1>4. CASE WorkerDies \/ PortLost \/ PortBack \/ UNCHANGED sensingVars
  <2>1. /\ UNCHANGED <<now, queue, core, shown>> /\ worker'.state = worker.state
        /\ port' \in {"there", "gone"} /\ mishaps' \in 0..MaxMishaps
    BY <1>4, SensingAssumption
       DEF WorkerDies, PortLost, PortBack, sensingVars, SensingKept, SensingInv, SensingTypes,
           SensingBounds, WorkerRecords
  <2> QED
    BY <2>1 DEF SensingKept, SensingBounds, Bounded, InBounds
<1> QED
  BY <1>1, <1>2, <1>3, <1>4 DEF SensingNext

LEMMA ScheduleTypesKept ==
  /\ ScheduleInit => ScheduleTypeOK
  /\ ScheduleTypeOK /\ [ScheduleNext]_scheduleVars => ScheduleTypeOK'
<1>1. ScheduleInit => ScheduleTypeOK
  BY ScheduleStarts, ScheduleAssumption DEF ScheduleInit, ScheduleTypeOK, ScheduleInv
<1>2. ASSUME ScheduleTypeOK, [ScheduleNext]_scheduleVars
      PROVE  ScheduleTypeOK'
  <2>1. ASSUME NEW z \in Zones, NEW config \in Configurations, ReplaceZone(z, config)
        PROVE  ScheduleTypeOK'
    <3>1. edits' \in 0..MaxEdits /\ store' = store
      BY <1>2, <2>1, ScheduleAssumption DEF ReplaceZone, ScheduleTypeOK
    <3>2. table' = table \/ table' = [table EXCEPT ![z] = config]
      BY <2>1 DEF ReplaceZone
    <3> QED
      BY <1>2, <2>1, <3>1, <3>2 DEF ScheduleTypeOK
  <2>2. CASE StoreFails \/ StoreRecovers \/ UNCHANGED scheduleVars
    BY <1>2, <2>2 DEF StoreFails, StoreRecovers, scheduleVars, ScheduleTypeOK
  <2> QED
    BY <1>2, <2>1, <2>2 DEF ScheduleNext
<1> QED
  BY <1>1, <1>2

LEMMA PolicyTypesKept ==
  /\ PolicyInit => PolicyTypeOK
  /\ PolicyTypeOK /\ [PolicyNext]_policyVars => PolicyTypeOK'
<1>1. PolicyInit => PolicyTypeOK
  BY AlertPolicyAssumption DEF PolicyInit, PolicyTypeOK
<1>2. ASSUME PolicyTypeOK, [PolicyNext]_policyVars
      PROVE  PolicyTypeOK'
  <2>1. CASE CoreStarts
    <3>1. manager'.policy \in {policyFile, NoDocument} /\ UNCHANGED <<policyFile, policyEdits>>
      BY <2>1 DEF CoreStarts, Reloaded
    <3> QED
      BY <1>2, <3>1 DEF PolicyTypeOK
  <2>2. CASE CoreEnds \/ UNCHANGED policyVars
    BY <1>2, <2>2 DEF CoreEnds, policyVars, PolicyTypeOK
  <2>3. CASE EditPolicy
    BY <1>2, <2>3, AlertPolicyAssumption DEF EditPolicy, PolicyTypeOK
  <2> QED
    BY <1>2, <2>1, <2>2, <2>3 DEF PolicyNext
<1> QED
  BY <1>1, <1>2

\* Only sensors there are join the network.
LEMMA JoinedKept ==
  ASSUME RemovalInv, joined \subseteq Sensors, [RemovalNext]_removalVars
  PROVE  joined' \subseteq Sensors
<1>1. \/ joined' \subseteq joined
      \/ \E d \in Sensors : joined' = joined \cup {d}
  BY DEF RemovalNext, Overdue, Ask, JoinsAgain, Refuse, Cancel, ConfirmRemoval, RemovalDone,
         RemovalFails, removalVars
<1> QED
  BY <1>1

LEMMA RemovalTyped == RemovalInv /\ joined \subseteq Sensors => RemovalTypeOK
  BY DEF RemovalInv, RemovalTypes, Recorded, KnownDialog, DialogRecords, Trails, RemovalTypeOK

LEMMA RegistryTyped == RegistryInv => ZigbeeTypeOK
  BY DEF RegistryInv, RegistryTypes, Views, Orders, ZigbeeTypeOK

-----------------------------------------------------------------------------
(* A step of the whole is a step of each part, or none. *)

LEMMA Parts ==
  [Next]_vars => /\ [ScheduleNext]_scheduleVars
                 /\ [RemovalNext]_removalVars
                 /\ [SensorNext]_sensorVars
                 /\ [SensingNext]_sensingVars
                 /\ [ReportsNext]_reportVars
                 /\ [PageNext]_pageVars
                 /\ [PolicyNext]_policyVars
                 /\ [ZigbeeNext]_zigbeeVars
                 /\ [HistoryNext]_historyVars
                 /\ [FeedbackNext]_feedbackVars
<1> SUFFICES ASSUME [Next]_vars
             PROVE  /\ [ScheduleNext]_scheduleVars
                    /\ [RemovalNext]_removalVars
                    /\ [SensorNext]_sensorVars
                    /\ [SensingNext]_sensingVars
                    /\ [ReportsNext]_reportVars
                    /\ [PageNext]_pageVars
                    /\ [PolicyNext]_policyVars
                    /\ [ZigbeeNext]_zigbeeVars
                    /\ [HistoryNext]_historyVars
                    /\ [FeedbackNext]_feedbackVars
  OBVIOUS
<1>1. CASE Next
  BY <1>1 DEF Next, OthersStay
<1>2. CASE UNCHANGED vars
  BY <1>2 DEF vars
<1> QED
  BY <1>1, <1>2

\* The schedule the core evaluates is the one its windows mean, at every minute of the
\* week and for every set of windows that replacements let in.
THEOREM SchedulesAreExact == Spec => []ScheduleIsExact
<1>1. Init => ScheduleInv
  BY ScheduleStarts DEF Init
<1>2. ScheduleInv /\ [Next]_vars => ScheduleInv'
  BY Parts, ScheduleSteps
<1> QED
  BY <1>1, <1>2, ScheduleExact, PTL DEF Spec

\* A removal reaches the network only as an operator confirmed it, and one at a time
\* while nothing overtakes it, for any devices, panels and number of dialogs.
THEOREM RemovalsAreAsked == Spec => []RemovalAsked
<1>1. Init => RemovalInv
  BY RemovalStarts DEF Init
<1>2. RemovalInv /\ [Next]_vars => RemovalInv'
  BY Parts, RemovalSteps
<1> QED
  BY <1>1, <1>2, RemovalHolds, PTL DEF Spec

\* A sensor that is silent for too long is signalled, and one heard in time is not called
\* stale, however messages are repeated, connections lost and programs restarted.
THEOREM SilenceIsSignalled == Spec => []SilenceSignalled
<1>1. PlainSetup \in Setups
  BY DEF PlainSetup, Setups
<1>2. Init => SensorInv
  BY <1>1, SensorStarts DEF Init, SensorInit
<1>3. SensorInv /\ [Next]_vars => SensorInv'
  BY Parts, SensorSteps
<1> QED
  BY <1>2, <1>3, SensorHolds, PTL DEF Spec

\* Readings of a node that are more than two intervals old pass for usable only while the
\* bus is signalled or being opened, for any nodes, queue and number of mishaps.
THEOREM OldReadingsNeverHide == Spec => []OldReadingsAreSignalled
<1>1. Init => SensingInv
  BY SensingStarts DEF Init
<1>2. SensingInv /\ [Next]_vars => SensingInv'
  BY Parts, SensingSteps
<1>3. SensingInv => OldReadingsAreSignalled
  BY DEF SensingInv
<1> QED
  BY <1>1, <1>2, <1>3, PTL DEF Spec

\* A report from outside is shown for available only as it stood whole in its file, and for
\* fresh only within its time; each tile of the SERVICE page says what its endpoint answered
\* during the poll that drew it: for any reports, clock, number of accidents and of changes.
THEOREM WhatIsShownWasTrue == Spec => []ShownIsTrue
<1>1. Init => ReportsInv /\ PageInv
  BY ReportsStart, PageStarts DEF Init
<1>2. ReportsInv /\ PageInv /\ [Next]_vars => ReportsInv' /\ PageInv'
  BY Parts, ReportsSteps, PageSteps
<1>3. ReportsInv /\ PageInv => ShownIsTrue
  BY ReportsHold DEF PageInv, ShownIsTrue
<1> QED
  BY <1>1, <1>2, <1>3, PTL DEF Spec

\* A policy in use means what the contract says, of any codes, whatever was written into
\* its file and whenever.
THEOREM PoliciesStayHonest == Spec => []PolicyStaysHonest
<1>1. Init => PolicyInv
  BY PolicyStarts DEF Init
<1>2. PolicyInv /\ [Next]_vars => PolicyInv'
  BY Parts, PolicySteps
<1>3. PolicyInv => PolicyStaysHonest
  BY PolicyHolds DEF PolicyStaysHonest
<1> QED
  BY <1>1, <1>2, <1>3, PTL DEF Spec

\* Whatever tuning the start accepts, the SHADOW advice is sound for all readings: worse
\* air never lowers it, no input alone asks for more than all of them, bad air outranks the
\* temperature, and a zone that safety blocks is asked nothing.
THEOREM AdviceIsSound == Spec => []AdviceStaysSound
<1> DEFINE Started == tuning \in Tunings /\ ValidTuning(tuning)
<1>1. Init => Started
  BY DEF Init, ShadowInit
<1>2. Started /\ [Next]_vars => Started'
  <2>1. [Next]_vars => UNCHANGED tuning
    BY DEF Next, vars
  <2> QED
    BY <2>1 DEF ValidTuning, Ranged, Rising, Falling
<1>3. Started => AdviceStaysSound
  BY FitAdvises DEF AdviceStaysSound
<1> QED
  BY <1>1, <1>2, <1>3, PTL DEF Spec

\* The speed shown of a fan is the fan's, across bounces, pauses and failures of the worker,
\* and a low supply stays signalled until it is seen good: for any lines and constants.
THEOREM FeedbackStaysTrue == Spec => []FeedbackTrue
<1>1. Init => FeedbackInv
  BY FeedbackStarts DEF Init
<1>2. FeedbackInv /\ [Next]_vars => FeedbackInv'
  BY Parts, FeedbackSteps
<1> QED
  BY <1>1, <1>2, FeedbackHolds, PTL DEF Spec

\* Of any alerts, closed at any instants while the journal is read page by page: a day's list
\* that has no further page holds every alert that the day counts, newest first and none
\* twice, and days that go back to the oldest count all that was closed when they were begun.
THEOREM JournalsAreComplete == Spec => []JournalComplete
<1>1. Init => JournalInv
  BY JournalStarts DEF Init
<1>2. JournalInv /\ [Next]_vars => JournalInv'
  BY Parts, JournalSteps
<1> QED
  BY <1>1, <1>2, JournalHolds, PTL DEF Spec

\* The registry of Zigbee roles, under commands that sleep while the bridge answers, its
\* messages, failed saves, lost connections and restarts, for any number of devices, roles
\* and clients.
THEOREM RegistryStaysSound == Spec => []RegistrySound
<1>1. Init => RegistryInv
  BY RegistryStarts DEF Init
<1>2. RegistryInv /\ [Next]_vars => RegistryInv'
  BY Parts, RegistrySteps
<1> QED
  BY <1>1, <1>2, RegistryHolds, PTL DEF Spec
\* Every part keeps its types: the counts of a sensor node and the queue of its states stay
\* within their bounds, what was read is never from the future, and the schedule, the
\* registry, the dialogs and the policy in use are only ever ones that their code makes.
THEOREM TypesAreKept == Spec => []TypeOK
<1> DEFINE AllTyped == /\ focus \in Foci /\ SensingKept /\ ScheduleTypeOK /\ RegistryInv
                       /\ RemovalInv /\ joined \subseteq Sensors /\ PolicyTypeOK
<1>1. Init => AllTyped
  BY BoundsStart, ScheduleTypesKept, RegistryStarts, RemovalStarts, PolicyTypesKept
     DEF Init, RemovalInit
<1>2. AllTyped /\ [Next]_vars => AllTyped'
  <2> SUFFICES ASSUME AllTyped, [Next]_vars
               PROVE  AllTyped'
    OBVIOUS
  <2>1. focus' = focus
    BY DEF Next, vars
  <2>2. SensingKept' /\ ScheduleTypeOK' /\ PolicyTypeOK'
    BY Parts, BoundsStep, ScheduleTypesKept, PolicyTypesKept
  <2>3. RegistryInv' /\ RemovalInv' /\ joined' \subseteq Sensors
    BY Parts, RegistrySteps, RemovalSteps, JoinedKept
  <2> QED
    BY <2>1, <2>2, <2>3 DEF Foci
<1>3. AllTyped => TypeOK
  BY SensingTyped, RegistryTyped, RemovalTyped DEF TypeOK
<1> QED
  BY <1>1, <1>2, <1>3, PTL DEF Spec
=============================================================================
