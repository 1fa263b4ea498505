---------------------------- MODULE AlertHistory ----------------------------
(***************************************************************************)
(* The journal of closed alerts as a reader sees it: the pages that the    *)
(* reader of the alert database cuts (web/alert_history.py) and the list a *)
(* browser builds of them (web/static/history-h43-alert-pagination.js),    *)
(* while the core closes further alerts.                                   *)
(*                                                                         *)
(* Several alerts may be closed at one instant; identifiers follow their   *)
(* beginning, not their end.  A summary of a day is the set of the alerts  *)
(* it counts.  The server reads the database when a request arrives; what  *)
(* it answers is on its way until the browser takes it.                    *)
(***************************************************************************)
EXTENDS Naturals, Sequences, FiniteSets

CONSTANTS Alerts,      \* identifiers of alerts, numbers
          DaySpan,  \* instants of a local day
          PageSize,    \* HISTORY_H43_DAY_PAGE_SIZE
          WindowDays,  \* HISTORY_H43_INDEX_WINDOW_DAYS
          LastInstant, \* instants explored
          NoAnswer, NoCursor, NoList

ASSUME AlertHistoryAssumption ==
  /\ Alerts \subseteq Nat /\ DaySpan \in Nat \ {0}
  /\ PageSize \in Nat \ {0} /\ WindowDays \in Nat \ {0} /\ LastInstant \in Nat
  /\ NoCursor \notin Nat \cup [id : Alerts, at : 0..LastInstant]
  /\ NoList # [records |-> <<>>, loaded |-> FALSE, cursor |-> NoCursor]

VARIABLES
  instant,  \* the present
  closed,   \* the journal: closed alerts and when they were closed
  index,    \* the browser's days: their summaries and how far back they go
  lists,    \* per day: dayCache, or NoList
  indexAnswer, \* answer to the index request on its way, or NoAnswer
  dayAnswer,   \* per day: answer to the request of its list, or NoAnswer
  begun     \* the journal when the index was read first

historyVars == <<instant, closed, index, lists, indexAnswer, dayAnswer, begun>>

DayOf(t) == t \div DaySpan
CalendarDays == 0..DayOf(LastInstant)
OnDay(d) == {r \in closed : DayOf(r.at) = d}

HistoryInit ==
  /\ instant = 0 /\ closed = {}
  /\ index = [ready |-> FALSE, days |-> [d \in CalendarDays |-> {}], before |-> NoCursor]
  /\ lists = [d \in CalendarDays |-> NoList]
  /\ indexAnswer = NoAnswer /\ dayAnswer = [d \in CalendarDays |-> NoAnswer]
  /\ begun = {}

-----------------------------------------------------------------------------
(* The core: alerts are closed, one or several at an instant.              *)
InstantPasses ==
  /\ instant < LastInstant
  /\ instant' = instant + 1
  /\ UNCHANGED <<closed, index, lists, indexAnswer, dayAnswer, begun>>

(* reconcile takes the time before it looks for alerts that are over and    *)
(* their closing is committed, with a clock that may have been set back: an *)
(* alert may appear in the journal with any time of the past.               *)
CloseAlert(a) ==
  /\ \A r \in closed : r.id # a
  /\ \E at \in 0..instant : closed' = closed \cup {[id |-> a, at |-> at]}
  /\ UNCHANGED <<instant, index, lists, indexAnswer, dayAnswer, begun>>

-----------------------------------------------------------------------------
(* The server *)

(* day_index: the days of one window that have closed alerts, and where the *)
(* next window ends if there is anything older.                             *)
DayIndex(end) ==
  LET start == IF end > WindowDays THEN end - WindowDays ELSE 0
  IN [days |-> [d \in CalendarDays |-> IF d >= start /\ d < end THEN OnDay(d) ELSE {}],
      before |-> IF \E r \in closed : DayOf(r.at) < start THEN start ELSE NoCursor]

(* ORDER BY cleared_at DESC, alert_id DESC *)
Newer(r, s) == r.at > s.at \/ (r.at = s.at /\ r.id > s.id)

(* Mutant of Below: the cursor is the time alone. *)
BelowInTime(r, cursor) == cursor = NoCursor \/ r.at < cursor.at

Below(r, cursor) == cursor = NoCursor \/ Newer(cursor, r)

(* In that order, the place of a record is after those that are newer.      *)
Place(r, S) == Cardinality({s \in S : Newer(s, r)}) + 1
InOrder(S) == [i \in 1..Cardinality(S) |-> CHOOSE r \in S : Place(r, S) = i]

(* query_day: a page of the records below the cursor, and one record more  *)
(* to know whether there are others.                                       *)
QueryDay(d, cursor) ==
  LET rows == InOrder({r \in OnDay(d) : Below(r, cursor)})
      more == Len(rows) > PageSize
  IN [records |-> IF more THEN SubSeq(rows, 1, PageSize) ELSE rows,
      cursor |-> IF more THEN rows[PageSize] ELSE NoCursor]

-----------------------------------------------------------------------------
(* The browser *)

(* historyH43LoadIndex: one request at a time; the first one, the poll of   *)
(* the minute, or older days.                                               *)
AskIndex(older) ==
  /\ indexAnswer = NoAnswer
  /\ older => index.ready /\ index.before # NoCursor
  /\ indexAnswer' = [older |-> older,
                     page |-> DayIndex(IF older THEN index.before ELSE DayOf(instant) + 1)]
  /\ begun' = IF index.ready THEN begun ELSE closed
  /\ UNCHANGED <<instant, closed, index, lists, dayAnswer>>

(* historyH43MergeIndex: a day whose count has changed loses its list, and  *)
(* what is on its way for that list is for nobody.                          *)
Recounted(d) ==
  LET new == indexAnswer.page.days[d]
      old == index.days[d]
  IN lists[d] # NoList /\ new # {} /\ old # {} /\ Cardinality(new) # Cardinality(old)

TakeIndex ==
  LET page == indexAnswer.page IN
  /\ indexAnswer # NoAnswer
  /\ index' = [ready |-> TRUE,
               days |-> [d \in CalendarDays |-> IF page.days[d] # {} THEN page.days[d] ELSE index.days[d]],
               before |-> IF ~index.ready \/ indexAnswer.older \/ index.before = NoCursor
                            THEN page.before ELSE index.before]
  /\ lists' = [d \in CalendarDays |-> IF Recounted(d) THEN NoList ELSE lists[d]]
  /\ dayAnswer' = [d \in CalendarDays |-> IF Recounted(d) THEN NoAnswer ELSE dayAnswer[d]]
  /\ indexAnswer' = NoAnswer
  /\ UNCHANGED <<instant, closed, begun>>

EmptyList == [records |-> <<>>, loaded |-> FALSE, cursor |-> NoCursor]
ListOf(d) == IF lists[d] = NoList THEN EmptyList ELSE lists[d]

(* historyH43LoadDay: the first page of a day not loaded yet, or a further  *)
(* page of one that is.                                                     *)
AskDay(d) ==
  LET list == ListOf(d) IN
  /\ index.days[d] # {} /\ dayAnswer[d] = NoAnswer
  /\ list.loaded => list.cursor # NoCursor
  /\ dayAnswer' = [dayAnswer EXCEPT ![d] = QueryDay(d, list.cursor)]
  /\ lists' = [lists EXCEPT ![d] = list]
  /\ UNCHANGED <<instant, closed, index, indexAnswer, begun>>

Unlisted(records, page) ==
  LET Listed(r) == \E i \in DOMAIN records : records[i].id = r.id
  IN IF \A i \in DOMAIN page : ~Listed(page[i]) THEN page
     ELSE SelectSeq(page, LAMBDA r : ~Listed(r))

TakeDay(d) ==
  LET answer == dayAnswer[d]
      list == ListOf(d)
  IN /\ answer # NoAnswer
     /\ lists' = [lists EXCEPT ![d] =
          [records |-> IF list.loaded THEN list.records \o Unlisted(list.records, answer.records)
                       ELSE answer.records,
           loaded |-> TRUE, cursor |-> answer.cursor]]
     /\ dayAnswer' = [dayAnswer EXCEPT ![d] = NoAnswer]
     /\ UNCHANGED <<instant, closed, index, indexAnswer, begun>>

(* A request that fails changes nothing. *)
AnswerLost ==
  \/ /\ indexAnswer # NoAnswer /\ indexAnswer' = NoAnswer
     /\ UNCHANGED <<instant, closed, index, lists, dayAnswer, begun>>
  \/ \E d \in CalendarDays :
       /\ dayAnswer[d] # NoAnswer /\ dayAnswer' = [dayAnswer EXCEPT ![d] = NoAnswer]
       /\ UNCHANGED <<instant, closed, index, lists, indexAnswer, begun>>

HistoryNext ==
  \/ InstantPasses \/ TakeIndex \/ AnswerLost
  \/ \E a \in Alerts : CloseAlert(a)
  \/ \E older \in BOOLEAN : AskIndex(older)
  \/ \E d \in CalendarDays : AskDay(d) \/ TakeDay(d)

-----------------------------------------------------------------------------
(* However alerts are closed while a journal of several pages is read, at   *)
(* whatever times, and in whatever order the answers come: a day's list     *)
(* that has no further page holds every alert the day's summary counts,     *)
(* newest first and none twice; and a browser that has been shown           *)
(* everything older counts every alert that was closed when it began.       *)
(* (alert_history.py:192-236 the cursor, the merge of the index above.)     *)
JournalComplete ==
  /\ \A d \in CalendarDays : lists[d] # NoList =>
       LET records == lists[d].records IN
       /\ lists[d].loaded /\ lists[d].cursor = NoCursor =>
            index.days[d] \subseteq {records[i] : i \in DOMAIN records}
       /\ \A i, j \in DOMAIN records : i < j => Newer(records[i], records[j])
  /\ index.ready /\ index.before = NoCursor => \A r \in begun : r \in index.days[DayOf(r.at)]
=============================================================================
