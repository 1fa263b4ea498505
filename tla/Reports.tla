------------------------------ MODULE Reports ------------------------------
(***************************************************************************)
(* What comes from outside the workshop: the AI advisory and the weather.  *)
(* An agent of each polls its server, validates the answer and replaces a  *)
(* file (advisory/, weather/); the web server shows the file               *)
(* (web/advisory.py, web/weather.py).                                      *)
(*                                                                         *)
(* A file is written beside and renamed, so that only a fault of the disk  *)
(* tears it; the directory is not synced, so that a power loss may bring   *)
(* the file before back.                                                   *)
(***************************************************************************)
EXTENDS Integers

CONSTANTS LastPoll,       \* time, in polls of an agent
          LastAnalysis,   \* analyses the AI Bridge makes
          FreshFor,       \* stale_after_seconds
          BridgeAhead,    \* how far the clock of the bridge may be ahead
          MaxAccidents,   \* failed writes, power losses, torn files explored
          NoFile, Torn, NoPayload

ASSUME ReportsAssumption ==
  LastPoll \in Nat /\ LastAnalysis \in Nat /\ FreshFor \in Nat \ {0}
  /\ BridgeAhead \in Nat /\ MaxAccidents \in Nat

VARIABLES
  reportTime,    \* the time
  newest,        \* the bridge's latest analysis [id, end, made]
  downloaded,    \* the payload the advisory agent holds, between its fetch and its save
  adviceFile,    \* [report], NoFile or Torn
  weatherFile,   \* [weather], NoFile or Torn
  earlier,       \* what the two files held before
  refreshed,     \* what the last cycle of each agent that ended well had fetched
  accidents      \* accidents left

reportVars ==
  <<reportTime, newest, downloaded, adviceFile, weatherFile, earlier, refreshed, accidents>>

ReportsInit ==
  /\ reportTime = 0 /\ accidents = MaxAccidents
  /\ newest = NoPayload /\ downloaded = NoPayload
  /\ adviceFile = NoFile /\ weatherFile = NoFile
  /\ earlier = [advice |-> NoFile, weather |-> NoFile]
  /\ refreshed = [advice |-> NoPayload, weather |-> NoPayload]

PollPasses ==
  /\ reportTime < LastPoll
  /\ reportTime' = reportTime + 1
  /\ UNCHANGED <<newest, downloaded, adviceFile, weatherFile, earlier, refreshed, accidents>>

-----------------------------------------------------------------------------
(* The advisory.  "frame" stands for the fields of the delivery and its     *)
(* three declarations that it controls nothing, "result" for its texts,     *)
(* "view" for a view of the operator that is absent or well formed.         *)

Deliveries(analysis) ==
  {[analysis |-> analysis, ours |-> ours, frame |-> frame, result |-> result, view |-> view] :
     ours \in BOOLEAN, frame \in BOOLEAN, result \in BOOLEAN, view \in BOOLEAN}

ValidDelivery(payload) ==
  payload.ours /\ payload.frame /\ payload.result /\ payload.view

BridgeAnalyses ==
  LET id == IF newest = NoPayload THEN 1 ELSE newest.id + 1
  IN /\ id <= LastAnalysis
     /\ \E lead \in 0..BridgeAhead :
          newest' = [id |-> id, end |-> reportTime + lead, made |-> reportTime]
     /\ UNCHANGED <<reportTime, downloaded, adviceFile, weatherFile, earlier, refreshed, accidents>>

(* fetch_latest; no answer, 404 and an answer that is refused change nothing. *)
FetchAdvice ==
  /\ downloaded = NoPayload /\ newest # NoPayload
  /\ \E payload \in Deliveries(newest) :
       ValidDelivery(payload) /\ downloaded' = payload
  /\ UNCHANGED <<reportTime, newest, adviceFile, weatherFile, earlier, refreshed, accidents>>

(* current_analysis_id; of an unreadable file there is none. *)
CachedAnalysis == IF adviceFile \in {NoFile, Torn} THEN 0 ELSE adviceFile.report.analysis.id

AdviceKnown ==
  /\ downloaded # NoPayload /\ CachedAnalysis = downloaded.analysis.id
  /\ downloaded' = NoPayload
  /\ refreshed' = [refreshed EXCEPT !.advice = downloaded.analysis]
  /\ UNCHANGED <<reportTime, newest, adviceFile, weatherFile, earlier, accidents>>

AdviceSaved ==
  /\ downloaded # NoPayload /\ CachedAnalysis # downloaded.analysis.id
  /\ downloaded' = NoPayload
  /\ adviceFile' = [report |-> downloaded]
  /\ earlier' = [earlier EXCEPT !.advice = adviceFile]
  /\ refreshed' = [refreshed EXCEPT !.advice = downloaded.analysis]
  /\ UNCHANGED <<reportTime, newest, weatherFile, accidents>>

(* Mutant of SaveFails: the file is written in place, and left half written. *)
SaveFailsHalfway ==
  /\ downloaded # NoPayload /\ CachedAnalysis # downloaded.analysis.id
  /\ accidents > 0 /\ accidents' = accidents - 1
  /\ downloaded' = NoPayload /\ adviceFile' = Torn
  /\ UNCHANGED <<reportTime, newest, weatherFile, earlier, refreshed>>

(* The file cannot be written: the one beside is removed, the old one stays. *)
SaveFails ==
  /\ downloaded # NoPayload /\ CachedAnalysis # downloaded.analysis.id
  /\ accidents > 0 /\ accidents' = accidents - 1
  /\ downloaded' = NoPayload
  /\ UNCHANGED <<reportTime, newest, adviceFile, weatherFile, earlier, refreshed>>

-----------------------------------------------------------------------------
(* The weather: the first sample of the forecast and the periods after it,  *)
(* of which two stand for the three.                                        *)

Periods == {1, 6}
Forecasts ==
  [temperature : BOOLEAN, wind : BOOLEAN, follows : SUBSET Periods]

(* The nearest period tells rain and sky; no period leaves them open. *)
Presented(forecast) ==
  [hours |-> {h \in forecast.follows : \A other \in forecast.follows : h <= other}]

(* What tells that there is nothing is not data. *)
Analyses == [id : Nat, end : Nat, made : Nat]
Payloads == [analysis : Analyses, ours : BOOLEAN, frame : BOOLEAN, result : BOOLEAN, view : BOOLEAN]
Weathers == [hours : SUBSET Periods]

ASSUME ReportTokens ==
  /\ NoPayload \notin Analyses
  /\ \A token \in {NoFile, Torn} : token \notin [report : Payloads] /\ token \notin [weather : Weathers]

(* fetch_once; a forecast without temperature or wind is refused, a fetch or *)
(* a save that fails changes nothing.                                        *)
RefreshWeather ==
  /\ \E forecast \in Forecasts :
       /\ forecast.temperature /\ forecast.wind
       /\ weatherFile' = [weather |-> Presented(forecast)]
       /\ refreshed' = [refreshed EXCEPT !.weather = Presented(forecast)]
  /\ earlier' = [earlier EXCEPT !.weather = weatherFile]
  /\ UNCHANGED <<reportTime, newest, downloaded, adviceFile, accidents>>

-----------------------------------------------------------------------------
AgentDies ==
  /\ downloaded # NoPayload /\ downloaded' = NoPayload
  /\ UNCHANGED <<reportTime, newest, adviceFile, weatherFile, earlier, refreshed, accidents>>

PowerFails ==
  /\ accidents > 0 /\ accidents' = accidents - 1
  /\ downloaded' = NoPayload
  /\ adviceFile' \in {adviceFile, earlier.advice}
  /\ weatherFile' \in {weatherFile, earlier.weather}
  /\ earlier' = [advice |-> adviceFile', weather |-> weatherFile']
  /\ refreshed' = [advice |-> NoPayload, weather |-> NoPayload]
  /\ UNCHANGED <<reportTime, newest>>

DiskTears ==
  /\ accidents > 0 /\ accidents' = accidents - 1
  /\ \/ adviceFile' = Torn /\ weatherFile' = weatherFile
     \/ weatherFile' = Torn /\ adviceFile' = adviceFile
  /\ refreshed' = [advice |-> NoPayload, weather |-> NoPayload]
  /\ UNCHANGED <<reportTime, newest, downloaded, earlier>>

ReportsNext ==
  \/ PollPasses \/ BridgeAnalyses \/ FetchAdvice \/ AdviceKnown \/ AdviceSaved \/ SaveFails
  \/ RefreshWeather \/ AgentDies \/ PowerFails \/ DiskTears

-----------------------------------------------------------------------------
(* What the web server answers. *)

AdviceAge == IF reportTime > adviceFile.report.analysis.end
             THEN reportTime - adviceFile.report.analysis.end ELSE 0

AdviceAvailable == adviceFile \notin {NoFile, Torn} /\ ValidDelivery(adviceFile.report)
AdviceFresh == AdviceAvailable /\ AdviceAge <= FreshFor
WeatherAvailable == weatherFile \notin {NoFile, Torn}

(* The advice on show is a whole, valid report for this installation, and   *)
(* is called fresh only while its analysis is recent, by as much as the     *)
(* clock of the bridge is ahead; what the last good refresh of an agent     *)
(* brought stays on show, whatever fetch or save fails after it, and the    *)
(* first refresh after a torn or lost file brings it back.                  *)
ReportsTrue ==
  /\ AdviceAvailable =>
       /\ adviceFile.report.ours /\ adviceFile.report.frame
       /\ adviceFile.report.result /\ adviceFile.report.view
  /\ AdviceFresh => reportTime - adviceFile.report.analysis.made <= FreshFor + BridgeAhead
  /\ refreshed.advice # NoPayload =>
       AdviceAvailable /\ adviceFile.report.analysis = refreshed.advice
  /\ refreshed.weather # NoPayload =>
       WeatherAvailable /\ weatherFile.weather = refreshed.weather
=============================================================================
