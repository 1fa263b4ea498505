----------------------------- MODULE MCAlertsFinal -----------------------------
(***************************************************************************)
(* Alerts with one observation more: the highest count clients were shown  *)
(* of each active alert since the core started.                            *)
(***************************************************************************)
EXTENDS Alerts, TLC

CONSTANT node

VARIABLE seen

MCKeys == {node}
MCMaxCount == node :> 2

\* The counts clients may have been shown of k's alert, so far and in this state.
Visible(k) == {seen[k]} \cup {Shown(r) : r \in {s \in open : s.key = k}}

ObservedInit == AlertsInit /\ seen = Nothing

ObservedNext ==
  /\ AlertsNext
  /\ seen' = [k \in Keys |->
       IF corePhase' # "up" \/ \A r \in open' : r.key # k THEN 0
       ELSE IF Free THEN CHOOSE n \in Visible(k) : \A m \in Visible(k) : m <= n
       ELSE seen[k]]

ObservedSpec == ObservedInit /\ [][ObservedNext]_<<alertsVars, seen>>

\* AlertRegistry's docstring (alert_registry.py:128) says that the exact final
\* count is persisted atomically when the incident is cleared. Stated of the
\* step that clears an alert: the count it writes, the larger of the record's
\* and the cached one, is what clients were shown before.
ExactFinalCount ==
  [][\A k \in Keys : (\E t \in Threads : ClearKey(t, k)) =>
       \A r \in open : r.key = k => Shown(r) >= seen[k]]_<<alertsVars, seen>>
==============================================================================
