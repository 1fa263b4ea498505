---------------------------- MODULE ZigbeeSensor ----------------------------
(***************************************************************************)
(* A Zigbee sensor with a role, from its transmissions to the alerts about *)
(* it: Zigbee2MQTT and the broker's retained messages (external), the      *)
(* monitor's connection and the two rows it keeps of the sensor, one per   *)
(* role and one per listed device (zigbee_mqtt_monitor.py,                 *)
(* zigbee_reliable_monitor.py, zigbee_capability_monitor.py), and the      *)
(* signals of zigbee_service.py.                                           *)
(*                                                                         *)
(* Values are left out, times are what matters: when the sensor sent, what *)
(* time its message bears, when the monitor received it.                   *)
(***************************************************************************)
EXTENDS Naturals

CONSTANTS StaleAfter,   \* zigbee_stale_seconds
          OfflineAfter, \* Zigbee2MQTT's availability time-out
          LastHour,     \* time explored
          MaxUpsets,    \* losses of connection, stops of either program
          NoTime, NoMessage

ASSUME ZigbeeSensorAssumption ==
  /\ StaleAfter \in Nat /\ OfflineAfter \in Nat
  /\ LastHour \in Nat /\ MaxUpsets \in Nat /\ NoTime \notin Nat
  /\ NoMessage \notin [at : Nat, good : BOOLEAN]

VARIABLES
  hour,     \* the present
  bridge,   \* Zigbee2MQTT: is it up, how it is configured, the last message
            \* it remembers
  sent,     \* when the sensor sent last, or NoTime
  retained, \* the broker's: the bridge's state, the availability, a reading
  client,   \* the monitor's connection, as it shows it, and the bridge's state
  role, listed, \* the rows of the sensor: devices[role], _sensor_list_by_ieee
  handled,  \* what was received, for the properties
  upsets    \* upsets left

sensorVars == <<hour, bridge, sent, retained, client, role, listed, handled, upsets>>

(* What Zigbee2MQTT writes as last_seen: a text, nothing, or a number.      *)
Setups == [stamps : {"text", "none", "number"}, retain : BOOLEAN, tracked : BOOLEAN]

NewRow == [available |-> "unknown", seen |-> NoTime, message |-> NoTime, messages |-> FALSE, error |-> FALSE]
NewClient == [connected |-> FALSE, parted |-> FALSE, error |-> FALSE, bridge |-> "unknown"]
NoneHandled == [again |-> FALSE, sent |-> NoTime]

(* As the devices of the installation are configured. *)
PlainSetup == [stamps |-> "text", retain |-> FALSE, tracked |-> TRUE]

SensorSetup(setup) ==
  /\ hour = 0 /\ sent = NoTime /\ upsets = MaxUpsets
  /\ bridge = [up |-> TRUE, setup |-> setup, memory |-> NoMessage]
  /\ retained = [bridge |-> "online", available |-> "unknown", reading |-> NoMessage]
  /\ client = NewClient /\ role = NewRow /\ listed = NewRow /\ handled = NoneHandled

SensorInit == \E setup \in Setups : SensorSetup(setup)

Upset == upsets > 0 /\ upsets' = upsets - 1
Stamps == bridge.setup.stamps

-----------------------------------------------------------------------------
(* The rows.  A message is [at, good]: when its reading was sent, and is    *)
(* every value in its range.                                                *)

(* merge_device_payload: any value that is refused leaves the whole row as  *)
(* it was, but for the error.                                               *)
Merged(row, m) ==
  IF m.good /\ Stamps # "number"
    THEN [row EXCEPT !.message = hour, !.messages = TRUE, !.error = FALSE,
                     !.seen = IF Stamps = "text" THEN m.at ELSE @]
    ELSE [row EXCEPT !.error = TRUE]

(* _handle_generic_payload: value by value. *)
MergedByValue(row, m) ==
  [row EXCEPT !.message = hour, !.messages = TRUE, !.error = ~m.good \/ Stamps = "number",
              !.seen = IF Stamps = "text" THEN m.at ELSE @]

(* _handle_availability, _handle_generic_availability *)
Availability(row, to) == [row EXCEPT !.available = IF to = "unknown" THEN @ ELSE to]

(* _on_message: the availability, then a reading, each for both rows. *)
Receive(m, available) ==
  LET r == Availability(role, available)
      l == Availability(listed, available)
  IN IF m = NoMessage THEN role' = r /\ listed' = l /\ UNCHANGED handled
     ELSE /\ role' = Merged(r, m) /\ listed' = MergedByValue(l, m)
          /\ handled' = IF role'.error THEN handled ELSE [again |-> m.at # hour, sent |-> m.at]

-----------------------------------------------------------------------------
(* The sensor and Zigbee2MQTT *)

HourPasses ==
  /\ hour < LastHour
  /\ hour' = hour + 1
  /\ UNCHANGED <<bridge, sent, retained, client, role, listed, handled, upsets>>

(* The sensor sends; its availability is published before the reading.      *)
Transmit(good) ==
  LET after == IF bridge.setup.tracked THEN "online" ELSE "unknown"
      m == [at |-> hour, good |-> good]
  IN /\ sent' = hour
     /\ IF bridge.up
          THEN /\ bridge' = [bridge EXCEPT !.memory = m]
               /\ retained' = [retained EXCEPT
                    !.available = IF after = "unknown" THEN @ ELSE after,
                    !.reading = IF bridge.setup.retain THEN m ELSE @]
               /\ IF client.connected THEN Receive(m, after) ELSE UNCHANGED <<role, listed, handled>>
          ELSE UNCHANGED <<bridge, retained, role, listed, handled>>
     /\ UNCHANGED <<hour, client, upsets>>

Silence == IF sent = NoTime THEN hour ELSE hour - sent

MarkOffline ==
  /\ bridge.up /\ bridge.setup.tracked /\ retained.available # "offline"
  /\ Silence > OfflineAfter
  /\ retained' = [retained EXCEPT !.available = "offline"]
  /\ IF client.connected THEN Receive(NoMessage, "offline") ELSE UNCHANGED <<role, listed, handled>>
  /\ UNCHANGED <<hour, bridge, sent, client, upsets>>

(* Its last will says so. *)
BridgeStops ==
  /\ bridge.up /\ Upset
  /\ bridge' = [bridge EXCEPT !.up = FALSE]
  /\ retained' = [retained EXCEPT !.bridge = "offline"]
  /\ client' = IF client.connected THEN [client EXCEPT !.bridge = "offline"] ELSE client
  /\ UNCHANGED <<hour, sent, role, listed, handled>>

(* It publishes the readings it remembers once more, with their times.      *)
BridgeStarts ==
  /\ ~bridge.up
  /\ bridge' = [bridge EXCEPT !.up = TRUE]
  /\ retained' = [retained EXCEPT !.bridge = "online"]
  /\ client' = IF client.connected THEN [client EXCEPT !.bridge = "online"] ELSE client
  /\ IF client.connected THEN Receive(bridge.memory, "unknown") ELSE UNCHANGED <<role, listed, handled>>
  /\ UNCHANGED <<hour, sent, upsets>>

-----------------------------------------------------------------------------
(* The monitor *)

(* _on_connect: the subscriptions bring the retained messages, each a       *)
(* message like any other.                                                  *)
ConnectSensor ==
  /\ ~client.connected
  /\ client' = [client EXCEPT !.connected = TRUE, !.error = FALSE, !.bridge = retained.bridge]
  /\ Receive(retained.reading, retained.available)
  /\ UNCHANGED <<hour, bridge, sent, retained, upsets>>

(* _on_connect_fail, or a refusal by the broker *)
ConnectFails ==
  /\ ~client.connected /\ Upset
  /\ client' = [client EXCEPT !.error = TRUE]
  /\ UNCHANGED <<hour, bridge, sent, retained, role, listed, handled>>

(* _on_disconnect *)
DisconnectSensor ==
  /\ client.connected /\ Upset
  /\ client' = [client EXCEPT !.connected = FALSE, !.parted = TRUE, !.error = TRUE]
  /\ UNCHANGED <<hour, bridge, sent, retained, role, listed, handled>>

CoreRestarts ==
  /\ Upset
  /\ client' = NewClient /\ role' = NewRow /\ listed' = NewRow /\ handled' = NoneHandled
  /\ UNCHANGED <<hour, bridge, sent, retained>>

SensorNext ==
  \/ HourPasses \/ MarkOffline \/ BridgeStops \/ BridgeStarts
  \/ ConnectSensor \/ ConnectFails \/ DisconnectSensor \/ CoreRestarts
  \/ \E good \in BOOLEAN : Transmit(good)

-----------------------------------------------------------------------------
(* The signals of zigbee_service.py *)

ConnectionSignal == ~client.connected /\ (client.parted \/ client.error)
BridgeSignal == client.connected /\ client.bridge = "offline"
UnavailableSignal == role.available = "offline"

(* Mutant of DataTime: the time of reception. *)
ReceptionTime == role.message

DataTime == IF role.seen # NoTime THEN role.seen ELSE role.message

StaleSignal ==
  /\ ~UnavailableSignal /\ role.messages
  /\ DataTime # NoTime /\ hour - DataTime > StaleAfter

(* Readings that the core shows are not old behind the operator's back.  A  *)
(* sensor silent for too long is signalled, also when its last message was  *)
(* repeated since, by the broker or by the bridge, unless it was repeated   *)
(* without its time; and one heard in time over a working connection is not *)
(* called stale.  A lost connection and a bridge that is down are signalled *)
(* as such, and only they; and the list of sensors never lags behind the    *)
(* row of the role.  (zigbee_service.py:127-215; a sensor nothing was heard *)
(* of since the core started has no age and is signalled by its             *)
(* availability alone.)                                                     *)
SilenceSignalled ==
  /\ role.messages /\ Silence > StaleAfter /\ ~handled.again => UnavailableSignal \/ StaleSignal
  /\ role.messages /\ Silence > StaleAfter /\ Stamps = "text" => UnavailableSignal \/ StaleSignal
  /\ handled.sent = sent /\ Silence <= StaleAfter => ~StaleSignal
  /\ client.parted => (ConnectionSignal <=> ~client.connected)
  /\ client.connected => ~ConnectionSignal /\ (BridgeSignal <=> ~bridge.up)
  /\ client.connected /\ bridge.setup.tracked => (UnavailableSignal <=> retained.available = "offline")
  /\ listed.available = role.available /\ (role.messages => listed.messages)
  /\ role.seen # NoTime => listed.seen >= role.seen
=============================================================================
