------------------------------- MODULE Zigbee -------------------------------
(***************************************************************************)
(* The monitor's end of Zigbee2MQTT: the inventory, the roles of the sensors  *)
(* and their file, the subscriptions, and the management commands          *)
(* (zigbee_mqtt_monitor.py, zigbee_managed_monitor.py,                     *)
(* zigbee_capability_monitor.py, zigbee_role_store.py).                    *)
(*                                                                         *)
(* Three kinds of threads meet: the MQTT client's network thread handles   *)
(* the messages in their order; each management command runs in a thread   *)
(* of its own, which sleeps while the bridge answers; and Zigbee2MQTT      *)
(* itself, external, whose own front end renames, removes and joins        *)
(* devices as well.  A device is known for ever by its address and speaks  *)
(* under its friendly name: the name stands for its two topics.  A command *)
(* captures what it found before it sleeps and writes it afterwards; each  *)
(* write of the registry (memory, file, subscriptions) is one step.        *)
(***************************************************************************)
EXTENDS Naturals, Sequences, FiniteSets

CONSTANTS Devices, Names, Roles,   \* Roles: supply and extract
          Clients,                 \* who may have a command in progress
          None,
          MaxCommands, MaxTrouble  \* commands, and everything that goes wrong

ASSUME ZigbeeAssumption ==
  /\ MaxCommands \in Nat /\ MaxTrouble \in Nat
  /\ None \notin Devices \cup Names \cup Clients

VARIABLES
  mesh,    \* the network: the name of each device, None when it has left
  asked,   \* requests the bridge has not served yet
  wire,    \* messages on their way to the core
  link,    \* "up" when the client is connected to the broker
  loop,    \* the client's network thread: "alive" or "dead"
  monitor, \* inventory, roles and whose readings they show, other roles,
           \* subscriptions
  file,    \* the role registry on disk
  cmds,    \* the command of each client
  past,    \* what happened, for the properties
  budget   \* commands and trouble left

zigbeeVars == <<mesh, asked, wire, link, loop, monitor, file, cmds, past, budget>>

Unassigned == [dev |-> None, name |-> None]
Idle == [pc |-> "idle", op |-> "none", dev |-> None, name |-> None, to |-> None,
         roles |-> None, todo |-> <<>>, txn |-> 0, stale |-> FALSE]

Named == [Devices -> Names \cup {None}]
RoleMaps == [Roles -> {Unassigned} \cup [dev : Devices, name : Names]]

ZigbeeTypeOK ==
  /\ mesh \in Named /\ link \in {"up", "down"} /\ loop \in {"alive", "dead"}
  /\ monitor.listed \in Named /\ monitor.others \in Named /\ monitor.roles \in RoleMaps
  /\ monitor.source \in [Roles -> Devices \cup {None}] /\ monitor.subs \subseteq Names
  /\ file.roles \in RoleMaps /\ file.others \in Named
  /\ \A c \in Clients : cmds[c].pc \in {"idle", "waiting", "writing"}

Loaded(f) == [listed |-> [d \in Devices |-> None], roles |-> f.roles,
              source |-> [r \in Roles |-> None], others |-> f.others, subs |-> {}]

(* load_or_seed: the registry of an installed system, some roles assigned. *)
ZigbeeInit ==
  /\ mesh \in {n \in Named : \A d, e \in Devices : n[d] = n[e] => d = e /\ n[d] # None}
  /\ file \in [roles : {m \in RoleMaps : \A r \in Roles :
                           m[r] = Unassigned \/ mesh[m[r].dev] = m[r].name},
               others : {[d \in Devices |-> None]}]
  /\ \A r, q \in Roles : file.roles[r] = file.roles[q] => r = q \/ file.roles[r] = Unassigned
  /\ monitor = Loaded(file)
  /\ asked = {} /\ wire = <<>> /\ link = "down" /\ loop = "alive"
  /\ cmds = [c \in Clients |-> Idle]
  /\ past = [overtaken |-> FALSE, unsaved |-> FALSE, departed |-> FALSE,
             deaf |-> {}, removed |-> {}]
  /\ budget = [commands |-> MaxCommands, trouble |-> MaxTrouble]

Trouble == budget.trouble > 0 /\ budget' = [budget EXCEPT !.trouble = @ - 1]

-----------------------------------------------------------------------------
Held(roles, r) == roles[r].dev # None
Topics(roles) == {roles[r].name : r \in {q \in Roles : Held(roles, q)}}
Listed(listed) == {listed[d] : d \in Devices} \ {None}

(* ZigbeeMqttConfig.__post_init__: friendly names are unique. *)
Clash(roles) ==
  \E r, q \in Roles : r # q /\ Held(roles, r) /\ Held(roles, q) /\ roles[r].name = roles[q].name

(* The difference of two sets of topics is unsubscribed and subscribed,    *)
(* whoever else still listens to a topic that is given up.                 *)
Resubscribed(subs, old, new) == (subs \ (old \ new)) \cup (new \ old)

(* A holder is not in an inventory. *)
Departed(roles, s) == \E r \in Roles : Held(roles, r) /\ s[roles[r].dev] = None

Freed(roles, d) == [r \in Roles |-> IF roles[r].dev = d THEN Unassigned ELSE roles[r]]
Renamed(roles, d, n) == [r \in Roles |-> IF roles[r].dev = d THEN [dev |-> d, name |-> n] ELSE roles[r]]

(* _apply_role_configs: the readings follow the device, not the role. *)
Carried(roles) ==
  [r \in Roles |->
    IF Held(roles, r) /\ \E q \in Roles : monitor.roles[q].dev = roles[r].dev
      THEN monitor.source[CHOOSE q \in Roles : monitor.roles[q].dev = roles[r].dev] ELSE None]

(* Commands that captured what another step changes: the registry, or the  *)
(* name of their device.                                                   *)
Overtaken(c, dev, changed) ==
  {k \in Clients \ {c} : /\ cmds[k].pc # "idle" /\ cmds[k].op \in {"assign", "release"}
                         /\ changed \/ cmds[k].dev = dev}
Outdated(s) ==
  {k \in Clients : \/ cmds[k].op = "assign" /\ s[cmds[k].dev] # cmds[k].name
                   \/ cmds[k].op = "rename" /\ cmds[k].pc = "writing" /\ s[cmds[k].dev] # cmds[k].to}
Stale(clients) == [k \in Clients |-> IF k \in clients THEN [cmds[k] EXCEPT !.stale = TRUE] ELSE cmds[k]]

-----------------------------------------------------------------------------
(* The management commands *)

Known(d) == monitor.listed[d] # None
RoleOf(d) == {r \in Roles : monitor.roles[r].dev = d}

Start(c, cmd) ==
  /\ cmds[c].pc = "idle" /\ budget.commands > 0
  /\ cmds' = [cmds EXCEPT ![c] = [cmd EXCEPT !.txn = budget.commands]]
  /\ budget' = [budget EXCEPT !.commands = @ - 1]

(* _bridge_request: refused unless connected, registered under a new       *)
(* transaction and published.                                              *)
Request(c, cmd) ==
  /\ link = "up" /\ Known(cmd.dev)
  /\ Start(c, [cmd EXCEPT !.pc = "waiting"])
  /\ asked' = asked \cup {[op |-> cmd.op, dev |-> cmd.dev, to |-> cmd.to, txn |-> budget.commands]}
  /\ UNCHANGED <<mesh, wire, link, loop, monitor, file, past>>

(* assign_role to a role or to "other": the writes that will follow, from  *)
(* the roles as they are; a role another device holds is refused in the    *)
(* end, which leaves no write.                                             *)
Assign(c, d, role) ==
  LET freed == Freed(monitor.roles, d)
      taken == role # "other" /\ monitor.roles[role].dev \notin {None, d}
      given == IF role = "other" THEN freed
               ELSE [freed EXCEPT ![role] = [dev |-> d, name |-> monitor.listed[d]]]
      todo == IF taken THEN <<>>
              ELSE IF role = "other"
                THEN IF RoleOf(d) # {} THEN <<"apply", "take">> ELSE <<"take">>
                ELSE IF monitor.others[d] # None THEN <<"drop", "apply">> ELSE <<"apply">>
  IN Request(c, [Idle EXCEPT !.op = "assign", !.dev = d, !.name = monitor.listed[d],
                             !.roles = given, !.todo = todo])

(* rename_device *)
Rename(c, d, n) ==
  /\ \A e \in Devices : monitor.listed[e] # n
  /\ Request(c, [Idle EXCEPT !.op = "rename", !.dev = d, !.to = n,
                             !.todo = <<"rename", "retake">>])

(* remove_device *)
Remove(c, d) == Request(c, [Idle EXCEPT !.op = "remove", !.dev = d, !.todo = <<"free", "drop">>])

(* assign_role(None) asks nobody. *)
Release(c, d) ==
  LET todo == IF RoleOf(d) = {} THEN <<"drop">>
              ELSE IF monitor.others[d] # None THEN <<"apply", "drop">> ELSE <<"apply">>
  IN /\ Known(d) /\ (RoleOf(d) # {} \/ monitor.others[d] # None)
     /\ Start(c, [Idle EXCEPT !.pc = "writing", !.op = "release", !.dev = d,
                              !.roles = Freed(monitor.roles, d), !.todo = todo])
     /\ UNCHANGED <<mesh, asked, wire, link, loop, monitor, file, past>>

Timeout(c) ==
  /\ cmds[c].pc = "waiting" /\ Trouble
  /\ cmds' = [cmds EXCEPT ![c] = Idle]
  /\ UNCHANGED <<mesh, asked, wire, link, loop, monitor, file, past>>

(* One write: _apply_role_configs with save_configs, or the other roles     *)
(* with save_other_records.  Memory first, then the file, which keeps its   *)
(* own other half, then the subscriptions; a save that fails ends the       *)
(* command there.                                                           *)
RolesAfter(cmd) ==
  CASE Head(cmd.todo) = "apply" -> cmd.roles
    [] Head(cmd.todo) = "free" -> Freed(monitor.roles, cmd.dev)
    [] Head(cmd.todo) = "rename" -> Renamed(monitor.roles, cmd.dev, cmd.to)
    [] OTHER -> monitor.roles

(* Mutant of OthersAfter: a device that gets a role keeps its other role. *)
OthersKept(cmd) ==
  CASE Head(cmd.todo) = "take" -> [monitor.others EXCEPT ![cmd.dev] = cmd.name]
    [] OTHER -> monitor.others

OthersAfter(cmd) ==
  CASE Head(cmd.todo) = "take" -> [monitor.others EXCEPT ![cmd.dev] = cmd.name]
    [] Head(cmd.todo) = "drop" -> [monitor.others EXCEPT ![cmd.dev] = None]
    [] Head(cmd.todo) = "retake" ->
         [monitor.others EXCEPT ![cmd.dev] = IF @ = None THEN None ELSE cmd.to]
    [] OTHER -> monitor.others

Write(c, saved) ==
  LET cmd == cmds[c]
      roles == RolesAfter(cmd)
      others == OthersAfter(cmd)
      changed == roles # monitor.roles \/ others # monitor.others
      old == Topics(monitor.roles)
      new == Topics(roles)
      heard == saved /\ link = "up"
      last == ~saved \/ Len(cmd.todo) = 1
  IN /\ cmd.pc = "writing" /\ ~Clash(roles)
     /\ monitor' = [monitor EXCEPT !.roles = roles, !.others = others, !.source = Carried(roles),
                            !.subs = IF heard THEN Resubscribed(@, old, new) ELSE @]
     /\ file' = [roles |-> IF saved /\ (Head(cmd.todo) = "apply" \/ roles # monitor.roles)
                             THEN roles ELSE file.roles,
                 others |-> IF saved /\ others # monitor.others THEN others ELSE file.others]
     /\ IF saved THEN UNCHANGED budget ELSE changed /\ Trouble
     /\ cmds' = [Stale(Overtaken(c, cmd.dev, changed)) EXCEPT
                   ![c] = IF last THEN Idle ELSE [cmd EXCEPT !.todo = Tail(@)]]
     /\ past' = [past EXCEPT
          !.overtaken = @ \/ cmd.stale,
          !.unsaved = @ \/ ~saved,
          !.deaf = IF heard THEN (@ \cup (old \ new)) \ (new \ old) ELSE @,
          !.removed = IF cmd.op = "remove" /\ saved /\ last /\ ~cmd.stale
                        THEN @ \cup {cmd.dev} ELSE @]
     /\ UNCHANGED <<mesh, asked, wire, link, loop>>

(* Two roles would have one name: the command fails and nothing changes. *)
WriteRefused(c) ==
  /\ cmds[c].pc = "writing" /\ Clash(RolesAfter(cmds[c]))
  /\ cmds' = [cmds EXCEPT ![c] = Idle]
  /\ UNCHANGED <<mesh, asked, wire, link, loop, monitor, file, past, budget>>

-----------------------------------------------------------------------------
(* The network thread *)

Synced(s, named) == [d \in Devices |-> IF named[d] # None /\ s[d] # None THEN s[d] ELSE named[d]]
SyncedRoles(s) ==
  [r \in Roles |-> IF Held(monitor.roles, r) /\ s[monitor.roles[r].dev] # None
                     THEN [monitor.roles[r] EXCEPT !.name = s[monitor.roles[r].dev]] ELSE monitor.roles[r]]

(* bridge/devices: the inventory, the names of the role holders after it,   *)
(* and the list of all sensors.  An exception on the way, from two roles    *)
(* that would have one name or from a save, ends the network thread.        *)
HandleDevices(failing) ==
  LET s == Head(wire).names
      roles == SyncedRoles(s)
      others == Synced(s, monitor.others)
      old == Topics(monitor.roles)
      new == Topics(roles)
      changed == roles # monitor.roles \/ others # monitor.others
      clash == roles # monitor.roles /\ Clash(roles)
  IN /\ loop = "alive" /\ wire # <<>> /\ Head(wire).kind = "devices"
     /\ failing = "roles" => roles # monitor.roles
     /\ failing = "others" => others # monitor.others
     /\ clash => failing = "no"
     /\ wire' = Tail(wire)
     /\ loop' = IF clash \/ failing # "no" THEN "dead" ELSE loop
     /\ monitor' = [monitor EXCEPT
          !.listed = s,
          !.roles = IF clash THEN @ ELSE roles,
          !.source = IF clash THEN @ ELSE Carried(roles),
          !.others = IF clash \/ failing = "roles" THEN @ ELSE others,
          !.subs = IF clash \/ failing = "roles" THEN @
                   ELSE IF failing = "others" THEN Resubscribed(@, old, new)
                   ELSE Resubscribed(Resubscribed(@, old, new), Listed(monitor.listed), Listed(s))]
     /\ file' = [roles |-> IF clash \/ failing = "roles" \/ roles = monitor.roles THEN file.roles ELSE roles,
                 others |-> IF clash \/ failing # "no" \/ others = monitor.others THEN file.others ELSE others]
     /\ cmds' = Stale(Overtaken(None, None, changed) \cup Outdated(s))
     /\ past' = [past EXCEPT !.unsaved = @ \/ failing # "no", !.departed = @ \/ Departed(monitor.roles, s),
                   !.deaf = ((@ \cup (old \ new)) \ (new \ old)) \ (Listed(s) \ Listed(monitor.listed))]
     /\ IF failing = "no" THEN UNCHANGED budget ELSE Trouble
     /\ UNCHANGED <<mesh, asked, link>>

(* bridge/response: wakes the command that still waits for it. *)
HandleResponse ==
  LET m == Head(wire)
      waiting == {c \in Clients : cmds[c].pc = "waiting" /\ cmds[c].txn = m.txn}
  IN /\ loop = "alive" /\ wire # <<>> /\ m.kind = "response"
     /\ wire' = Tail(wire)
     /\ cmds' = [c \in Clients |->
          IF c \notin waiting THEN cmds[c]
          ELSE IF m.ok /\ cmds[c].todo # <<>> THEN [cmds[c] EXCEPT !.pc = "writing"] ELSE Idle]
     /\ UNCHANGED <<mesh, asked, link, loop, monitor, file, past, budget>>

(* _on_message: a sensor's reading, taken by the roles whose topic it is.   *)
(* Messages keep their order: it is handled when nothing is ahead of it.    *)
Reading(d) ==
  /\ loop = "alive" /\ link = "up" /\ wire = <<>>
  /\ mesh[d] \in monitor.subs
  /\ monitor' = [monitor EXCEPT !.source = [r \in Roles |-> IF monitor.roles[r].name = mesh[d] THEN d ELSE @[r]]]
  /\ UNCHANGED <<mesh, asked, wire, link, loop, file, cmds, past, budget>>

(* _on_connect *)
Connected == Topics(monitor.roles) \cup Listed(monitor.listed)

Connect ==
  /\ link = "down" /\ loop = "alive"
  /\ link' = "up"
  /\ wire' = <<[kind |-> "devices", names |-> mesh]>>   \* retained
  /\ monitor' = [monitor EXCEPT !.subs = Connected]
  /\ past' = [past EXCEPT !.deaf = {}]
  /\ UNCHANGED <<mesh, asked, loop, file, cmds, budget>>

(* _on_disconnect: what was on its way is lost, what waits has failed. *)
Disconnect ==
  /\ link = "up" /\ loop = "alive" /\ Trouble
  /\ link' = "down" /\ wire' = <<>>
  /\ monitor' = [monitor EXCEPT !.subs = {}]
  /\ cmds' = [c \in Clients |-> IF cmds[c].pc = "waiting" THEN Idle ELSE cmds[c]]
  /\ UNCHANGED <<mesh, asked, loop, file, past>>

(* The core process dies and starts again. *)
Restart ==
  /\ Trouble
  /\ monitor' = Loaded(file)
  /\ link' = "down" /\ loop' = "alive" /\ wire' = <<>>
  /\ cmds' = [c \in Clients |-> Idle]
  /\ past' = [past EXCEPT !.deaf = {}]
  /\ UNCHANGED <<mesh, asked, file>>

-----------------------------------------------------------------------------
(* Zigbee2MQTT (external): it serves a request or refuses it, late or not,  *)
(* answers before or after it publishes the new inventory; and its own      *)
(* front end changes the network.                                           *)
Free(n) == n = None \/ \A d \in Devices : mesh[d] # n
Inventory(after) == IF after = mesh THEN <<>> ELSE <<[kind |-> "devices", names |-> after]>>

Serve(q, ok, first) ==
  LET after == IF ~ok \/ q.op = "assign" THEN mesh
               ELSE [mesh EXCEPT ![q.dev] = IF q.op = "rename" THEN q.to ELSE None]
      answer == <<[kind |-> "response", txn |-> q.txn, ok |-> ok]>>
  IN /\ ok => mesh[q.dev] # None /\ (q.op = "rename" => Free(q.to))
     /\ asked' = asked \ {q}
     /\ mesh' = after
     /\ wire' = IF link = "down" THEN <<>>
                ELSE wire \o (IF first THEN answer \o Inventory(after) ELSE Inventory(after) \o answer)
     /\ UNCHANGED <<link, loop, monitor, file, cmds, past, budget>>

NetworkChanges(d, to) ==
  LET after == [mesh EXCEPT ![d] = to] IN
  /\ mesh[d] # to /\ Free(to) /\ Trouble
  /\ mesh' = after
  /\ wire' = IF link = "down" THEN <<>> ELSE wire \o Inventory(after)
  /\ IF mesh[d] = None    \* it joins again
       THEN /\ past' = [past EXCEPT !.removed = @ \ {d}]
            /\ cmds' = Stale({c \in Clients : cmds[c].op = "remove" /\ cmds[c].dev = d})
       ELSE UNCHANGED <<past, cmds>>
  /\ UNCHANGED <<asked, link, loop, monitor, file>>

ZigbeeNext ==
  \/ \E c \in Clients, d \in Devices :
       \/ \E role \in Roles \cup {"other"} : Assign(c, d, role)
       \/ \E n \in Names : Rename(c, d, n)
       \/ Remove(c, d)
       \/ Release(c, d)
  \/ \E d \in Devices : Reading(d)
  \/ \E c \in Clients : \/ Timeout(c) \/ WriteRefused(c)
                         \/ \E saved \in BOOLEAN : Write(c, saved)
  \/ \E failing \in {"no", "roles", "others"} : HandleDevices(failing)
  \/ HandleResponse \/ Connect \/ Disconnect \/ Restart
  \/ \E q \in asked, ok, first \in BOOLEAN : Serve(q, ok, first)
  \/ \E d \in Devices, to \in Names \cup {None} : NetworkChanges(d, to)

-----------------------------------------------------------------------------
(* The alert of a role (zigbee_service.py), once there is an inventory: its *)
(* holder is not in it, under its address or its name.                      *)
OfflineSignal(r) ==
  Held(monitor.roles, r) /\ monitor.listed[monitor.roles[r].dev] = None
    /\ \A d \in Devices : monitor.listed[d] # monitor.roles[r].name

Settled ==
  /\ link = "up" /\ loop = "alive" /\ wire = <<>>
  /\ \A c \in Clients : cmds[c].pc # "writing"
Orderly == ~past.overtaken /\ ~past.unsaved

OnlyRole(roles, others) ==
  /\ \A r, q \in Roles : Held(roles, r) /\ roles[r].dev = roles[q].dev => r = q
  /\ \A r \in Roles : Held(roles, r) => others[roles[r].dev] = None

(* The registry under commands that sleep, messages, losses and restarts.   *)
(* As long as every save succeeded and no command wrote what it had found   *)
(* before another one changed it: a device has one role, in memory and in   *)
(* the file, also between the two saves of a command; a device whose        *)
(* removal was confirmed to the client has none; once the messages are      *)
(* handled the names of the holders are those of the network, the core      *)
(* listens to all of them and a holder that left is signalled unless        *)
(* another device has its name, and a role shows no other device's reading  *)
(* while its holder is there.  A listed sensor is not listened to only      *)
(* where a role gave its topic up; and the network thread dies only if a    *)
(* holder is missing from an inventory.                                     *)
RegistrySound ==
  /\ Orderly => OnlyRole(monitor.roles, monitor.others) /\ OnlyRole(file.roles, file.others)
  /\ Orderly => \A d \in past.removed : RoleOf(d) = {} /\ monitor.others[d] = None
                                          /\ \A r \in Roles : file.roles[r].dev # d
  /\ Settled /\ Orderly =>
       \A r \in Roles : Held(monitor.roles, r) =>
         IF mesh[monitor.roles[r].dev] = None
           THEN OfflineSignal(r) \/ \E d \in Devices : mesh[d] = monitor.roles[r].name
           ELSE /\ monitor.roles[r].name = mesh[monitor.roles[r].dev]
                /\ monitor.roles[r].name \in monitor.subs /\ ~OfflineSignal(r)
  /\ Orderly /\ ~past.departed => \A r \in Roles : monitor.source[r] \in {None, monitor.roles[r].dev}
  /\ Settled => monitor.listed = mesh /\ Listed(monitor.listed) \subseteq monitor.subs \cup past.deaf
  /\ loop = "dead" /\ Orderly => past.departed
=============================================================================
