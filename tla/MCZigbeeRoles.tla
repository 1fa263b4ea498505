---------------------------- MODULE MCZigbeeRoles ----------------------------
(***************************************************************************)
(* Zigbee alone, with two devices and two commands that may overlap, for    *)
(* what a command does that writes roles it had copied before another one   *)
(* changed them.                                                            *)
(***************************************************************************)
EXTENDS Zigbee

RolesSpec == ZigbeeInit /\ [][ZigbeeNext]_zigbeeVars

(* docs/ZIGBEE_STAGE11_RENAME_ROLES_PL.md:87 says that one role may point   *)
(* to one device only, and that the core refuses to give a role which       *)
(* another device holds until that device has been set to "no role", so     *)
(* that the active sensor of a duct is never substituted by accident.       *)
(* Stated of every step: a role that is held keeps its holder or gives it   *)
(* up.                                                                      *)
HolderIsNotReplaced ==
  [][\A r \in Roles : Held(monitor.roles, r) =>
       monitor'.roles[r].dev \in {monitor.roles[r].dev, None}]_zigbeeVars
=============================================================================
