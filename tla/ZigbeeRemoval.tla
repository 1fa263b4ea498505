--------------------------- MODULE ZigbeeRemoval ---------------------------
(***************************************************************************)
(* The dialog the core keeps for the removal of a Zigbee device            *)
(* (runtime/server.py): a client asks for a removal, any client may answer *)
(* the dialog, and the coroutine of the answer sleeps while a thread       *)
(* carries the removal out (remove_device of Zigbee.tla).  The coroutines  *)
(* run on one event loop: between two awaits a request is one step.        *)
(***************************************************************************)
EXTENDS Naturals, FiniteSets

CONSTANTS Sensors,      \* Zigbee devices that may be removed
          Panels,       \* clients with a request in progress at most
          NoDialog,
          MaxDialogs    \* dialogs explored

ASSUME ZigbeeRemovalAssumption ==
  /\ MaxDialogs \in Nat
  /\ NoDialog \notin [id : 1..MaxDialogs, dev : Sensors, error : BOOLEAN]

VARIABLES
  joined,    \* the devices in the network and its inventory
  dialog,    \* _zigbee_remove_confirmation
  overdue,   \* dialogs whose 120 s are over
  answering, \* per panel: the dialog its coroutine captured, or NoDialog
  told,      \* per panel: its last answer's dialog, and what it was told of it
  trail      \* what happened, for the property

removalVars == <<joined, dialog, overdue, answering, told, trail>>

Dialogs == 1..MaxDialogs
Issued == 1..trail.issued

RemovalTypeOK ==
  /\ joined \subseteq Sensors
  /\ dialog # NoDialog => dialog.id \in Issued /\ dialog.dev \in Sensors
  /\ trail.issued \in 0..MaxDialogs /\ overdue \subseteq Issued

RemovalInit ==
  /\ joined = Sensors
  /\ dialog = NoDialog /\ overdue = {}
  /\ answering = [p \in Panels |-> NoDialog]
  /\ told = [p \in Panels |-> [id |-> 0, outcome |-> "nothing"]]
  /\ trail = [issued |-> 0, of |-> [i \in Dialogs |-> NoDialog],
              confirmed |-> {}, closed |-> {}, sent |-> {}, crossed |-> FALSE]

-----------------------------------------------------------------------------
(* _current_zigbee_remove_confirmation *)
Current == IF dialog # NoDialog /\ dialog.id \in overdue THEN NoDialog ELSE dialog

InProgress == {p \in Panels : answering[p] # NoDialog}
Closing(id) == [trail EXCEPT !.closed = @ \cup {id}, !.crossed = @ \/ InProgress # {}]

(* The 120 s of the oldest dialog are over; a removal takes 18 s at most,   *)
(* so that only a late answer is overtaken.                                 *)
Overdue(id) ==
  /\ overdue = 1..(id - 1)
  /\ overdue' = overdue \cup {id}
  /\ trail' = IF dialog # NoDialog /\ dialog.id = id THEN Closing(id) ELSE trail
  /\ UNCHANGED <<joined, dialog, answering, told>>

(* zigbee-request-remove-device: a dialog of the same device is shown again, *)
(* one of another device refuses the request.                                *)
Ask(d) ==
  /\ d \in joined /\ Current = NoDialog /\ trail.issued < MaxDialogs
  /\ dialog' = [id |-> trail.issued + 1, dev |-> d, error |-> FALSE]
  /\ trail' = [trail EXCEPT !.issued = @ + 1, !.of[trail.issued + 1] = d]
  /\ UNCHANGED <<joined, overdue, answering, told>>

(* Mutant of Addressed: the answer goes to the dialog there is. *)
AddressedAny(id) == Current # NoDialog

(* The dialog a panel shows may be one of the past: its identifier is not   *)
(* the current one's.                                                       *)
Addressed(id) == Current # NoDialog /\ Current.id = id

Refuse(p, id) ==
  /\ answering[p] = NoDialog /\ ~Addressed(id)
  /\ dialog' = Current
  /\ told' = [told EXCEPT ![p] = [id |-> id, outcome |-> "refused"]]
  /\ UNCHANGED <<joined, overdue, answering, trail>>

Cancel(p, id) ==
  /\ answering[p] = NoDialog /\ Addressed(id)
  /\ dialog' = NoDialog
  /\ told' = [told EXCEPT ![p] = [id |-> id, outcome |-> "cancelled"]]
  /\ trail' = Closing(id)
  /\ UNCHANGED <<joined, overdue, answering>>

(* zigbee-resolve-remove-device, confirmed: the removal is sent, the dialog stays while it runs.          *)
ConfirmRemoval(p, id) ==
  /\ answering[p] = NoDialog /\ Addressed(id)
  /\ answering' = [answering EXCEPT ![p] = dialog]
  /\ trail' = [trail EXCEPT !.confirmed = @ \cup {id}, !.sent = @ \cup {<<id, dialog.dev>>},
                            !.crossed = @ \/ InProgress # {}]
  /\ UNCHANGED <<joined, overdue, dialog, told>>

RemovalDone(p) ==
  LET d == answering[p] IN
  /\ d # NoDialog /\ d.dev \in joined
  /\ joined' = joined \ {d.dev}
  /\ dialog' = NoDialog
  /\ answering' = [answering EXCEPT ![p] = NoDialog]
  /\ told' = [told EXCEPT ![p] = [id |-> d.id, outcome |-> "removed"]]
  /\ trail' = [trail EXCEPT !.closed = @ \cup {d.id}]
  /\ UNCHANGED overdue

(* The bridge refuses, does not answer in time, or the device is unknown:   *)
(* the dialog is back as it was captured, with the error.  A device whose   *)
(* answer was late may have left all the same.                              *)
RemovalFails(p, left) ==
  LET d == answering[p] IN
  /\ d # NoDialog
  /\ joined' = IF left THEN joined \ {d.dev} ELSE joined
  /\ dialog' = [d EXCEPT !.error = TRUE]
  /\ answering' = [answering EXCEPT ![p] = NoDialog]
  /\ told' = [told EXCEPT ![p] = [id |-> d.id, outcome |-> "failed"]]
  /\ UNCHANGED <<overdue, trail>>

JoinsAgain(d) ==
  /\ d \notin joined
  /\ joined' = joined \cup {d}
  /\ UNCHANGED <<dialog, overdue, answering, told, trail>>

RemovalNext ==
  \/ \E id \in Issued : Overdue(id)
  \/ \E d \in Sensors : Ask(d) \/ JoinsAgain(d)
  \/ \E p \in Panels :
       \/ \E id \in Issued : Refuse(p, id) \/ Cancel(p, id) \/ ConfirmRemoval(p, id)
       \/ RemovalDone(p) \/ \E left \in BOOLEAN : RemovalFails(p, left)

-----------------------------------------------------------------------------
(* A removal reaches the network only for the device of a dialog that an    *)
(* operator confirmed.  As long as no answer and no expiry overtakes a      *)
(* removal under way (server.py:257 and :266 then write over each other:    *)
(* two removals run, a cancelled one is carried out, a newer dialog is      *)
(* lost): one removal runs at a time, its dialog stays until it ends, no    *)
(* dialog is forgotten that was neither answered nor expired, and nobody is *)
(* told that a removal was cancelled which another one was told is done.    *)
RemovalAsked ==
  /\ \A s \in trail.sent : s[1] \in trail.confirmed /\ trail.of[s[1]] = s[2]
  /\ ~trail.crossed =>
       /\ Cardinality(InProgress) <= 1
       /\ \A p \in InProgress : dialog # NoDialog /\ dialog.id = answering[p].id
       /\ \A id \in Issued \ trail.closed : dialog # NoDialog /\ dialog.id = id
       /\ \A p, q \in Panels :
            told[p].outcome = "cancelled" /\ told[q].outcome = "removed" => told[p].id # told[q].id

=============================================================================
