----------------------------- MODULE ServiceOta -----------------------------
(***************************************************************************)
(* Firmware updates of the sensor nodes over the service network: the      *)
(* coordinator in the service agent (service_ota.py), one thread per       *)
(* operation, and the node's A/B update server (service_ota.cpp) with its  *)
(* health guard (ota_health_guard.cpp).  The boot loader and the HTTP      *)
(* connection are external.                                                *)
(*                                                                         *)
(* A reply may be lost at any point, a node may be reset at any point and  *)
(* the agent may be stopped at any point.  The coordinator must still say  *)
(* the truth about the image it sent, and the node must keep an image it   *)
(* can boot.                                                               *)
(*                                                                         *)
(* Time is not counted: the 180 s of validation may be over at any poll,   *)
(* a connection may time out at any step.                                  *)
(***************************************************************************)
EXTENDS Naturals

CONSTANTS Nodes,      \* the registered nodes
          MaxOps,     \* operations started, all nodes together
          MaxResets,  \* power cycles and crashes of the nodes
          MaxStops    \* stops of the agent

ASSUME BoundsAssumption ==
  MaxOps \in Nat /\ MaxResets \in Nat /\ MaxStops \in Nat

VARIABLES
  operations,  \* OtaCoordinator._operations: the last one of each node
  stored,      \* the file <state_dir>/ota/<node>.json
  worker,      \* the thread of the operation
  reply,       \* the node's answer to the POST of the image
  node,        \* the node: its flash, its boot selection, its OTA server
  past,        \* per node: operations whose image has been booted, has been
               \* confirmed, and those the node was reset under (Overtaken)
  budget       \* what is left of the bounds; ids count up from budget.ops

otaVars == <<operations, stored, worker, reply, node, past, budget>>

Partitions == {"ota_0", "ota_1"}
Other(p) == IF p = "ota_0" THEN "ota_1" ELSE "ota_0"

Terminal == {"succeeded", "failed", "rolled_back", "uncertain"}
Working == {"queued", "preflight", "authorizing", "uploading", "rebooting",
            "validating", "reconciling"}

Ids == 1..MaxOps
NoOperation == [id |-> 0, state |-> "none", source |-> "ota_0"]
Operations == [id : 0..MaxOps, state : Terminal \cup Working \cup {"none"},
               source : Partitions]
Target(o) == Other(o.source)

Steps == {"ended", "start", "status", "challenge", "send", "sent", "poll"}
Workers == [at : Steps, lost : BOOLEAN, sawPending : BOOLEAN]
Ended == [at |-> "ended", lost |-> FALSE, sawPending |-> FALSE]

(* flash: the OTA state of the image in a partition; "empty" is a partition *)
(* that is erased or half written.                                          *)
Flash == {"valid", "new", "pending", "aborted", "empty"}
NodeStates == [running : Partitions, selected : Partitions,
               flash : [Partitions -> Flash],
               image : [Partitions -> 0..MaxOps],
               ota : {"idle", "receiving", "reboot_pending", "error"},
               nonce : 0..MaxOps, from : 0..MaxOps, whole : BOOLEAN]
FreshNode == [running |-> "ota_0", selected |-> "ota_0",
              flash |-> [p \in Partitions |-> IF p = "ota_0" THEN "valid"
                                                             ELSE "empty"],
              image |-> [p \in Partitions |-> 0],
              ota |-> "idle", nonce |-> 0, from |-> 0, whole |-> FALSE]

History == [booted : SUBSET Ids, confirmed : SUBSET Ids, overtaken : SUBSET Ids]
Replies == {"none", "rejected"} \cup Partitions
Budgets == [ops : 0..MaxOps, resets : 0..MaxResets, stops : 0..MaxStops]

(* Domains of the variables. *)
OtaTypeOK ==
  /\ operations \in [Nodes -> Operations]
  /\ stored \in [Nodes -> Operations]
  /\ worker \in [Nodes -> Workers]
  /\ reply \in [Nodes -> Replies]
  /\ node \in [Nodes -> NodeStates]
  /\ past \in [Nodes -> History]
  /\ budget \in Budgets

OtaInit ==
  /\ operations = [n \in Nodes |-> NoOperation]
  /\ stored = [n \in Nodes |-> NoOperation]
  /\ worker = [n \in Nodes |-> Ended]
  /\ reply = [n \in Nodes |-> "none"]
  /\ node = [n \in Nodes |-> FreshNode]
  /\ past = [n \in Nodes |-> [booted |-> {}, confirmed |-> {},
                                overtaken |-> {}]]
  /\ budget = [ops |-> 0, resets |-> MaxResets, stops |-> MaxStops]

-----------------------------------------------------------------------------
(* The coordinator                                                          *)

(* _set: the operation is replaced in memory and written to its file, under *)
(* the lock.                                                                *)
Set(n, operation) ==
  /\ operations' = [operations EXCEPT ![n] = operation]
  /\ stored' = [stored EXCEPT ![n] = operation]

Report(n, state) == Set(n, [operations[n] EXCEPT !.state = state])

(* The verdict is the last thing the thread does. *)
Settle(n, verdict) ==
  /\ Report(n, verdict)
  /\ worker' = [worker EXCEPT ![n] = Ended]

(* _load_last, what ota-status reports: memory first, then the file. *)
Reported(n) == IF operations[n] # NoOperation THEN operations[n] ELSE stored[n]

Active(n) == operations[n].state \in Working

(* ota-install: refused while an operation of any node is active. *)
StartInstall(n) ==
  /\ budget.ops < MaxOps
  /\ \A m \in Nodes : ~Active(m)
  /\ Set(n, [id |-> budget.ops + 1, state |-> "queued", source |-> "ota_0"])
  /\ worker' = [worker EXCEPT ![n] = [Ended EXCEPT !.at = "start"]]
  /\ budget' = [budget EXCEPT !.ops = @ + 1]
  /\ UNCHANGED <<reply, node, past>>

BeginInstall(n) ==
  /\ worker[n].at = "start"
  /\ Report(n, "preflight")
  /\ worker' = [worker EXCEPT ![n].at = "status"]
  /\ UNCHANGED <<reply, node, past, budget>>

(* The node's HTTP server has one task: it answers nothing while an image   *)
(* is being received.                                                       *)
Answers(n) == node[n].ota # "receiving"

(* The status of the node before the transfer names the two partitions. *)
Preflight(n) ==
  /\ worker[n].at = "status"
  /\ Answers(n)
  /\ Set(n, [operations[n] EXCEPT !.state = "authorizing",
                                  !.source = node[n].running])
  /\ worker' = [worker EXCEPT ![n].at = "challenge"]
  /\ UNCHANGED <<reply, node, past, budget>>

(* handle_challenge: a nonce for one POST, unless an update is under way. *)
Challenge(n) ==
  /\ worker[n].at = "challenge"
  /\ Answers(n)
  /\ IF node[n].ota = "reboot_pending"
       THEN Settle(n, "failed") /\ UNCHANGED node
       ELSE /\ node' = [node EXCEPT ![n].nonce = operations[n].id]
            /\ worker' = [worker EXCEPT ![n].at = "send"]
            /\ UNCHANGED <<operations, stored>>
  /\ UNCHANGED <<reply, past, budget>>

(* _get_json gave up after its three attempts. *)
Unreachable(n) ==
  /\ worker[n].at \in {"status", "challenge"}
  /\ Settle(n, "failed")
  /\ UNCHANGED <<reply, node, past, budget>>

(* The last chunk is handed to the connection.  The image is larger than    *)
(* the buffers between the two, so the node is reading it by then: it       *)
(* receives it, or it has answered and drops what is left of the body.      *)
SendBody(n) ==
  /\ worker[n].at = "send"
  /\ \/ /\ node[n].ota = "receiving" /\ node[n].from = operations[n].id
        /\ node' = [node EXCEPT ![n].whole = TRUE]
     \/ reply[n] = "rejected" /\ UNCHANGED node
  /\ worker' = [worker EXCEPT ![n].at = "sent"]
  /\ Report(n, "uploading")
  /\ UNCHANGED <<reply, past, budget>>

TakeReply(n) ==
  /\ worker[n].at \in {"send", "sent"}
  /\ reply[n] # "none"
  /\ reply' = [reply EXCEPT ![n] = "none"]
  /\ IF reply[n] = Target(operations[n])
       THEN /\ Report(n, "rebooting")
            /\ worker' = [worker EXCEPT ![n].at = "poll"]
       ELSE Settle(n, "failed")
  /\ UNCHANGED <<node, past, budget>>

(* The connection fails or times out.  Only when every byte was handed over *)
(* may the node have taken the image: the outcome is then read from it.     *)
Broken(n) ==
  /\ worker[n].at \in {"send", "sent"}
  /\ IF worker[n].at = "sent"
       THEN /\ Report(n, "reconciling")
            /\ worker' = [worker EXCEPT ![n].at = "poll", ![n].lost = TRUE]
       ELSE Settle(n, "failed")
  /\ reply' = [reply EXCEPT ![n] = "none"]
  /\ UNCHANGED <<node, past, budget>>

(* Whether the node's image waits for the verdict of the health guard. *)
Pending(n) == node[n].flash[node[n].running] = "pending"

(* Mutant of Verdict: a node on its source partition has refused the image, *)
(* whatever its OTA server says.                                            *)
HastyVerdict(n) ==
  LET o == operations[n] IN
  IF node[n].running = Target(o)
    THEN IF Pending(n) THEN "wait" ELSE "succeeded"
    ELSE IF Pending(n) THEN "wait"
    ELSE IF worker[n].sawPending THEN "rolled_back"
    ELSE IF worker[n].lost THEN "failed" ELSE "wait"

(* What one status answer decides. *)
Verdict(n) ==
  LET o == operations[n] IN
  IF node[n].running = Target(o)
    THEN IF Pending(n) THEN "wait" ELSE "succeeded"
    ELSE IF Pending(n) THEN "wait"
    ELSE IF worker[n].sawPending THEN "rolled_back"
    ELSE IF worker[n].lost /\ node[n].ota \in {"idle", "error"} THEN "failed"
    ELSE "wait"

(* Mutant of Poll: the first answer settles the operation. *)
PollOnce(n) ==
  /\ worker[n].at = "poll"
  /\ Answers(n)
  /\ Settle(n, Verdict(n))
  /\ UNCHANGED <<reply, node, past, budget>>

(* One turn of the validation loop whose status request is answered. *)
Poll(n) ==
  /\ worker[n].at = "poll"
  /\ Answers(n)
  /\ IF Verdict(n) = "wait"
       THEN /\ Report(n, IF worker[n].lost THEN "reconciling" ELSE "validating")
            /\ worker' = [worker EXCEPT
                 ![n].sawPending = @ \/ ( /\ node[n].running = Target(operations[n])
                                          /\ Pending(n) )]
       ELSE Settle(n, Verdict(n))
  /\ UNCHANGED <<reply, node, past, budget>>

(* Mutant of Deadline: the thread ends without a verdict. *)
SilentDeadline(n) ==
  /\ worker[n].at = "poll"
  /\ worker' = [worker EXCEPT ![n] = Ended]
  /\ UNCHANGED <<operations, stored, reply, node, past, budget>>

(* The 180 s are over. *)
Deadline(n) ==
  /\ worker[n].at = "poll"
  /\ Settle(n, "uncertain")
  /\ UNCHANGED <<reply, node, past, budget>>

(* The agent stops and is started again: its threads and connections are    *)
(* gone, the operations it starts with are none.  What is whole on its way  *)
(* to a node may still arrive.                                              *)
AgentStop ==
  /\ budget.stops > 0
  /\ operations' = [n \in Nodes |-> NoOperation]
  /\ worker' = [n \in Nodes |-> Ended]
  /\ reply' = [n \in Nodes |-> "none"]
  /\ budget' = [budget EXCEPT !.stops = @ - 1]
  /\ UNCHANGED <<stored, node, past>>

-----------------------------------------------------------------------------
(* The node                                                                 *)

(* Whether the operation the node serves still waits for its answer. *)
Waiting(n) ==
  worker[n].at \in {"send", "sent"} /\ operations[n].id = node[n].from

(* Mutant of Acceptable: the check of the running image is left out. *)
AnyAcceptable(n) ==
  /\ node[n].nonce = operations[n].id
  /\ node[n].ota # "reboot_pending"

(* handle_image, its checks: the nonce serves once, and an image that is    *)
(* not yet confirmed is never put at risk.                                  *)
Acceptable(n) ==
  /\ node[n].nonce = operations[n].id
  /\ node[n].ota # "reboot_pending"
  /\ ~Pending(n)

(* esp_ota_begin erases the partition that is not running. *)
Receiving(r, id) ==
  LET p == Other(r.running) IN
  [r EXCEPT !.ota = "receiving", !.nonce = 0, !.from = id, !.whole = FALSE,
            !.flash[p] = "empty", !.image[p] = 0]

Accept(n) ==
  /\ worker[n].at = "send" /\ reply[n] = "none"
  /\ node[n].ota # "receiving"
  /\ IF Acceptable(n)
       THEN /\ node' = [node EXCEPT ![n] = Receiving(@, operations[n].id)]
            /\ UNCHANGED reply
       ELSE /\ reply' = [reply EXCEPT ![n] = "rejected"]
            /\ node' = [node EXCEPT ![n].nonce = 0]
  /\ UNCHANGED <<operations, stored, worker, past, budget>>

(* The image is whole, its digest right and its header valid: it is         *)
(* selected for the next boot, and the restart is scheduled.                *)
Committed(r) ==
  LET p == Other(r.running) IN
  [r EXCEPT !.ota = "reboot_pending", !.selected = p,
            !.flash[p] = "new", !.image[p] = r.from]

Commit(n) ==
  /\ node[n].ota = "receiving" /\ node[n].whole
  /\ node' = [node EXCEPT ![n] = Committed(@)]
  /\ reply' = IF Waiting(n) THEN [reply EXCEPT ![n] = Other(node[n].running)]
                            ELSE reply
  /\ UNCHANGED <<operations, stored, worker, past, budget>>

(* The receive timed out or broke, the digest differs, or the image is not  *)
(* one the boot loader would take.                                          *)
Abort(n) ==
  /\ node[n].ota = "receiving"
  /\ node' = [node EXCEPT ![n].ota = "error"]
  /\ reply' = IF Waiting(n) THEN [reply EXCEPT ![n] = "rejected"] ELSE reply
  /\ UNCHANGED <<operations, stored, worker, past, budget>>

(* The boot loader: a new image is tried once; an image that is started a   *)
(* second time without having been confirmed is aborted for the other one.  *)
Booted(r) ==
  LET s == r.selected
      again == r.flash[s] = "pending"
      p == IF again THEN Other(s) ELSE s
  IN  [r EXCEPT !.running = p, !.selected = p,
                !.flash[s] = IF again THEN "aborted"
                             ELSE IF @ = "new" THEN "pending" ELSE @,
                !.ota = "idle", !.nonce = 0, !.from = 0, !.whole = FALSE]

(* A boot changes the partition that the coordinator has read, and will not *)
(* read again, before the image it is sending is in flash.                  *)
Overtaken(n, after) ==
  IF /\ worker[n].at \in {"challenge", "send", "sent", "poll"}
     /\ after.running # node[n].running
     /\ \A p \in Partitions : node[n].image[p] # operations[n].id
    THEN {operations[n].id} ELSE {}

BootNode(n) ==
  LET after == Booted(node[n]) IN
  /\ node' = [node EXCEPT ![n] = after]
  /\ past' = [past EXCEPT
                 ![n].booted = @ \cup ({after.image[after.running]} \cap Ids),
                 ![n].overtaken = @ \cup Overtaken(n, after)]
  /\ UNCHANGED <<operations, stored, worker, reply>>

(* restart_task, three seconds after the answer. *)
Restart(n) ==
  /\ node[n].ota = "reboot_pending"
  /\ BootNode(n)
  /\ UNCHANGED budget

(* Power is lost, or the firmware crashes. *)
PowerCycle(n) ==
  /\ budget.resets > 0
  /\ BootNode(n)
  /\ budget' = [budget EXCEPT !.resets = @ - 1]

(* OtaHealthGuard.confirm_if_due, after 30 s of continuous health. *)
Confirm(n) ==
  /\ Pending(n)
  /\ node' = [node EXCEPT ![n].flash[node[n].running] = "valid"]
  /\ past' = [past EXCEPT ![n].confirmed =
                 @ \cup ({node[n].image[node[n].running]} \cap Ids)]
  /\ UNCHANGED <<operations, stored, worker, reply, budget>>

-----------------------------------------------------------------------------
ThreadStep(n) ==
  \/ BeginInstall(n) \/ Preflight(n) \/ Challenge(n) \/ Unreachable(n)
  \/ SendBody(n) \/ TakeReply(n) \/ Broken(n) \/ Poll(n) \/ Deadline(n)

NodeStep(n) ==
  \/ Accept(n) \/ Commit(n) \/ Abort(n)
  \/ Restart(n) \/ PowerCycle(n) \/ Confirm(n)

OtaNext ==
  \/ \E n \in Nodes : StartInstall(n) \/ ThreadStep(n) \/ NodeStep(n)
  \/ AgentStop

(* Every request of the thread has a timeout and its loop a deadline; the   *)
(* node promises nothing.                                                   *)
OtaFairness ==
  \A n \in Nodes :
    /\ WF_otaVars(BeginInstall(n))
    /\ WF_otaVars(Unreachable(n))
    /\ WF_otaVars(Broken(n))
    /\ WF_otaVars(Deadline(n))

OtaSpec == OtaInit /\ [][OtaNext]_otaVars /\ OtaFairness

-----------------------------------------------------------------------------
(* The coordinator's verdicts are true of the node, also when the reply or  *)
(* the agent was lost on the way: an image reported as installed has been   *)
(* confirmed, one reported as rolled back was booted and never confirmed,   *)
(* and one reported as failed neither was confirmed nor is selected for the *)
(* next boot.  It takes a node that did not change its running partition    *)
(* under the operation before the image was in flash (Overtaken): the       *)
(* target partition would be the one read before that boot, and the same    *)
(* is false of every operation (EveryVerdictTrue in MCOtaReset).            *)
TrueVerdict(n, o) ==
  /\ o.state = "succeeded" => o.id \in past[n].confirmed
  /\ o.state = "rolled_back" => /\ o.id \in past[n].booted
                                /\ o.id \notin past[n].confirmed
  /\ o.state = "failed" => /\ o.id \notin past[n].confirmed
                           /\ node[n].image[node[n].selected] # o.id

VerdictsTrue ==
  \A n \in Nodes :
    Reported(n).id \notin past[n].overtaken => TrueVerdict(n, Reported(n))

(* Whatever is selected for the next boot, a confirmed image is left to     *)
(* fall back on: the boot loader never has to start an image that nobody    *)
(* confirmed and that has been tried before.                                *)
FallbackKept ==
  \A n \in Nodes :
    LET s == node[n].selected IN
    \/ node[n].flash[s] = "valid"
    \/ node[n].flash[s] \in {"new", "pending"} /\ node[n].flash[Other(s)] = "valid"

(* An operation gets its verdict, or the agent is stopped. *)
Settles == \A n \in Nodes : Active(n) ~> ~Active(n)

=============================================================================
