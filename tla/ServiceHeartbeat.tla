-------------------------- MODULE ServiceHeartbeat --------------------------
(***************************************************************************)
(* Heartbeats of the sensor nodes over the service Wi-Fi and the service   *)
(* agent that receives them (service_heartbeat.py, service_agent.py): the  *)
(* replay store, the online flags and the transport diagnostics.           *)
(*                                                                         *)
(* Datagrams are lost, damaged, duplicated and reordered; the agent may    *)
(* stop between accepting a datagram and recording it.  The agent is one   *)
(* thread around select(), so its handlers are not interleaved.            *)
(*                                                                         *)
(* Time is counted in heartbeat intervals, as ages that stop counting one  *)
(* interval after they matter.  Frame formats, keys and signatures stand   *)
(* in one flag: whether the datagram is as its node has made it.           *)
(***************************************************************************)
EXTENDS Naturals, Sequences, FiniteSets

CONSTANTS Nodes,         \* the registered nodes
          StaleAfter,    \* stale_after_seconds, in intervals
          Grace,         \* node_initial_grace_seconds, in intervals
          HistoryLimit,  \* boots the replay store remembers
          Conditions,    \* what a heartbeat says of the node's sensor path
          MaxBoots, MaxSeq, MaxAir,  \* bounds on the datagrams
          MaxTrouble     \* boots, power cuts, damage, duplicates, stops, timeouts, changes

ASSUME HeartbeatAssumption ==
  /\ StaleAfter \in Nat \ {0} /\ Grace \in Nat /\ Grace > StaleAfter
  /\ HistoryLimit \in Nat \ {0}
  /\ MaxBoots \in Nat \ {0} /\ MaxSeq \in Nat /\ MaxAir \in Nat /\ MaxTrouble \in Nat
  /\ "well" \in Conditions

VARIABLES
  source,   \* the node: its boot, the number of its next heartbeat
  air,      \* datagrams on their way
  replay,   \* ReplayStore, in memory and on disk
  agent,    \* the process: up, its age, the datagram accepted but not recorded
  runtime,  \* per node, in memory: online, age of the last heartbeat, payload
  diag,     \* ServiceAgentState._diagnostics, in memory and on disk
  heard,    \* per node: age of the last new heartbeat that reached the agent
  seen,     \* per node: every heartbeat that was recorded
  trouble   \* what is left of MaxTrouble

heartbeatVars == <<source, air, replay, agent, runtime, diag, heard, seen, trouble>>

Boots == 1..MaxBoots
Seqs == 0..MaxSeq
Datagrams == [node : Nodes, boot : Boots, seq : Seqs, says : Conditions, sound : BOOLEAN]
None == [node |-> "none"]

Unheard == [online |-> FALSE, received |-> FALSE, age |-> 0, says |-> "well"]
NoDiagnostics == [accepted |-> 0, missing |-> 0, bootChanges |-> 0,
                  boot |-> 0, seq |-> 0]

HeartbeatTypeOK ==
  /\ source \in [Nodes -> [boot : Boots, next : 0..(MaxSeq + 1), says : Conditions,
                           on : BOOLEAN, top : 0..(MaxSeq + 1)]]
  /\ air \subseteq Datagrams
  /\ replay \in [Nodes -> [boot : 0..MaxBoots, max : Seqs, closed : Seq(Boots)]]
  /\ \A n \in Nodes : Len(replay[n].closed) <= HistoryLimit
  /\ agent \in [up : BOOLEAN, age : 0..Grace, accepted : Datagrams \cup {None}]
  /\ runtime \in [Nodes -> [online : BOOLEAN, received : BOOLEAN,
                            age : 0..(StaleAfter + 1), says : Conditions]]
  /\ diag \in [Nodes -> [accepted : Nat, missing : Nat, bootChanges : Nat,
                         boot : 0..MaxBoots, seq : Seqs]]
  /\ heard \in [Nodes -> 0..(StaleAfter + 1)]
  /\ seen \in [Nodes -> SUBSET (Boots \X Seqs)]
  /\ trouble \in 0..MaxTrouble

HeartbeatInit ==
  /\ source = [n \in Nodes |-> [boot |-> 1, next |-> 0, says |-> "well",
                                on |-> TRUE, top |-> 0]]
  /\ air = {}
  /\ replay = [n \in Nodes |-> [boot |-> 0, max |-> 0, closed |-> <<>>]]
  /\ agent = [up |-> TRUE, age |-> 0, accepted |-> None]
  /\ runtime = [n \in Nodes |-> Unheard]
  /\ diag = [n \in Nodes |-> NoDiagnostics]
  /\ heard = [n \in Nodes |-> 0]
  /\ seen = [n \in Nodes |-> {}]
  /\ trouble = MaxTrouble

-----------------------------------------------------------------------------
(* The node and the network                                                 *)

Send(n) ==
  /\ source[n].on /\ source[n].next <= MaxSeq
  /\ Cardinality(air) < MaxAir
  /\ air' = air \cup {[node |-> n, boot |-> source[n].boot,
                       seq |-> source[n].next, says |-> source[n].says,
                       sound |-> TRUE]}
  /\ source' = [source EXCEPT ![n].next = @ + 1]
  /\ UNCHANGED <<replay, agent, runtime, diag, heard, seen, trouble>>

Trouble == trouble > 0 /\ trouble' = trouble - 1

(* A boot draws a new identifier and numbers its heartbeats from zero. *)
Reboot(n) ==
  /\ Trouble
  /\ source[n].boot < MaxBoots
  /\ source' = [source EXCEPT ![n] = [source[n] EXCEPT !.boot = @ + 1, !.next = 0,
                                                       !.on = TRUE, !.top = 0]]
  /\ UNCHANGED <<air, replay, agent, runtime, diag, heard, seen>>

PowerOff(n) ==
  /\ Trouble
  /\ source[n].on
  /\ source' = [source EXCEPT ![n].on = FALSE]
  /\ UNCHANGED <<air, replay, agent, runtime, diag, heard, seen>>

(* The node's own view of its sensor and its RS-485 side changes. *)
ChangeCondition(n) ==
  /\ Trouble
  /\ \E c \in Conditions \ {source[n].says} :
       source' = [source EXCEPT ![n].says = c]
  /\ UNCHANGED <<air, replay, agent, runtime, diag, heard, seen>>

Lose(d) ==
  /\ air' = air \ {d}
  /\ UNCHANGED <<source, replay, agent, runtime, diag, heard, seen, trouble>>

(* What arrives is not what was sent: another number, or another boot. *)
Damage(d) ==
  /\ d.sound /\ Trouble
  /\ \E b \in Boots, q \in Seqs :
       air' = (air \ {d}) \cup {[d EXCEPT !.sound = FALSE, !.boot = b, !.seq = q]}
  /\ UNCHANGED <<source, replay, agent, runtime, diag, heard, seen>>

Remembered(n) == {replay[n].boot} \cup {replay[n].closed[i] : i \in DOMAIN replay[n].closed}

(* A datagram outlives a boot of its node only if the agent has heard that  *)
(* boot and still remembers it: see "Not modelled" for the one that is not. *)
Plausible(d) == ~d.sound \/ d.boot = source[d.node].boot \/ d.boot \in Remembered(d.node)

-----------------------------------------------------------------------------
(* The agent                                                                *)

(* decode_and_authenticate_frame: the frame is whole, its source and its    *)
(* signature are those of a registered node, and the payload is valid.      *)
Authentic(d) == d.sound

(* Mutant of Refused: only the numbers are compared. *)
RefusedBySeq(d) ==
  LET r == replay[d.node] IN d.boot = r.boot /\ d.seq <= r.max

(* ReplayStore.accept: within a boot the numbers rise; a boot that was      *)
(* followed by another one is closed.                                       *)
Refused(d) ==
  LET r == replay[d.node] IN
  IF d.boot = r.boot THEN d.seq <= r.max
  ELSE \E i \in DOMAIN r.closed : r.closed[i] = d.boot

LastOf(s, k) == IF Len(s) <= k THEN s ELSE SubSeq(s, Len(s) - k + 1, Len(s))

Remember(r, d) ==
  [boot |-> d.boot, max |-> d.seq,
   closed |-> IF d.boot = r.boot \/ r.boot = 0 THEN r.closed
              ELSE LastOf(Append(r.closed, r.boot), HistoryLimit)]

Fresh(d) == d.sound /\ d.boot = source[d.node].boot /\ d.seq >= source[d.node].top

(* HeartbeatReceiver.process_datagram up to the write of the replay file.   *)
(* The datagram may arrive once more.                                       *)
Receive(d) ==
  /\ agent.up /\ agent.accepted = None
  /\ Plausible(d)
  /\ \/ air' = air /\ Trouble
     \/ air' = air \ {d} /\ trouble' = trouble
  /\ IF ~Authentic(d) \/ Refused(d)
       THEN UNCHANGED <<replay, agent>>
       ELSE /\ replay' = [replay EXCEPT ![d.node] = Remember(@, d)]
            /\ agent' = [agent EXCEPT !.accepted = d]
  /\ IF Fresh(d)
       THEN /\ heard' = [heard EXCEPT ![d.node] = 0]
            /\ source' = [source EXCEPT ![d.node].top = d.seq + 1]
       ELSE UNCHANGED <<heard, source>>
  /\ UNCHANGED <<runtime, diag, seen>>

(* Mutant of Gap: the gap is counted across boots. *)
GapAcrossBoots(g, d) == IF d.seq > g.seq THEN d.seq - g.seq - 1 ELSE 0

(* record: the gap in the numbers since the last heartbeat of the boot. *)
Gap(g, d) ==
  IF g.boot = d.boot /\ d.seq > g.seq THEN d.seq - g.seq - 1 ELSE 0

Counted(g, d) ==
  [accepted |-> g.accepted + 1, missing |-> g.missing + Gap(g, d),
   bootChanges |-> IF g.boot # 0 /\ g.boot # d.boot THEN g.bootChanges + 1
                                                   ELSE g.bootChanges,
   boot |-> d.boot, seq |-> d.seq]

(* The rest of process_datagram and ServiceAgentState.record. *)
Record ==
  /\ agent.accepted # None
  /\ LET d == agent.accepted  n == d.node IN
     /\ runtime' = [runtime EXCEPT ![n] = [online |-> TRUE, received |-> TRUE,
                                           age |-> 0, says |-> d.says]]
     /\ diag' = [diag EXCEPT ![n] = Counted(@, d)]
     /\ seen' = [seen EXCEPT ![n] = @ \cup {<<d.boot, d.seq>>}]
  /\ agent' = [agent EXCEPT !.accepted = None]
  /\ UNCHANGED <<source, air, replay, heard, trouble>>

Stale(n) == runtime[n].online /\ runtime[n].age > StaleAfter

(* expire_stale_nodes and mark_offline, at the end of every turn. *)
Expire ==
  /\ agent.up /\ agent.accepted = None
  /\ \E n \in Nodes : Stale(n)
  /\ runtime' = [n \in Nodes |-> IF Stale(n) THEN [runtime[n] EXCEPT !.online = FALSE]
                                             ELSE runtime[n]]
  /\ UNCHANGED <<source, air, replay, agent, diag, heard, seen, trouble>>

AgentStop ==
  /\ agent.up /\ Trouble
  /\ agent' = [up |-> FALSE, age |-> 0, accepted |-> None]
  /\ runtime' = [n \in Nodes |-> Unheard]
  /\ UNCHANGED <<source, air, replay, diag, heard, seen>>

AgentStart ==
  /\ ~agent.up
  /\ agent' = [agent EXCEPT !.up = TRUE]
  /\ UNCHANGED <<source, air, replay, runtime, diag, heard, seen, trouble>>

Capped(age, limit) == IF age < limit THEN age + 1 ELSE limit

(* An interval passes.  The agent's loop turns every second: a datagram it  *)
(* has accepted is recorded and a stale node expired before.                *)
Tick ==
  /\ agent.accepted = None
  /\ agent.up => \A n \in Nodes : ~Stale(n)
  /\ agent' = IF agent.up THEN [agent EXCEPT !.age = Capped(@, Grace)] ELSE agent
  /\ runtime' = [n \in Nodes |->
                   IF runtime[n].online
                     THEN [runtime[n] EXCEPT !.age = Capped(@, StaleAfter + 1)]
                     ELSE runtime[n]]
  /\ heard' = [n \in Nodes |-> Capped(heard[n], StaleAfter + 1)]
  /\ UNCHANGED <<source, air, replay, diag, seen, trouble>>

HeartbeatNext ==
  \/ \E n \in Nodes : Send(n) \/ Reboot(n) \/ PowerOff(n) \/ ChangeCondition(n)
  \/ \E d \in air : Lose(d) \/ Damage(d) \/ Receive(d)
  \/ Record \/ Expire \/ AgentStop \/ AgentStart \/ Tick

-----------------------------------------------------------------------------
(* What the agent has recorded of a node never goes back, to a lower number *)
(* or an earlier boot, whatever is delayed or repeated and however often    *)
(* the agent is started again.                                              *)
NeverBackwards ==
  [][\A n \in Nodes :
       <<diag'[n].boot, diag'[n].seq>> # <<diag[n].boot, diag[n].seq>> =>
         \/ diag'[n].boot > diag[n].boot
         \/ diag'[n].boot = diag[n].boot /\ diag'[n].seq > diag[n].seq]_heartbeatVars

(* Between the first and the last heartbeat of a boot that were recorded    *)
(* every number has been counted exactly once, as accepted or as missing,   *)
(* also across stops of the agent.                                          *)
SpanOf(n, b) ==
  LET s == {q \in Seqs : <<b, q>> \in seen[n]} IN
  {q \in Seqs : (\E x \in s : x <= q) /\ (\E y \in s : q <= y)}

EveryNumberCounted ==
  \A n \in Nodes :
    /\ diag[n].accepted = Cardinality(seen[n])
    /\ diag[n].accepted + diag[n].missing =
         Cardinality({x \in Boots \X Seqs : x[2] \in SpanOf(n, x[1])})

=============================================================================
