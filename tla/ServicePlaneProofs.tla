-------------------------- MODULE ServicePlaneProofs --------------------------
(***************************************************************************)
(* What the service plane guarantees for any number of nodes, boots,       *)
(* heartbeats and faults: the record of a node never goes back, a node is  *)
(* called silent only when it is, a fault of the SENSOR BUS is never       *)
(* hidden, and every number is counted once.                               *)
(*                                                                         *)
(* The argument is about one node: the replay store never knows more than  *)
(* the node has done (Ordered), the diagnostics are behind the replay      *)
(* store, by the datagram in hand at least (Behind), and the age the agent *)
(* gives a node is not more than its true one (Aged).                      *)
(***************************************************************************)
EXTENDS ServicePlane, FiniteSetTheorems, TLAPS

\* A heartbeat is before another one, or is not after it.
Below(b, q, c, s) == b < c \/ (b = c /\ q < s)
AtMost(b, q, c, s) == b < c \/ (b = c /\ q <= s)

InHand(n) == agent.accepted # None /\ agent.accepted.node = n

\* The replay store of a node: boots closed, then the boot open, then the node's own.
Ordered(n) ==
  /\ replay[n].boot <= source[n].boot
  /\ \A i \in DOMAIN replay[n].closed : replay[n].closed[i] < replay[n].boot
  /\ replay[n].boot = source[n].boot => replay[n].max < source[n].top
  /\ replay[n].boot # source[n].boot => source[n].top = 0

Behind(n) ==
  /\ AtMost(diag[n].boot, diag[n].seq, replay[n].boot, replay[n].max)
  /\ InHand(n) => /\ replay[n].boot = agent.accepted.boot /\ replay[n].max = agent.accepted.seq
                  /\ Below(diag[n].boot, diag[n].seq, agent.accepted.boot, agent.accepted.seq)

Aged(n) ==
  /\ runtime[n].online => runtime[n].received
  /\ ~agent.up => runtime[n] = Unheard /\ agent.age = 0 /\ agent.accepted = None
  /\ agent.up /\ ~InHand(n) =>
       /\ runtime[n].online => runtime[n].age <= heard[n]
       /\ runtime[n].received /\ ~runtime[n].online => heard[n] > StaleAfter
       /\ ~runtime[n].received => agent.age <= heard[n] \/ heard[n] > StaleAfter

Fine(n) == Ordered(n) /\ Behind(n) /\ Aged(n)

IInv == TypeOK /\ \A n \in Nodes : Fine(n)

------------------------------------------------------------------------------
(* Helpers *)

LEMMA Numbers ==
  /\ StaleAfter \in Nat /\ Grace \in Nat /\ StaleAfter < Grace /\ Threshold \in Nat
  /\ HistoryLimit \in Nat /\ HistoryLimit > 0
  /\ MaxBoots \in Nat /\ MaxBoots > 0 /\ MaxSeq \in Nat /\ MaxTrouble \in Nat
  /\ "well" \in Conditions
  BY HeartbeatAssumption, PlaneAssumption

\* A datagram in hand is one.
LEMMA DatagramIsSome ==
  ASSUME NEW d \in Datagrams
  PROVE  d # None
<1>1. "boot" \in DOMAIN d /\ DOMAIN None = {"node"}
  BY DEF Datagrams, None
<1> QED
  BY <1>1

LEMMA CappedType ==
  ASSUME NEW limit \in Nat, NEW age \in 0..limit
  PROVE  Capped(age, limit) \in 0..limit /\ (age < limit => Capped(age, limit) = age + 1)
         /\ (age >= limit => Capped(age, limit) = limit)
  BY DEF Capped

\* The boots the replay store keeps are some of those it is given.
LEMMA LastElements ==
  ASSUME NEW S, NEW s \in Seq(S), NEW k \in Nat, k > 0
  PROVE  /\ LastOf(s, k) \in Seq(S) /\ Len(LastOf(s, k)) <= k
         /\ \A i \in DOMAIN LastOf(s, k) : \E j \in DOMAIN s : LastOf(s, k)[i] = s[j]
<1>1. CASE Len(s) <= k
  BY <1>1 DEF LastOf
<1>2. CASE Len(s) > k
  <2> DEFINE m == Len(s) - k + 1
  <2>1. Len(s) \in Nat /\ m \in 1..Len(s) /\ m \in Nat
    BY <1>2
  <2>2. LastOf(s, k) = SubSeq(s, m, Len(s))
    BY <1>2 DEF LastOf
  <2>3. /\ SubSeq(s, m, Len(s)) \in Seq(S) /\ Len(SubSeq(s, m, Len(s))) = k
        /\ \A i \in 1..k : SubSeq(s, m, Len(s))[i] = s[m + i - 1]
    BY <1>2, <2>1
  <2>4. \A i \in 1..k : m + i - 1 \in 1..Len(s)
    BY <1>2, <2>1
  <2> QED
    BY <2>1, <2>2, <2>3, <2>4
<1> QED
  BY <1>1, <1>2

LEMMA AppendElements ==
  ASSUME NEW S, NEW s \in Seq(S), NEW b \in S
  PROVE  /\ Append(s, b) \in Seq(S)
         /\ \A j \in DOMAIN Append(s, b) :
              Append(s, b)[j] = b \/ \E i \in DOMAIN s : Append(s, b)[j] = s[i]
  OBVIOUS

\* What the store remembers after a datagram: its boot and number, and of the boots
\* before only some of those it had.
LEMMA RememberFields ==
  ASSUME NEW r \in [boot : 0..MaxBoots, max : Seqs, closed : Seq(Boots)],
         Len(r.closed) <= HistoryLimit, NEW d \in Datagrams
  PROVE  LET x == Remember(r, d) IN
         /\ x \in [boot : 0..MaxBoots, max : Seqs, closed : Seq(Boots)]
         /\ x.boot = d.boot /\ x.max = d.seq
         /\ Len(x.closed) <= HistoryLimit
         /\ d.boot = r.boot => x.closed = r.closed
         /\ \A i \in DOMAIN x.closed :
              \/ x.closed[i] = r.boot /\ d.boot # r.boot
              \/ \E j \in DOMAIN r.closed : x.closed[i] = r.closed[j]
<1> DEFINE c == IF d.boot = r.boot \/ r.boot = 0 THEN r.closed
                ELSE LastOf(Append(r.closed, r.boot), HistoryLimit)
<1>1. Remember(r, d) = [boot |-> d.boot, max |-> d.seq, closed |-> c]
  BY DEF Remember
<1>2. /\ c \in Seq(Boots) /\ Len(c) <= HistoryLimit
      /\ \A i \in DOMAIN c : \/ c[i] = r.boot /\ d.boot # r.boot
                             \/ \E j \in DOMAIN r.closed : c[i] = r.closed[j]
  <2>1. CASE d.boot = r.boot \/ r.boot = 0
    BY <2>1
  <2>2. CASE d.boot # r.boot /\ r.boot # 0
    <3> DEFINE a == Append(r.closed, r.boot)
    <3>1. r.boot \in Boots /\ r.closed \in Seq(Boots)
      BY <2>2, Numbers DEF Boots
    <3>2. /\ a \in Seq(Boots)
          /\ \A j \in DOMAIN a : a[j] = r.boot \/ \E i \in DOMAIN r.closed : a[j] = r.closed[i]
      BY <3>1, AppendElements
    <3>3. c = LastOf(a, HistoryLimit)
      BY <2>2
    <3> HIDE DEF a, c
    <3>4. /\ c \in Seq(Boots) /\ Len(c) <= HistoryLimit
          /\ \A i \in DOMAIN c : \E j \in DOMAIN a : c[i] = a[j]
      BY <3>2, <3>3, LastElements, Numbers
    <3> QED
      BY <2>2, <3>2, <3>4
  <2> QED
    BY <2>1, <2>2
<1>3. d.boot = r.boot => c = r.closed
  OBVIOUS
<1>4. d.boot \in 0..MaxBoots /\ d.seq \in Seqs
  BY Numbers DEF Datagrams, Boots
<1> HIDE DEF c
<1> QED
  BY <1>1, <1>2, <1>3, <1>4

-----------------------------------------------------------------------------
(* Steps that leave the agent alone *)

Sources == [boot : Boots, next : 0..(MaxSeq + 1), says : Conditions,
            on : BOOLEAN, top : 0..(MaxSeq + 1)]

\* A node stays in its boot, or begins another one.
Goes(s, t) ==
  \/ t.boot = s.boot /\ t.top = s.top
  \/ t.boot > s.boot /\ t.top = 0

Quiet ==
  /\ UNCHANGED <<replay, agent, runtime, diag, heard>>
  /\ \A n \in Nodes : Goes(source[n], source'[n])

LEMMA QuietKeeps ==
  ASSUME IInv, Quiet, NEW n \in Nodes, source' \in [Nodes -> Sources]
  PROVE  Fine(n)'
<1>1. source[n].boot \in Nat /\ source'[n].boot \in Nat /\ replay[n].boot \in Nat
  <2>1. Boots \subseteq Nat /\ 0..MaxBoots \subseteq Nat
    BY Numbers DEF Boots
  <2>2. source[n] \in Sources /\ source'[n] \in Sources
    BY DEF IInv, TypeOK, HeartbeatTypeOK, Sources
  <2>3. source[n].boot \in Boots /\ source'[n].boot \in Boots
    BY <2>2 DEF Sources
  <2>4. replay[n].boot \in 0..MaxBoots
    BY DEF IInv, TypeOK, HeartbeatTypeOK
  <2> QED
    BY <2>1, <2>3, <2>4
<1>2. Fine(n) /\ Goes(source[n], source'[n])
  BY DEF IInv, Quiet
<1>3. Ordered(n)'
  BY <1>1, <1>2 DEF Fine, Ordered, Goes, Quiet
<1>4. Behind(n)' /\ Aged(n)'
  BY <1>2 DEF Fine, Behind, Aged, InHand, Quiet
<1> QED
  BY <1>3, <1>4 DEF Fine

\* One node's source is replaced.
LEMMA SourceStep ==
  ASSUME IInv, NEW n \in Nodes, NEW s \in Sources, Goes(source[n], s),
         source' = [source EXCEPT ![n] = s]
  PROVE  source' \in [Nodes -> Sources] /\ \A m \in Nodes : Goes(source[m], source'[m])
<1>1. source \in [Nodes -> Sources]
  BY DEF IInv, TypeOK, HeartbeatTypeOK, Sources
<1>2. ASSUME NEW m \in Nodes
      PROVE  Goes(source[m], source'[m])
  <2>1. source'[m] = IF m = n THEN s ELSE source[m]
    BY <1>1
  <2>2. Goes(source[m], source[m])
    BY DEF Goes
  <2> QED
    BY <2>1, <2>2
<1> QED
  BY <1>1, <1>2

\* The node's and the network's steps.
Outside ==
  \/ \E n \in Nodes : Send(n) \/ Reboot(n) \/ PowerOff(n) \/ ChangeCondition(n)
  \/ \E d \in air : Lose(d) \/ Damage(d)

TroubleFact == trouble' \in 0..MaxTrouble

LEMMA TroubleType ==
  ASSUME IInv, Trouble \/ trouble' = trouble
  PROVE  TroubleFact
<1>1. trouble \in 0..MaxTrouble
  BY DEF IInv, TypeOK, HeartbeatTypeOK
<1> QED
  BY <1>1, Numbers DEF Trouble, TroubleFact

LEMMA OutsideKeeps ==
  ASSUME IInv, Outside
  PROVE  /\ source' \in [Nodes -> Sources] /\ air' \subseteq Datagrams /\ TroubleFact
         /\ Quiet /\ seen' = seen
<1>1. source \in [Nodes -> Sources] /\ air \subseteq Datagrams
  BY DEF IInv, TypeOK, HeartbeatTypeOK, Sources
<1>2. /\ \A b \in Boots : b \in Nat
      /\ \A q \in 0..(MaxSeq + 1) : q <= MaxSeq => q \in Seqs /\ q + 1 \in 0..(MaxSeq + 1)
  BY Numbers DEF Boots, Seqs
<1>3. \A m \in Nodes : Goes(source[m], source[m])
  BY DEF Goes
<1>4. ASSUME NEW n \in Nodes, Send(n)
      PROVE  source' \in [Nodes -> Sources] /\ air' \subseteq Datagrams /\ Quiet
             /\ trouble' = trouble /\ seen' = seen
  <2> DEFINE s == [source[n] EXCEPT !.next = @ + 1]
             d == [node |-> n, boot |-> source[n].boot, seq |-> source[n].next,
                   says |-> source[n].says, sound |-> TRUE]
  <2>1. source[n] \in Sources /\ source[n].next <= MaxSeq
    BY <1>1, <1>4 DEF Send
  <2>2. source[n].next + 1 \in 0..(MaxSeq + 1) /\ source[n].next \in Seqs
    BY <1>2, <2>1 DEF Sources
  <2>3. s \in Sources /\ s.boot = source[n].boot /\ s.top = source[n].top
    BY <2>1, <2>2 DEF Sources
  <2>4. d \in Datagrams
    BY <2>1, <2>2 DEF Sources, Datagrams
  <2>5. source' = [source EXCEPT ![n] = s] /\ air' = air \cup {d}
    BY <1>4 DEF Send
  <2> HIDE DEF s, d
  <2>6. Goes(source[n], s)
    BY <2>3 DEF Goes
  <2> QED
    BY <1>1, <1>4, <2>3, <2>4, <2>5, <2>6, SourceStep DEF Send, Quiet
<1>5. ASSUME NEW n \in Nodes, Reboot(n)
      PROVE  source' \in [Nodes -> Sources] /\ air' \subseteq Datagrams /\ Quiet
             /\ Trouble /\ seen' = seen
  <2> DEFINE s == [source[n] EXCEPT !.boot = @ + 1, !.next = 0, !.on = TRUE, !.top = 0]
  <2>1. source[n] \in Sources /\ source[n].boot < MaxBoots
    BY <1>1, <1>5 DEF Reboot
  <2>2. source[n].boot + 1 \in Boots /\ source[n].boot \in Nat /\ 0 \in 0..(MaxSeq + 1)
    BY <1>2, <2>1, Numbers DEF Sources, Boots
  <2>3. s \in Sources /\ s.boot = source[n].boot + 1 /\ s.top = 0
    BY <2>1, <2>2 DEF Sources
  <2>4. source' = [source EXCEPT ![n] = s]
    BY <1>5 DEF Reboot
  <2> HIDE DEF s
  <2>5. Goes(source[n], s)
    BY <2>2, <2>3 DEF Goes
  <2> QED
    BY <1>1, <1>5, <2>3, <2>4, <2>5, SourceStep DEF Reboot, Quiet
<1>6. ASSUME NEW n \in Nodes, PowerOff(n)
      PROVE  source' \in [Nodes -> Sources] /\ air' \subseteq Datagrams /\ Quiet
             /\ Trouble /\ seen' = seen
  <2> DEFINE s == [source[n] EXCEPT !.on = FALSE]
  <2>1. s \in Sources /\ s.boot = source[n].boot /\ s.top = source[n].top
    BY <1>1 DEF Sources
  <2>2. source' = [source EXCEPT ![n] = s]
    BY <1>6 DEF PowerOff
  <2> HIDE DEF s
  <2>3. Goes(source[n], s)
    BY <2>1 DEF Goes
  <2> QED
    BY <1>1, <1>6, <2>1, <2>2, <2>3, SourceStep DEF PowerOff, Quiet
<1>7. ASSUME NEW n \in Nodes, ChangeCondition(n)
      PROVE  source' \in [Nodes -> Sources] /\ air' \subseteq Datagrams /\ Quiet
             /\ Trouble /\ seen' = seen
  <2>1. PICK c \in Conditions : source' = [source EXCEPT ![n].says = c]
    BY <1>7 DEF ChangeCondition
  <2> DEFINE s == [source[n] EXCEPT !.says = c]
  <2>2. s \in Sources /\ s.boot = source[n].boot /\ s.top = source[n].top
    BY <1>1 DEF Sources
  <2>3. source' = [source EXCEPT ![n] = s]
    BY <2>1
  <2> HIDE DEF s
  <2>4. Goes(source[n], s)
    BY <2>2 DEF Goes
  <2> QED
    BY <1>1, <1>7, <2>2, <2>3, <2>4, SourceStep DEF ChangeCondition, Quiet
<1>8. ASSUME NEW d \in air, Lose(d)
      PROVE  source' \in [Nodes -> Sources] /\ air' \subseteq Datagrams /\ Quiet
             /\ trouble' = trouble /\ seen' = seen
  BY <1>1, <1>3, <1>8 DEF Lose, Quiet
<1>9. ASSUME NEW d \in air, Damage(d)
      PROVE  source' \in [Nodes -> Sources] /\ air' \subseteq Datagrams /\ Quiet
             /\ Trouble /\ seen' = seen
  <2>1. PICK b \in Boots, q \in Seqs :
          air' = (air \ {d}) \cup {[d EXCEPT !.sound = FALSE, !.boot = b, !.seq = q]}
    BY <1>9 DEF Damage
  <2>2. d \in Datagrams
    BY <1>1
  <2>3. [d EXCEPT !.sound = FALSE, !.boot = b, !.seq = q] \in Datagrams
    BY <2>2 DEF Datagrams
  <2> QED
    BY <1>1, <1>3, <1>9, <2>1, <2>3 DEF Damage, Quiet
<1> QED
  BY <1>4, <1>5, <1>6, <1>7, <1>8, <1>9, TroubleType DEF Outside

-----------------------------------------------------------------------------
(* Receiving and recording *)

Stores == [boot : 0..MaxBoots, max : Seqs, closed : Seq(Boots)]
Agents == [up : BOOLEAN, age : 0..Grace, accepted : Datagrams \cup {None}]
Rows == [online : BOOLEAN, received : BOOLEAN, age : 0..(StaleAfter + 1), says : Conditions]
Records == [accepted : Nat, missing : Nat, bootChanges : Nat, boot : 0..MaxBoots, seq : Seqs]

TypedNow ==
  /\ source \in [Nodes -> Sources] /\ air \subseteq Datagrams
  /\ replay \in [Nodes -> Stores] /\ \A n \in Nodes : Len(replay[n].closed) <= HistoryLimit
  /\ agent \in Agents /\ runtime \in [Nodes -> Rows] /\ diag \in [Nodes -> Records]
  /\ heard \in [Nodes -> 0..(StaleAfter + 1)] /\ seen \in [Nodes -> SUBSET (Boots \X Seqs)]

LEMMA Typed ==
  /\ HeartbeatTypeOK <=> TypedNow /\ trouble \in 0..MaxTrouble
  /\ HeartbeatTypeOK' <=> TypedNow' /\ TroubleFact
<1>1. HeartbeatTypeOK <=> TypedNow /\ trouble \in 0..MaxTrouble
  BY DEF HeartbeatTypeOK, TypedNow, Sources, Stores, Agents, Rows, Records
<1>2. HeartbeatTypeOK' <=> TypedNow' /\ TroubleFact
  BY DEF HeartbeatTypeOK, TypedNow, Sources, Stores, Agents, Rows, Records, TroubleFact
<1> QED
  BY <1>1, <1>2

LEMMA TypedInv ==
  ASSUME IInv
  PROVE  TypedNow /\ \A n \in Nodes : Fine(n)
  BY Typed DEF IInv, TypeOK

LEMMA NodeTypes ==
  ASSUME IInv, NEW n \in Nodes
  PROVE  /\ source[n] \in Sources /\ replay[n] \in Stores /\ runtime[n] \in Rows
         /\ diag[n] \in Records /\ heard[n] \in 0..(StaleAfter + 1)
         /\ source[n].boot \in Nat /\ source[n].top \in Nat
         /\ replay[n].boot \in Nat /\ replay[n].max \in Nat
         /\ \A i \in DOMAIN replay[n].closed : replay[n].closed[i] \in Nat
         /\ diag[n].boot \in Nat /\ diag[n].seq \in Nat
         /\ heard[n] \in Nat /\ runtime[n].age \in Nat /\ agent.age \in Nat
<1>1. /\ source[n] \in Sources /\ replay[n] \in Stores /\ runtime[n] \in Rows
      /\ diag[n] \in Records /\ heard[n] \in 0..(StaleAfter + 1) /\ agent \in Agents
  BY TypedInv DEF TypedNow
<1>2. /\ source[n].boot \in Nat /\ source[n].top \in Nat
      /\ replay[n].boot \in Nat /\ replay[n].max \in Nat
      /\ diag[n].boot \in Nat /\ diag[n].seq \in Nat
      /\ heard[n] \in Nat /\ runtime[n].age \in Nat /\ agent.age \in Nat
  <2>1. source[n].boot \in Nat /\ source[n].top \in Nat
    BY <1>1, Numbers DEF Sources, Boots
  <2>2. replay[n].boot \in Nat /\ replay[n].max \in Nat
    BY <1>1, Numbers DEF Stores, Seqs
  <2>3. diag[n].boot \in Nat /\ diag[n].seq \in Nat
    BY <1>1, Numbers DEF Records, Seqs
  <2>4. heard[n] \in Nat /\ runtime[n].age \in Nat /\ agent.age \in Nat
    BY <1>1, Numbers DEF Rows, Agents
  <2> QED
    BY <2>1, <2>2, <2>3, <2>4
<1>3. replay[n].closed \in Seq(Boots)
  BY <1>1 DEF Stores
<1>4. \A i \in DOMAIN replay[n].closed : replay[n].closed[i] \in Boots
  BY <1>3
<1>5. \A b \in Boots : b \in Nat
  BY Numbers DEF Boots
<1> QED
  BY <1>1, <1>2, <1>4, <1>5

\* A datagram that is accepted is of the boot that is open, and later in it, or of the
\* boot the node is in.
LEMMA Accepted ==
  ASSUME IInv, NEW d \in Datagrams, Plausible(d), Authentic(d), ~Refused(d)
  PROVE  LET r == replay[d.node] IN
         \/ d.boot = r.boot /\ d.seq > r.max
         \/ d.boot # r.boot /\ d.boot = source[d.node].boot /\ d.boot > r.boot
<1> DEFINE n == d.node
           r == replay[d.node]
<1>1. n \in Nodes /\ d.boot \in Nat /\ d.seq \in Nat
  BY Numbers DEF Datagrams, Boots, Seqs
<1>2. r.boot \in Nat /\ r.max \in Nat /\ source[n].boot \in Nat
  BY <1>1, NodeTypes
<1>3. CASE d.boot = r.boot
  BY <1>1, <1>2, <1>3 DEF Refused
<1>4. CASE d.boot # r.boot
  <2>1. \A i \in DOMAIN r.closed : r.closed[i] # d.boot
    BY <1>4 DEF Refused
  <2>2. d.boot = source[n].boot
    BY <1>4, <2>1 DEF Plausible, Authentic, Remembered
  <2>3. r.boot <= source[n].boot
    BY <1>1, TypedInv DEF Fine, Ordered
  <2> QED
    BY <1>1, <1>2, <1>4, <2>2, <2>3
<1> QED
  BY <1>3, <1>4

\* A new heartbeat of the boot the node is in is never refused.
LEMMA FreshIsTaken ==
  ASSUME IInv, NEW d \in Datagrams, Fresh(d)
  PROVE  Authentic(d) /\ ~Refused(d)
<1> DEFINE n == d.node
           r == replay[d.node]
<1>1. n \in Nodes /\ d.seq \in Nat /\ d.boot \in Nat
  BY Numbers DEF Datagrams, Boots, Seqs
<1>2. r.boot \in Nat /\ r.max \in Nat /\ source[n].boot \in Nat /\ source[n].top \in Nat
      /\ \A i \in DOMAIN r.closed : r.closed[i] \in Nat
  BY <1>1, NodeTypes
<1>3. Ordered(n)
  BY <1>1, TypedInv DEF Fine
<1>4. d.sound /\ d.boot = source[n].boot /\ d.seq >= source[n].top
  BY DEF Fresh
<1>5. CASE d.boot = r.boot
  BY <1>1, <1>2, <1>3, <1>4, <1>5 DEF Ordered, Refused, Authentic
<1>6. CASE d.boot # r.boot
  <2>1. r.boot < d.boot
    BY <1>1, <1>2, <1>3, <1>4, <1>6 DEF Ordered
  <2>2. \A i \in DOMAIN r.closed : r.closed[i] # d.boot
    BY <1>1, <1>2, <1>3, <2>1 DEF Ordered
  <2> QED
    BY <1>4, <1>6, <2>2 DEF Refused, Authentic
<1> QED
  BY <1>5, <1>6

\* What a datagram does to its node: how far the agent has seen it go.
SeenGo(d) ==
  IF Fresh(d)
    THEN /\ heard' = [heard EXCEPT ![d.node] = 0]
         /\ source' = [source EXCEPT ![d.node].top = d.seq + 1]
    ELSE UNCHANGED <<heard, source>>

LEMMA SeenGoType ==
  ASSUME IInv, NEW d \in Datagrams, SeenGo(d)
  PROVE  /\ source' \in [Nodes -> Sources] /\ heard' \in [Nodes -> 0..(StaleAfter + 1)]
         /\ \A m \in Nodes : source'[m].boot = source[m].boot
         /\ \A m \in Nodes : m # d.node => source'[m] = source[m] /\ heard'[m] = heard[m]
         /\ source'[d.node].top = IF Fresh(d) THEN d.seq + 1 ELSE source[d.node].top
<1>1. source \in [Nodes -> Sources] /\ heard \in [Nodes -> 0..(StaleAfter + 1)]
  BY TypedInv DEF TypedNow
<1>2. d.node \in Nodes /\ d.seq + 1 \in 0..(MaxSeq + 1) /\ 0 \in 0..(StaleAfter + 1)
  BY Numbers DEF Datagrams, Seqs
<1>3. CASE ~Fresh(d)
  BY <1>1, <1>3 DEF SeenGo
<1>4. CASE Fresh(d)
  <2> DEFINE s == [source[d.node] EXCEPT !.top = d.seq + 1]
  <2>1. s \in Sources /\ s.boot = source[d.node].boot /\ s.top = d.seq + 1
    BY <1>1, <1>2 DEF Sources
  <2>2. source' = [source EXCEPT ![d.node] = s] /\ heard' = [heard EXCEPT ![d.node] = 0]
    BY <1>4 DEF SeenGo
  <2> HIDE DEF s
  <2> QED
    BY <1>1, <1>2, <1>4, <2>1, <2>2
<1> QED
  BY <1>3, <1>4

\* Nothing is accepted: the datagram is not authentic, or refused.
LEMMA DroppedKeeps ==
  ASSUME IInv, NEW d \in Datagrams, ~Authentic(d) \/ Refused(d), SeenGo(d),
         UNCHANGED <<replay, agent, runtime, diag>>
  PROVE  Quiet /\ source' \in [Nodes -> Sources]
<1>1. ~Fresh(d)
  BY FreshIsTaken
<1>2. UNCHANGED <<heard, source>>
  BY <1>1 DEF SeenGo
<1>3. source' \in [Nodes -> Sources]
  BY <1>2, TypedInv DEF TypedNow
<1> QED
  BY <1>2, <1>3 DEF Quiet, Goes

\* The datagram is accepted and written to the replay file.
Taken(d) ==
  /\ agent.up /\ agent.accepted = None /\ Plausible(d) /\ Authentic(d) /\ ~Refused(d)
  /\ replay' = [replay EXCEPT ![d.node] = Remember(@, d)]
  /\ agent' = [agent EXCEPT !.accepted = d]
  /\ SeenGo(d)
  /\ UNCHANGED <<runtime, diag, seen>>

LEMMA TakenKeeps ==
  ASSUME IInv, NEW d \in Datagrams, Taken(d)
  PROVE  /\ replay' \in [Nodes -> Stores] /\ \A m \in Nodes : Len(replay'[m].closed) <= HistoryLimit
         /\ agent' \in Agents
         /\ \A m \in Nodes : Fine(m)'
<1> DEFINE n == d.node
           r == replay[n]
           x == Remember(r, d)
<1>1. TypedNow /\ n \in Nodes /\ d.boot \in Nat /\ d.seq \in Nat
  BY TypedInv, Numbers DEF Datagrams, Boots, Seqs
<1>2. r \in Stores /\ Len(r.closed) <= HistoryLimit
  BY <1>1 DEF TypedNow
<1>3. /\ x \in Stores /\ x.boot = d.boot /\ x.max = d.seq /\ Len(x.closed) <= HistoryLimit
      /\ d.boot = r.boot => x.closed = r.closed
      /\ \A i \in DOMAIN x.closed :
           \/ x.closed[i] = r.boot /\ d.boot # r.boot
           \/ \E j \in DOMAIN r.closed : x.closed[i] = r.closed[j]
  BY <1>2, RememberFields DEF Stores
<1>4. replay' = [replay EXCEPT ![n] = x]
  BY DEF Taken
<1> HIDE DEF x
<1>5. replay'[n] = x /\ \A m \in Nodes : m # n => replay'[m] = replay[m]
  BY <1>1, <1>4 DEF TypedNow
<1>6. replay' \in [Nodes -> Stores]
  BY <1>1, <1>3, <1>4 DEF TypedNow
<1>7. \A m \in Nodes : Len(replay'[m].closed) <= HistoryLimit
  BY <1>1, <1>3, <1>5 DEF TypedNow
<1>8. agent' \in Agents /\ agent'.up = agent.up /\ agent'.age = agent.age /\ agent'.accepted = d
  BY <1>1 DEF Taken, TypedNow, Agents
<1>9. /\ \A m \in Nodes : source'[m].boot = source[m].boot
      /\ \A m \in Nodes : m # n => source'[m] = source[m] /\ heard'[m] = heard[m]
      /\ source'[n].top = IF Fresh(d) THEN d.seq + 1 ELSE source[n].top
  BY SeenGoType DEF Taken
<1>10. d # None
  BY DatagramIsSome
<1>11. /\ r.boot \in Nat /\ r.max \in Nat /\ source[n].boot \in Nat /\ source[n].top \in Nat
       /\ diag[n].boot \in Nat /\ diag[n].seq \in Nat
       /\ \A i \in DOMAIN r.closed : r.closed[i] \in Nat
  BY <1>1, NodeTypes
<1>12. \/ d.boot = r.boot /\ d.seq > r.max
       \/ d.boot # r.boot /\ d.boot = source[n].boot /\ d.boot > r.boot
  BY Accepted DEF Taken
<1>13. Fine(n)
  BY <1>1, TypedInv
<1>14. Ordered(n)'
  <2>1. x.boot <= source'[n].boot
    BY <1>1, <1>3, <1>9, <1>11, <1>12, <1>13 DEF Fine, Ordered
  <2>2. \A i \in DOMAIN x.closed : x.closed[i] < x.boot
    <3>1. \A i \in DOMAIN r.closed : r.closed[i] < r.boot
      BY <1>13 DEF Fine, Ordered
    <3>2. CASE d.boot = r.boot
      BY <1>3, <3>1, <3>2
    <3>3. CASE d.boot # r.boot
      BY <1>1, <1>3, <1>11, <1>12, <3>1, <3>3
    <3> QED
      BY <3>2, <3>3
  <2>3. ASSUME d.boot = source[n].boot
        PROVE  d.seq < source'[n].top
    <3>1. d.sound
      BY DEF Taken, Authentic
    <3>2. CASE d.seq >= source[n].top
      BY <1>1, <1>9, <2>3, <3>1, <3>2 DEF Fresh
    <3>3. CASE d.seq < source[n].top
      BY <1>1, <1>9, <1>11, <3>3
    <3> QED
      BY <1>1, <1>11, <3>2, <3>3
  <2>4. ASSUME d.boot # source[n].boot
        PROVE  source'[n].top = 0
    <3>1. r.boot # source[n].boot
      BY <1>12, <2>4
    <3>2. ~Fresh(d)
      BY <2>4 DEF Fresh
    <3> QED
      BY <1>9, <1>13, <3>1, <3>2 DEF Fine, Ordered
  <2> QED
    BY <1>1, <1>3, <1>5, <1>9, <2>1, <2>2, <2>3, <2>4 DEF Ordered
<1>15. Behind(n)'
  <2>1. AtMost(diag[n].boot, diag[n].seq, r.boot, r.max)
    BY <1>13 DEF Fine, Behind
  <2>2. Below(diag[n].boot, diag[n].seq, d.boot, d.seq)
    BY <1>1, <1>11, <1>12, <2>1 DEF AtMost, Below
  <2>3. AtMost(diag[n].boot, diag[n].seq, d.boot, d.seq)
    BY <1>1, <1>11, <2>2 DEF AtMost, Below
  <2> QED
    BY <1>3, <1>5, <1>8, <2>2, <2>3 DEF Behind, Taken
<1>16. Aged(n)'
  BY <1>8, <1>10, <1>13 DEF Fine, Aged, InHand, Taken
<1>17. ASSUME NEW m \in Nodes, m # n
       PROVE  Fine(m)'
  <2>1. Fine(m) /\ replay'[m] = replay[m] /\ source'[m] = source[m] /\ heard'[m] = heard[m]
    BY <1>5, <1>9, <1>17, TypedInv
  <2>2. ~InHand(m) /\ ~InHand(m)' /\ agent.up
    BY <1>8, <1>17 DEF InHand, Taken
  <2>3. Ordered(m)'
    BY <2>1 DEF Fine, Ordered
  <2>4. Behind(m)'
    BY <2>1, <2>2 DEF Fine, Behind, Taken
  <2>5. Aged(m)'
    BY <1>8, <2>1, <2>2 DEF Fine, Aged, Taken
  <2> QED
    BY <2>3, <2>4, <2>5 DEF Fine
<1> QED
  BY <1>6, <1>7, <1>8, <1>14, <1>15, <1>16, <1>17 DEF Fine

LEMMA ReceiveKeeps ==
  ASSUME IInv, NEW d \in air, Receive(d)
  PROVE  HeartbeatTypeOK' /\ \A m \in Nodes : Fine(m)'
<1>1. TypedNow /\ d \in Datagrams
  BY TypedInv DEF TypedNow
<1>2. SeenGo(d) /\ UNCHANGED <<runtime, diag, seen>>
  BY DEF Receive, SeenGo
<1>3. air' \subseteq Datagrams /\ TroubleFact
  BY <1>1, TroubleType DEF Receive, TypedNow
<1>4. source' \in [Nodes -> Sources] /\ heard' \in [Nodes -> 0..(StaleAfter + 1)]
  BY <1>1, <1>2, SeenGoType
<1>5. CASE ~Authentic(d) \/ Refused(d)
  <2>1. UNCHANGED <<replay, agent>>
    BY <1>5 DEF Receive
  <2>2. Quiet
    BY <1>1, <1>2, <1>5, <2>1, DroppedKeeps
  <2>3. \A m \in Nodes : Fine(m)'
    BY <1>4, <2>2, QuietKeeps
  <2>4. TypedNow'
    BY <1>1, <1>2, <1>3, <1>4, <2>1 DEF TypedNow
  <2> QED
    BY <1>3, <2>3, <2>4, Typed
<1>6. CASE Authentic(d) /\ ~Refused(d)
  <2>1. Taken(d)
    BY <1>2, <1>6 DEF Receive, Taken
  <2>2. /\ replay' \in [Nodes -> Stores] /\ \A m \in Nodes : Len(replay'[m].closed) <= HistoryLimit
        /\ agent' \in Agents
        /\ \A m \in Nodes : Fine(m)'
    BY <1>1, <2>1, TakenKeeps
  <2>3. TypedNow'
    BY <1>1, <1>2, <1>3, <1>4, <2>2 DEF TypedNow
  <2> QED
    BY <1>3, <2>2, <2>3, Typed
<1> QED
  BY <1>5, <1>6

LEMMA CountedType ==
  ASSUME NEW g \in Records, NEW d \in Datagrams
  PROVE  Counted(g, d) \in Records /\ Counted(g, d).boot = d.boot /\ Counted(g, d).seq = d.seq
<1>1. g.seq \in Nat /\ d.seq \in Nat /\ d.boot \in 0..MaxBoots /\ d.seq \in Seqs
  BY Numbers DEF Records, Datagrams, Seqs, Boots
<1>2. Gap(g, d) \in Nat
  BY <1>1 DEF Gap
<1>3. g.accepted + 1 \in Nat /\ g.missing + Gap(g, d) \in Nat /\ g.bootChanges + 1 \in Nat
  BY <1>2 DEF Records
<1> QED
  BY <1>1, <1>3 DEF Counted, Records

\* Recording moves the diagnostics of one node forward, to the datagram in hand.
LEMMA RecordStep ==
  ASSUME IInv, Record
  PROVE  LET d == agent.accepted IN
         /\ d \in Datagrams /\ d.node \in Nodes
         /\ diag'[d.node].boot = d.boot /\ diag'[d.node].seq = d.seq
         /\ Below(diag[d.node].boot, diag[d.node].seq, d.boot, d.seq)
         /\ \A m \in Nodes : m # d.node => diag'[m] = diag[m]
<1>1. TypedNow /\ agent.accepted # None
  BY TypedInv DEF Record
<1>2. agent.accepted \in Datagrams
  BY <1>1 DEF TypedNow, Agents
<1>3. agent.accepted.node \in Nodes
  BY <1>2 DEF Datagrams
<1>4. diag' = [diag EXCEPT ![agent.accepted.node] = Counted(@, agent.accepted)]
  BY DEF Record
<1>5. diag'[agent.accepted.node] = Counted(diag[agent.accepted.node], agent.accepted)
      /\ \A m \in Nodes : m # agent.accepted.node => diag'[m] = diag[m]
  BY <1>1, <1>3, <1>4 DEF TypedNow
<1>6. diag[agent.accepted.node] \in Records
  BY <1>3, NodeTypes
<1>7. InHand(agent.accepted.node) /\ Fine(agent.accepted.node)
  BY <1>1, <1>3, TypedInv DEF InHand
<1> QED
  BY <1>2, <1>3, <1>5, <1>6, <1>7, CountedType DEF Fine, Behind

LEMMA RecordKeeps ==
  ASSUME IInv, Record
  PROVE  HeartbeatTypeOK' /\ \A m \in Nodes : Fine(m)'
<1> DEFINE d == agent.accepted
           n == d.node
           row == [online |-> TRUE, received |-> TRUE, age |-> 0, says |-> d.says]
<1>1. TypedNow /\ d # None /\ d \in Datagrams /\ n \in Nodes
  BY TypedInv, RecordStep DEF Record
<1>2. row \in Rows
  BY <1>1, Numbers DEF Rows, Datagrams
<1>3. /\ runtime' = [runtime EXCEPT ![n] = row]
      /\ diag' = [diag EXCEPT ![n] = Counted(@, d)]
      /\ seen' = [seen EXCEPT ![n] = @ \cup {<<d.boot, d.seq>>}]
      /\ agent' = [agent EXCEPT !.accepted = None]
      /\ UNCHANGED <<source, air, replay, heard, trouble>>
  BY DEF Record
<1>4. /\ diag'[n].boot = d.boot /\ diag'[n].seq = d.seq
      /\ \A m \in Nodes : m # n => diag'[m] = diag[m]
  BY RecordStep
<1>5. diag' \in [Nodes -> Records]
  <2>1. Counted(diag[n], d) \in Records
    BY <1>1, NodeTypes, CountedType
  <2> QED
    BY <1>1, <1>3, <2>1 DEF TypedNow
<1>6. seen' \in [Nodes -> SUBSET (Boots \X Seqs)]
  <2>1. <<d.boot, d.seq>> \in Boots \X Seqs
    BY <1>1 DEF Datagrams
  <2> QED
    BY <1>1, <1>3, <2>1 DEF TypedNow
<1>7. agent' \in Agents /\ agent'.up = agent.up /\ agent'.age = agent.age /\ agent'.accepted = None
  BY <1>1, <1>3 DEF TypedNow, Agents
<1> HIDE DEF row
<1>8. runtime' \in [Nodes -> Rows] /\ runtime'[n] = row
      /\ \A m \in Nodes : m # n => runtime'[m] = runtime[m]
  BY <1>1, <1>2, <1>3 DEF TypedNow
<1>9. TypedNow'
  BY <1>1, <1>3, <1>5, <1>6, <1>7, <1>8 DEF TypedNow
<1>10. TroubleFact
  BY <1>3, TroubleType
<1>11. agent.up /\ \A m \in Nodes : ~InHand(m)' /\ (m # n => ~InHand(m))
  BY <1>1, <1>7, TypedInv DEF InHand, Fine, Aged
<1>12. ASSUME NEW m \in Nodes
       PROVE  Fine(m)'
  <2>1. Fine(m)
    BY TypedInv
  <2>2. Ordered(m)'
    BY <1>3, <2>1 DEF Fine, Ordered
  <2>3. CASE m = n
    <3>1. InHand(m) /\ heard[m] \in Nat
      BY <1>1, <2>3, NodeTypes DEF InHand
    <3>2. replay[m].boot = d.boot /\ replay[m].max = d.seq
      BY <2>1, <3>1 DEF Fine, Behind
    <3>3. d.boot \in Nat /\ d.seq \in Nat
      BY <1>1, Numbers DEF Datagrams, Boots, Seqs
    <3>4. Behind(m)'
      BY <1>3, <1>4, <1>11, <2>3, <3>2, <3>3 DEF Behind, AtMost
    <3>5. Aged(m)'
      BY <1>3, <1>7, <1>8, <1>11, <2>3, <3>1 DEF Aged, row
    <3> QED
      BY <2>2, <3>4, <3>5 DEF Fine
  <2>4. CASE m # n
    <3>1. Behind(m)'
      BY <1>3, <1>4, <1>11, <2>1, <2>4 DEF Fine, Behind
    <3>2. Aged(m)'
      BY <1>3, <1>7, <1>8, <1>11, <2>1, <2>4 DEF Fine, Aged
    <3> QED
      BY <2>2, <3>1, <3>2 DEF Fine
  <2> QED
    BY <2>3, <2>4
<1> QED
  BY <1>9, <1>10, <1>12, Typed

-----------------------------------------------------------------------------
(* Expiring, stopping and starting, time *)

LEMMA ExpireKeeps ==
  ASSUME IInv, Expire
  PROVE  HeartbeatTypeOK' /\ \A m \in Nodes : Fine(m)'
<1>1. TypedNow /\ agent.up /\ agent.accepted = None
      /\ UNCHANGED <<source, air, replay, agent, diag, heard, seen, trouble>>
  BY TypedInv DEF Expire
<1>2. ASSUME NEW m \in Nodes
      PROVE  /\ runtime'[m] \in Rows /\ runtime'[m].received = runtime[m].received
             /\ runtime'[m].age = runtime[m].age
             /\ runtime'[m].online <=> runtime[m].online /\ ~Stale(m)
  <2>1. runtime[m] \in Rows
    BY NodeTypes
  <2>2. runtime'[m] = IF Stale(m) THEN [runtime[m] EXCEPT !.online = FALSE] ELSE runtime[m]
    BY DEF Expire
  <2>3. CASE Stale(m)
    BY <2>1, <2>2, <2>3 DEF Rows
  <2>4. CASE ~Stale(m)
    BY <2>1, <2>2, <2>4
  <2> QED
    BY <2>3, <2>4
<1>3. runtime' \in [Nodes -> Rows]
  BY <1>2 DEF Expire
<1>4. TypedNow'
  BY <1>1, <1>3 DEF TypedNow
<1>5. ASSUME NEW m \in Nodes
      PROVE  Fine(m)'
  <2>1. Fine(m) /\ heard[m] \in Nat /\ runtime[m].age \in Nat
    BY TypedInv, NodeTypes
  <2>2. ~InHand(m) /\ ~InHand(m)'
    BY <1>1 DEF InHand
  <2>3. Stale(m) => heard[m] > StaleAfter
    BY <1>1, <2>1, <2>2, Numbers DEF Stale, Fine, Aged
  <2>4. Aged(m)'
    BY <1>1, <1>2, <2>1, <2>2, <2>3 DEF Fine, Aged
  <2>5. Ordered(m)' /\ Behind(m)'
    BY <1>1, <2>1, <2>2 DEF Fine, Ordered, Behind
  <2> QED
    BY <2>4, <2>5 DEF Fine
<1> QED
  BY <1>1, <1>4, <1>5, TroubleType, Typed

LEMMA UnheardType ==
  Unheard \in Rows /\ ~Unheard.online /\ ~Unheard.received
  BY Numbers DEF Unheard, Rows

LEMMA AgentStopKeeps ==
  ASSUME IInv, AgentStop
  PROVE  HeartbeatTypeOK' /\ \A m \in Nodes : Fine(m)'
<1>1. TypedNow /\ Trouble
      /\ UNCHANGED <<source, air, replay, diag, heard, seen>>
      /\ agent' = [up |-> FALSE, age |-> 0, accepted |-> None]
      /\ runtime' = [n \in Nodes |-> Unheard]
  BY TypedInv DEF AgentStop
<1>2. agent' \in Agents /\ ~agent'.up /\ agent'.age = 0 /\ agent'.accepted = None
  BY <1>1, Numbers DEF Agents
<1>3. runtime' \in [Nodes -> Rows]
  BY <1>1, UnheardType
<1>4. TypedNow'
  BY <1>1, <1>2, <1>3 DEF TypedNow
<1>5. ASSUME NEW m \in Nodes
      PROVE  Fine(m)'
  <2>1. Fine(m) /\ runtime'[m] = Unheard /\ ~InHand(m)'
    BY <1>1, <1>2, TypedInv DEF InHand
  <2>2. Ordered(m)' /\ Behind(m)'
    BY <1>1, <2>1 DEF Fine, Ordered, Behind
  <2>3. Aged(m)'
    BY <1>2, <2>1, UnheardType DEF Aged
  <2> QED
    BY <2>2, <2>3 DEF Fine
<1> QED
  BY <1>1, <1>4, <1>5, TroubleType, Typed

LEMMA AgentStartKeeps ==
  ASSUME IInv, AgentStart
  PROVE  HeartbeatTypeOK' /\ \A m \in Nodes : Fine(m)'
<1>1. TypedNow /\ ~agent.up
      /\ UNCHANGED <<source, air, replay, runtime, diag, heard, seen, trouble>>
      /\ agent' = [agent EXCEPT !.up = TRUE]
  BY TypedInv DEF AgentStart
<1>2. agent' \in Agents /\ agent'.up /\ agent'.age = agent.age /\ agent'.accepted = agent.accepted
  BY <1>1 DEF TypedNow, Agents
<1>3. TypedNow'
  BY <1>1, <1>2 DEF TypedNow
<1>4. ASSUME NEW m \in Nodes
      PROVE  Fine(m)'
  <2>1. Fine(m) /\ heard[m] \in Nat
    BY TypedInv, NodeTypes
  <2>2. runtime[m] = Unheard /\ agent.age = 0 /\ agent.accepted = None
    BY <1>1, <2>1 DEF Fine, Aged
  <2>3. ~InHand(m) /\ ~InHand(m)'
    BY <1>2, <2>2 DEF InHand
  <2>4. Ordered(m)' /\ Behind(m)'
    BY <1>1, <2>1, <2>3 DEF Fine, Ordered, Behind
  <2>5. Aged(m)'
    BY <1>1, <1>2, <2>1, <2>2, UnheardType DEF Aged
  <2> QED
    BY <2>4, <2>5 DEF Fine
<1> QED
  BY <1>1, <1>3, <1>4, TroubleType, Typed

LEMMA TickKeeps ==
  ASSUME IInv, Tick
  PROVE  HeartbeatTypeOK' /\ \A m \in Nodes : Fine(m)'
<1>1. TypedNow /\ agent.accepted = None
      /\ UNCHANGED <<source, air, replay, diag, seen, trouble>>
  BY TypedInv DEF Tick
<1>2. /\ agent' \in Agents /\ agent'.up = agent.up /\ agent'.accepted = None
      /\ agent'.age = IF agent.up THEN Capped(agent.age, Grace) ELSE agent.age
  <2>1. agent \in Agents /\ Capped(agent.age, Grace) \in 0..Grace
    BY <1>1, CappedType, Numbers DEF TypedNow, Agents
  <2> QED
    BY <1>1, <2>1 DEF Tick, Agents
<1>3. ASSUME NEW m \in Nodes
      PROVE  /\ runtime'[m] \in Rows /\ runtime'[m].received = runtime[m].received
             /\ runtime'[m].online = runtime[m].online
             /\ runtime[m].online => runtime'[m].age = Capped(runtime[m].age, StaleAfter + 1)
             /\ ~runtime[m].online => runtime'[m] = runtime[m]
  <2>1. runtime[m] \in Rows /\ Capped(runtime[m].age, StaleAfter + 1) \in 0..(StaleAfter + 1)
    BY NodeTypes, CappedType, Numbers DEF Rows
  <2>2. runtime'[m] = IF runtime[m].online
                        THEN [runtime[m] EXCEPT !.age = Capped(@, StaleAfter + 1)]
                        ELSE runtime[m]
    BY DEF Tick
  <2>3. CASE runtime[m].online
    BY <2>1, <2>2, <2>3 DEF Rows
  <2>4. CASE ~runtime[m].online
    BY <2>1, <2>2, <2>4
  <2> QED
    BY <2>3, <2>4
<1>4. ASSUME NEW m \in Nodes
      PROVE  heard'[m] = Capped(heard[m], StaleAfter + 1) /\ heard'[m] \in 0..(StaleAfter + 1)
  BY NodeTypes, CappedType, Numbers DEF Tick
<1>5. runtime' \in [Nodes -> Rows] /\ heard' \in [Nodes -> 0..(StaleAfter + 1)]
  BY <1>3, <1>4 DEF Tick
<1>6. TypedNow'
  BY <1>1, <1>2, <1>5 DEF TypedNow
<1>7. ASSUME NEW m \in Nodes
      PROVE  Fine(m)'
  <2>1. /\ Fine(m) /\ heard[m] \in 0..(StaleAfter + 1) /\ runtime[m].age \in 0..(StaleAfter + 1)
        /\ agent.age \in 0..Grace
    BY <1>1, TypedInv, NodeTypes DEF TypedNow, Rows, Agents
  <2>2. ~InHand(m) /\ ~InHand(m)'
    BY <1>1, <1>2 DEF InHand
  <2>3. Ordered(m)' /\ Behind(m)'
    BY <1>1, <2>1, <2>2 DEF Fine, Ordered, Behind
  <2>4. ~agent.up => runtime'[m] = Unheard /\ agent'.age = 0
    BY <1>2, <1>3, <2>1, UnheardType DEF Fine, Aged
  <2>5. runtime'[m].online => runtime'[m].received
    BY <1>3, <2>1 DEF Fine, Aged
  <2>6. ASSUME agent.up, runtime[m].online
        PROVE  runtime'[m].age <= heard'[m]
    <3>1. runtime[m].age <= heard[m] /\ runtime'[m].age = Capped(runtime[m].age, StaleAfter + 1)
          /\ heard'[m] = Capped(heard[m], StaleAfter + 1)
      BY <1>3, <1>4, <2>1, <2>2, <2>6 DEF Fine, Aged
    <3> QED
      BY <2>1, <3>1, Numbers DEF Capped
  <2>7. heard[m] > StaleAfter => heard'[m] > StaleAfter
    BY <1>4, <2>1, Numbers DEF Capped
  <2>8. ASSUME agent.up, ~runtime[m].received
        PROVE  agent'.age <= heard'[m] \/ heard'[m] > StaleAfter
    <3>1. agent.age <= heard[m] \/ heard[m] > StaleAfter
      BY <2>1, <2>2, <2>8 DEF Fine, Aged
    <3>2. agent'.age = Capped(agent.age, Grace) /\ heard'[m] = Capped(heard[m], StaleAfter + 1)
      BY <1>2, <1>4, <2>8
    <3> QED
      BY <2>1, <3>1, <3>2, Numbers DEF Capped
  <2>9. Aged(m)'
    BY <1>2, <1>3, <2>1, <2>2, <2>4, <2>5, <2>6, <2>7, <2>8 DEF Fine, Aged
  <2> QED
    BY <2>3, <2>9 DEF Fine
<1> QED
  BY <1>1, <1>6, <1>7, TroubleType, Typed

LEMMA OutsideFine ==
  ASSUME IInv, Outside
  PROVE  HeartbeatTypeOK' /\ \A m \in Nodes : Fine(m)'
<1>1. /\ source' \in [Nodes -> Sources] /\ air' \subseteq Datagrams /\ TroubleFact
      /\ Quiet /\ seen' = seen
  BY OutsideKeeps
<1>2. TypedNow'
  BY <1>1, TypedInv DEF TypedNow, Quiet
<1>3. \A m \in Nodes : Fine(m)'
  BY <1>1, QuietKeeps
<1> QED
  BY <1>1, <1>2, <1>3, Typed

LEMMA HeartbeatKeeps ==
  ASSUME IInv, HeartbeatNext
  PROVE  HeartbeatTypeOK' /\ \A m \in Nodes : Fine(m)'
<1>1. CASE Outside
  BY <1>1, OutsideFine
<1>2. CASE \E d \in air : Receive(d)
  BY <1>2, ReceiveKeeps
<1> QED
  BY <1>1, <1>2, RecordKeeps, ExpireKeeps, AgentStopKeeps, AgentStartKeeps, TickKeeps
  DEF HeartbeatNext, Outside

-----------------------------------------------------------------------------
(* The core's steps *)

PlaneStep == SensorBusChanges \/ NetworkChanges \/ Ask \/ AskInVain

LEMMA PlaneLeavesAgent ==
  ASSUME IInv, PlaneStep
  PROVE  HeartbeatTypeOK' /\ \A m \in Nodes : Fine(m)'
<1>1. UNCHANGED untroubled
  BY DEF PlaneStep, SensorBusChanges, NetworkChanges, Ask, AskInVain, untroubled, heartbeatVars
<1>2. TroubleFact
  <2>1. Trouble \/ trouble' = trouble
    BY DEF PlaneStep, SensorBusChanges, NetworkChanges, Ask, AskInVain, heartbeatVars
  <2> QED
    BY <2>1, TroubleType
<1>3. TypedNow' /\ source' = source
  BY <1>1, TypedInv DEF TypedNow, untroubled
<1>4. Quiet
  BY <1>1 DEF Quiet, Goes, untroubled
<1>5. \A m \in Nodes : Fine(m)'
  BY <1>3, <1>4, QuietKeeps DEF TypedNow
<1> QED
  BY <1>2, <1>3, <1>5, Typed

LEMMA CorrelatedSilent ==
  ASSUME NEW base, NEW a, NEW after
  PROVE  /\ Correlated(base, a, after).silent \subseteq Nodes
         /\ \A n \in Correlated(base, a, after).silent : a # NoAnswer /\ MissingForGood(a, n)
  BY DEF Correlated, SilentNodes

LEMMA ReconcileType ==
  ASSUME PlaneTypeOK, NEW a, Reconcile(a)
  PROVE  PlaneTypeOK'
<1>1. monitor' \in [available : BOOLEAN, failures : 0..Threshold]
  <2>1. monitor.failures \in 0..Threshold
    BY DEF PlaneTypeOK
  <2> QED
    BY <2>1, Numbers DEF Reconcile, Polled
<1>2. out'.silent \subseteq Nodes
  BY CorrelatedSilent DEF Reconcile
<1> QED
  BY <1>1, <1>2 DEF PlaneTypeOK, Reconcile

LEMMA PlaneTypes ==
  ASSUME IInv, PlaneStep
  PROVE  PlaneTypeOK'
<1>1. PlaneTypeOK
  BY DEF IInv, TypeOK
<1>2. ASSUME SensorBusChanges
      PROVE  PlaneTypeOK'
  <2>1. PICK n \in Nodes, c \in FaultCodes :
          faults' = [faults EXCEPT ![n] = IF c \in @ THEN @ \ {c} ELSE @ \cup {c}]
    BY <1>2 DEF SensorBusChanges
  <2>2. faults' \in [Nodes -> SUBSET FaultCodes]
    BY <1>1, <2>1 DEF PlaneTypeOK
  <2> QED
    BY <1>1, <1>2, <2>2 DEF SensorBusChanges, PlaneTypeOK
<1>3. ASSUME NetworkChanges
      PROVE  PlaneTypeOK'
  <2>1. broken' \subseteq NetworkParts
    BY <1>1, <1>3 DEF NetworkChanges, PlaneTypeOK
  <2> QED
    BY <1>1, <1>3, <2>1 DEF NetworkChanges, PlaneTypeOK
<1>4. ASSUME Ask \/ AskInVain
      PROVE  PlaneTypeOK'
  BY <1>1, <1>4, ReconcileType DEF Ask, AskInVain
<1> QED
  BY <1>2, <1>3, <1>4 DEF PlaneStep

-----------------------------------------------------------------------------
(* What holds always *)

LEMMA InitHolds ==
  ASSUME Init
  PROVE  IInv
<1> DEFINE s == [boot |-> 1, next |-> 0, says |-> "well", on |-> TRUE, top |-> 0]
           r == [boot |-> 0, max |-> 0, closed |-> <<>>]
<1>1. /\ s \in Sources /\ r \in Stores /\ Len(r.closed) <= HistoryLimit
      /\ r.closed = <<>>
  BY Numbers DEF Sources, Stores, Boots, Seqs
<1>2. /\ NoDiagnostics \in Records /\ NoDiagnostics.boot = 0 /\ NoDiagnostics.seq = 0
      /\ 0 \in 0..(StaleAfter + 1)
  BY Numbers DEF NoDiagnostics, Records, Seqs
<1>3. /\ source = [n \in Nodes |-> s] /\ replay = [n \in Nodes |-> r] /\ air = {}
      /\ agent = [up |-> TRUE, age |-> 0, accepted |-> None]
      /\ runtime = [n \in Nodes |-> Unheard] /\ diag = [n \in Nodes |-> NoDiagnostics]
      /\ heard = [n \in Nodes |-> 0] /\ seen = [n \in Nodes |-> {}]
      /\ trouble = MaxTrouble
  BY DEF Init, HeartbeatInit
<1>4. agent \in Agents /\ agent.up /\ agent.age = 0 /\ agent.accepted = None
  BY <1>3, Numbers DEF Agents
<1> HIDE DEF s, r
<1>5. TypedNow /\ trouble \in 0..MaxTrouble
  BY <1>1, <1>2, <1>3, <1>4, UnheardType, Numbers DEF TypedNow
<1>6. PlaneTypeOK
  <2>1. faults \in [Nodes -> SUBSET FaultCodes]
    BY DEF Init, PlaneInit
  <2> QED
    BY <2>1, Numbers DEF Init, PlaneInit, PlaneTypeOK
<1>7. ASSUME NEW n \in Nodes
      PROVE  Fine(n)
  <2>1. /\ source[n] = s /\ replay[n] = r /\ runtime[n] = Unheard /\ diag[n] = NoDiagnostics
        /\ heard[n] = 0
    BY <1>3
  <2>2. s.boot = 1 /\ s.top = 0 /\ r.boot = 0 /\ r.max = 0
    BY DEF s, r
  <2>3. Ordered(n)
    BY <1>1, <2>1, <2>2 DEF Ordered
  <2>4. Behind(n)
    BY <1>2, <1>4, <2>1, <2>2 DEF Behind, AtMost, InHand
  <2>5. Aged(n)
    BY <1>4, <2>1, UnheardType DEF Aged
  <2> QED
    BY <2>3, <2>4, <2>5 DEF Fine
<1> QED
  BY <1>5, <1>6, <1>7, Typed DEF IInv, TypeOK

\* The inductive invariant: the diagnostics of a node are behind the replay store, the
\* replay store behind the node, and no node is taken for older than it is.
THEOREM Invariance == Spec => []IInv
<1>1. Init => IInv
  BY InitHolds
<1>2. IInv /\ [Next]_vars => IInv'
  <2> SUFFICES ASSUME IInv, [Next]_vars
               PROVE  IInv'
    OBVIOUS
  <2>1. CASE HeartbeatNext /\ UNCHANGED planeVars
    <3>1. PlaneTypeOK'
      BY <2>1 DEF planeVars, PlaneTypeOK, IInv, TypeOK
    <3> QED
      BY <2>1, <3>1, HeartbeatKeeps DEF IInv, TypeOK
  <2>2. CASE PlaneStep
    BY <2>2, PlaneLeavesAgent, PlaneTypes DEF IInv, TypeOK
  <2>3. CASE UNCHANGED vars
    BY <2>3
    DEF vars, heartbeatVars, planeVars, IInv, TypeOK, HeartbeatTypeOK, PlaneTypeOK,
        Fine, Ordered, Behind, Aged, InHand
  <2> QED
    BY <2>1, <2>2, <2>3 DEF Next, PlaneStep
<1> QED
  BY <1>1, <1>2, PTL DEF Spec

\* Every variable of the nodes, of the agent and of the core's monitor keeps its type.
THEOREM TypesAreKept == Spec => []TypeOK
<1>1. IInv => TypeOK
  BY DEF IInv
<1> QED
  BY <1>1, Invariance, PTL

\* The record of a node never goes back, whatever is delayed, repeated or damaged and
\* however often the node or the agent starts again.
THEOREM RecordNeverGoesBack == Spec => NeverBackwards
<1> DEFINE Forward ==
      \A n \in Nodes :
        <<diag'[n].boot, diag'[n].seq>> # <<diag[n].boot, diag[n].seq>> =>
          \/ diag'[n].boot > diag[n].boot
          \/ diag'[n].boot = diag[n].boot /\ diag'[n].seq > diag[n].seq
<1>1. IInv /\ [Next]_vars => [Forward]_heartbeatVars
  <2> SUFFICES ASSUME IInv, [Next]_vars
               PROVE  Forward \/ UNCHANGED heartbeatVars
    OBVIOUS
  <2>1. CASE diag' = diag
    BY <2>1
  <2>2. CASE Record
    <3>1. ASSUME NEW n \in Nodes, n = agent.accepted.node
          PROVE  diag'[n].boot > diag[n].boot
                   \/ (diag'[n].boot = diag[n].boot /\ diag'[n].seq > diag[n].seq)
      <4>1. diag[n].boot \in Nat /\ diag[n].seq \in Nat
        BY NodeTypes
      <4>2. agent.accepted \in Datagrams
            /\ diag'[n].boot = agent.accepted.boot /\ diag'[n].seq = agent.accepted.seq
            /\ Below(diag[n].boot, diag[n].seq, agent.accepted.boot, agent.accepted.seq)
        BY <2>2, <3>1, RecordStep
      <4>3. agent.accepted.boot \in Nat /\ agent.accepted.seq \in Nat
        BY <4>2, Numbers DEF Datagrams, Boots, Seqs
      <4> QED
        BY <4>1, <4>2, <4>3 DEF Below
    <3>2. \A n \in Nodes : n # agent.accepted.node => diag'[n] = diag[n]
      BY <2>2, RecordStep
    <3> QED
      BY <3>1, <3>2
  <2>3. CASE HeartbeatNext /\ ~Record
    BY <2>1, <2>3
    DEF HeartbeatNext, Send, Reboot, PowerOff, ChangeCondition, Lose, Damage, Receive,
        Expire, AgentStop, AgentStart, Tick
  <2>4. CASE PlaneStep
    BY <2>1, <2>4
    DEF PlaneStep, SensorBusChanges, NetworkChanges, Ask, AskInVain, heartbeatVars, untroubled
  <2>5. CASE UNCHANGED vars
    BY <2>5 DEF vars
  <2> QED
    BY <2>2, <2>3, <2>4, <2>5 DEF Next, PlaneStep
<1> QED
  BY <1>1, Invariance, PTL DEF Spec, NeverBackwards

\* The correlation never hides a fault of the SENSOR BUS, whatever the agent says and
\* whether it answers or not.
THEOREM NoFaultIsHidden == Spec => FaultNeverHidden
<1>1. ASSUME NEW base, NEW a, NEW after, NEW s \in base
      PROVE  \E r \in Correlated(base, a, after).signals : r.node = s.node
  <2>1. CASE s \in Correlated(base, a, after).signals
    BY <2>1
  <2>2. CASE s \notin Correlated(base, a, after).signals
    <3>1. /\ Correlated(base, a, after).signals =
               (base \ Replaced(base, a)) \cup UNION {Cause(base, a, n) : n \in Nodes}
          /\ s \in Replaced(base, a)
      BY <2>2 DEF Correlated
    <3>2. PICK n \in Nodes : Cause(base, a, n) # {} /\ s \in FaultsOf(base, n)
      BY <3>1 DEF Replaced
    <3>3. PICK r \in Cause(base, a, n) : TRUE
      BY <3>2
    <3>4. r.node = n /\ s.node = n
      BY <3>2, <3>3 DEF Cause, Signal, FaultsOf
    <3> QED
      BY <3>1, <3>3, <3>4
  <2> QED
    BY <2>1, <2>2
<1>2. ASSUME Ask \/ AskInVain
      PROVE  \A s \in Base : \E r \in out'.signals : r.node = s.node
  <2>1. PICK a : out' = Correlated(Base, a, monitor')
    BY <1>2 DEF Ask, AskInVain, Reconcile
  <2> QED
    BY <1>1, <2>1
<1>3. [Next]_vars => [Ask \/ AskInVain =>
                        \A s \in Base : \E r \in out'.signals : r.node = s.node]_vars
  BY <1>2
<1> QED
  BY <1>3, PTL DEF Spec, FaultNeverHidden

\* A node is called silent only when the agent's answer says it is missing for good.
LEMMA CalledByAnswer ==
  ASSUME PlaneTypeOK, NEW n \in Nodes, NEW a, NEW after,
         a # NoAnswer => a.broken \subseteq NetworkParts,
         \/ n \in Correlated(Base, a, after).silent
         \/ Signal("kamod_unavailable", n) \in Correlated(Base, a, after).signals
  PROVE  a # NoAnswer /\ MissingForGood(a, n)
<1> DEFINE u == Signal("kamod_unavailable", n)
<1>1. u \notin Base
  <2>1. ASSUME NEW m \in Nodes, NEW c \in faults[m], Signal(c, m) = u
        PROVE  FALSE
    <3>1. c \in FaultCodes
      BY DEF PlaneTypeOK
    <3>2. Signal(c, m).code = c /\ u.code = "kamod_unavailable"
      BY DEF Signal
    <3> QED
      BY <2>1, <3>1, <3>2, PlaneAssumption
  <2> QED
    BY <2>1 DEF Base
<1>2. u # AgentSignal
  <2>1. u.code = "kamod_unavailable" /\ AgentSignal.code = "agent"
    BY DEF Signal, AgentSignal
  <2> QED
    BY <2>1
<1>3. a # NoAnswer => u \notin NetworkSignals(a.broken)
  <2>1. ASSUME a # NoAnswer, NEW p \in a.broken, [code |-> p, node |-> "none"] = u
        PROVE  FALSE
    <3>1. [code |-> p, node |-> "none"].code = p /\ u.code = "kamod_unavailable"
      BY DEF Signal
    <3> QED
      BY <2>1, <3>1, PlaneAssumption
  <2> QED
    BY <2>1 DEF NetworkSignals
<1>4. ASSUME NEW m \in Nodes, u \in Cause(Base, a, m)
      PROVE  m = n /\ MissingForGood(a, m)
  <2>1. PICK c : u = Signal(c, m) /\ (c = "kamod_unavailable" => MissingForGood(a, m))
    BY <1>4 DEF Cause
  <2>2. u.code = "kamod_unavailable" /\ u.node = n
    BY DEF Signal
  <2>3. Signal(c, m).code = c /\ Signal(c, m).node = m
    BY DEF Signal
  <2> QED
    BY <2>1, <2>2, <2>3
<1> HIDE DEF u
<1>5. CASE n \in Correlated(Base, a, after).silent
  BY <1>5, CorrelatedSilent
<1>6. CASE u \in Correlated(Base, a, after).signals
  <2>1. a # NoAnswer
    BY <1>1, <1>2, <1>6 DEF Correlated
  <2>2. PICK m \in Nodes : u \in Cause(Base, a, m)
    BY <1>1, <1>3, <1>6, <2>1 DEF Correlated
  <2> QED
    BY <1>4, <2>1, <2>2
<1> QED
  BY <1>5, <1>6 DEF u

\* A node is called silent only when none of its new heartbeats has reached the agent
\* for longer than the agent's limit, for every number of boots, delays and starts.
THEOREM OnlySilentNodesAreCalledSilent == Spec => SilenceIsReal
<1> DEFINE Called ==
      \A n \in Nodes : CalledSilent(n)' => CalledSilent(n) \/ heard[n] > StaleAfter
<1>1. IInv /\ [Next]_vars => [Called]_vars
  <2> SUFFICES ASSUME IInv, [Next]_vars
               PROVE  Called
    OBVIOUS
  <2>1. ASSUME UNCHANGED out, NEW n \in Nodes, CalledSilent(n)'
        PROVE  CalledSilent(n)
    BY <2>1 DEF CalledSilent
  <2>2. CASE Ask
    <3> SUFFICES ASSUME NEW n \in Nodes, CalledSilent(n)'
                 PROVE  heard[n] > StaleAfter
      OBVIOUS
    <3> DEFINE a == IF agent.up THEN Snapshot ELSE NoAnswer
    <3>1. out' = Correlated(Base, a, monitor') /\ agent.accepted = None /\ PlaneTypeOK
      BY <2>2 DEF Ask, Reconcile, IInv, TypeOK
    <3>2. a # NoAnswer => agent.up /\ a = Snapshot
      OBVIOUS
    <3>3. Snapshot.broken \subseteq NetworkParts
      BY <3>1 DEF Snapshot, PlaneTypeOK
    <3> HIDE DEF a
    <3>4. a # NoAnswer /\ MissingForGood(a, n)
      BY <3>1, <3>2, <3>3, CalledByAnswer DEF CalledSilent
    <3>5. /\ ~runtime[n].online
          /\ runtime[n].received \/ agent.age >= Grace
      <4>1. /\ Snapshot.nodes[n].online = runtime[n].online
            /\ Snapshot.nodes[n].received = runtime[n].received
            /\ Snapshot.mature = (agent.age >= Grace)
        BY DEF Snapshot
      <4>2. MissingForGood(Snapshot, n)
        BY <3>2, <3>4
      <4> QED
        BY <4>1, <4>2 DEF MissingForGood
    <3>6. Aged(n) /\ ~InHand(n) /\ heard[n] \in Nat /\ agent.age \in Nat
      BY <3>1, TypedInv, NodeTypes DEF Fine, InHand
    <3> QED
      BY <3>2, <3>4, <3>5, <3>6, Numbers DEF Aged
  <2>3. CASE AskInVain
    <3> SUFFICES ASSUME NEW n \in Nodes, CalledSilent(n)'
                 PROVE  FALSE
      OBVIOUS
    <3>1. out' = Correlated(Base, NoAnswer, monitor') /\ PlaneTypeOK
      BY <2>3 DEF AskInVain, Reconcile, IInv, TypeOK
    <3> QED
      BY <3>1, CalledByAnswer DEF CalledSilent
  <2>4. CASE HeartbeatNext /\ UNCHANGED planeVars
    BY <2>1, <2>4 DEF planeVars
  <2>5. CASE SensorBusChanges \/ NetworkChanges
    BY <2>1, <2>5 DEF SensorBusChanges, NetworkChanges
  <2>6. CASE UNCHANGED vars
    BY <2>1, <2>6 DEF vars, planeVars
  <2> QED
    BY <2>2, <2>3, <2>4, <2>5, <2>6 DEF Next
<1> QED
  BY <1>1, Invariance, PTL DEF Spec, SilenceIsReal

-----------------------------------------------------------------------------
(* Every number is counted *)

Heartbeats == Boots \X Seqs

\* Of each boot, the numbers from the first to the last of these.
Spanned(S) ==
  {x \in Heartbeats : /\ \E y \in S : y[1] = x[1] /\ y[2] <= x[2]
                      /\ \E z \in S : z[1] = x[1] /\ x[2] <= z[2]}

\* The record of a node is of the last of its heartbeats that were recorded, and counts
\* all of them and what lies between.
CountTrue(g, S) ==
  /\ S \subseteq Heartbeats
  /\ \A x \in S : AtMost(x[1], x[2], g.boot, g.seq)
  /\ g.boot # 0 => <<g.boot, g.seq>> \in S
  /\ g.accepted = Cardinality(S)
  /\ g.accepted + g.missing = Cardinality(Spanned(S))

CountInv == \A n \in Nodes : CountTrue(diag[n], seen[n])

LEMMA HeartbeatsFinite ==
  IsFiniteSet(Heartbeats) /\ \A S \in SUBSET Heartbeats : IsFiniteSet(S) /\ Cardinality(S) \in Nat
<1>1. IsFiniteSet(Boots) /\ IsFiniteSet(Seqs)
  BY Numbers, FS_Interval DEF Boots, Seqs
<1>2. IsFiniteSet(Heartbeats)
  BY <1>1, FS_Product DEF Heartbeats
<1>3. ASSUME NEW S \in SUBSET Heartbeats
      PROVE  IsFiniteSet(S) /\ Cardinality(S) \in Nat
  BY <1>2, FS_Subset, FS_CardinalityType
<1> QED
  BY <1>2, <1>3

\* The numbers after one and up to another, of one boot.
Run(b, low, high) == {<<b, i>> : i \in (low + 1)..high}

LEMMA RunCounted ==
  ASSUME NEW b \in Boots, NEW low \in Nat, NEW high \in Seqs, low < high
  PROVE  /\ Run(b, low, high) \subseteq Heartbeats
         /\ Cardinality(Run(b, low, high)) = high - low
<1> DEFINE I == (low + 1)..high
           f == [i \in I |-> <<b, i>>]
<1>1. high \in Nat /\ \A i \in I : i \in Seqs
  BY Numbers DEF Seqs
<1>2. IsFiniteSet(I) /\ Cardinality(I) = high - low
  BY <1>1, FS_Interval
<1>3. f \in Bijection(I, Run(b, low, high))
  <2>1. f \in [I -> Run(b, low, high)] /\ \A i \in I : f[i] = <<b, i>>
    BY DEF Run
  <2>2. \A i, j \in I : f[i] = f[j] => i = j
    BY <2>1
  <2>3. \A x \in Run(b, low, high) : \E i \in I : f[i] = x
    BY DEF Run
  <2> QED
    BY <2>1, <2>2, <2>3, Zenon DEF Bijection, Injection, Surjection, IsInjective
<1>4. Cardinality(Run(b, low, high)) = Cardinality(I)
  BY <1>2, <1>3, FS_Bijection DEF ExistsBijection
<1> QED
  BY <1>1, <1>2, <1>4 DEF Run, Heartbeats

\* A heartbeat later than all of these is one more; if it is of their last boot, all
\* numbers since the last of these are spanned too.
LEMMA OneMore ==
  ASSUME NEW S \in SUBSET Heartbeats, NEW b \in Boots, NEW q \in Seqs,
         \A x \in S : Below(x[1], x[2], b, q)
  PROVE  LET T == S \cup {<<b, q>>} IN
         /\ T \in SUBSET Heartbeats /\ Cardinality(T) = Cardinality(S) + 1
         /\ (\A x \in S : x[1] # b) => Cardinality(Spanned(T)) = Cardinality(Spanned(S)) + 1
         /\ \A s \in Seqs : <<b, s>> \in S /\ (\A x \in S : x[1] = b => x[2] <= s) =>
              Cardinality(Spanned(T)) = Cardinality(Spanned(S)) + (q - s)
<1> DEFINE T == S \cup {<<b, q>>}
<1>1. \A x \in Heartbeats : x[1] \in Nat /\ x[2] \in Nat /\ x = <<x[1], x[2]>> /\ x[1] \in Boots /\ x[2] \in Seqs
  BY Numbers DEF Heartbeats, Boots, Seqs
<1>2. <<b, q>> \in Heartbeats /\ b \in Nat /\ q \in Nat /\ \A s \in Seqs : s \in Nat
  BY Numbers DEF Heartbeats, Boots, Seqs
<1>3. <<b, q>> \notin S
  <2> SUFFICES ASSUME <<b, q>> \in S
               PROVE  FALSE
    OBVIOUS
  <2>1. Below(b, q, b, q)
    OBVIOUS
  <2> QED
    BY <2>1, <1>2 DEF Below
<1>4. T \in SUBSET Heartbeats /\ Cardinality(T) = Cardinality(S) + 1
  <2>1. IsFiniteSet(S)
    BY HeartbeatsFinite
  <2> QED
    BY <2>1, <1>2, <1>3, FS_AddElement
<1>5. Spanned(S) \subseteq Heartbeats /\ Spanned(T) \subseteq Heartbeats
  BY DEF Spanned
<1>6. IsFiniteSet(Spanned(S)) /\ Cardinality(Spanned(S)) \in Nat
  BY <1>5, HeartbeatsFinite
<1>7. ASSUME \A x \in S : x[1] # b
      PROVE  Cardinality(Spanned(T)) = Cardinality(Spanned(S)) + 1
  <2>1. <<b, q>> \notin Spanned(S)
    BY <1>7 DEF Spanned
  <2>2. Spanned(T) = Spanned(S) \cup {<<b, q>>}
    <3>1. ASSUME NEW x \in Spanned(T)
          PROVE  x \in Spanned(S) \cup {<<b, q>>}
      <4>1. PICK y \in T, z \in T : /\ y[1] = x[1] /\ y[2] <= x[2] /\ z[1] = x[1] /\ x[2] <= z[2]
        BY <3>1 DEF Spanned
      <4>2. x \in Heartbeats
        BY <3>1, <1>5
      <4>3. CASE x[1] = b
        <5>1. y = <<b, q>> /\ z = <<b, q>>
          BY <4>1, <4>3, <1>7
        <5>2. x[2] = q
          BY <4>1, <4>2, <5>1, <1>1, <1>2
        <5>3. x = <<b, q>>
          BY <4>2, <4>3, <5>2, <1>1
        <5> QED
          BY <5>3
      <4>4. CASE x[1] # b
        <5>1. y \in S /\ z \in S
          BY <4>1, <4>4
        <5> QED
          BY <4>1, <4>2, <5>1 DEF Spanned
      <4> QED
        BY <4>3, <4>4
    <3>2. Spanned(S) \subseteq Spanned(T)
      BY DEF Spanned
    <3>3. <<b, q>> \in Spanned(T)
      BY <1>2 DEF Spanned
    <3> QED
      BY <3>1, <3>2, <3>3
  <2> QED
    BY <2>1, <2>2, <1>6, FS_AddElement
<1>8. ASSUME NEW s \in Seqs, <<b, s>> \in S, \A x \in S : x[1] = b => x[2] <= s
      PROVE  Cardinality(Spanned(T)) = Cardinality(Spanned(S)) + (q - s)
  <2> DEFINE R == Run(b, s, q)
  <2>1. s < q
    <3>1. Below(b, s, b, q)
      BY <1>8
    <3> QED
      BY <3>1, <1>2 DEF Below
  <2>2. R \subseteq Heartbeats /\ Cardinality(R) = q - s
    BY <2>1, <1>2, RunCounted
  <2>3. \A x \in R : x[1] = b /\ x[2] \in (s + 1)..q
    BY DEF Run
  <2>4. Spanned(S) \cap R = {}
    <3> SUFFICES ASSUME NEW x \in Spanned(S), x \in R
                 PROVE  FALSE
      OBVIOUS
    <3>1. PICK z \in S : z[1] = x[1] /\ x[2] <= z[2]
      BY DEF Spanned
    <3>2. z[2] <= s /\ z[2] \in Nat /\ x[2] \in Nat /\ x[2] > s
      BY <3>1, <2>3, <1>1, <1>2, <1>8
    <3> QED
      BY <3>1, <3>2, <1>2
  <2>5. Spanned(T) = Spanned(S) \cup R
    <3>1. ASSUME NEW x \in Spanned(T)
          PROVE  x \in Spanned(S) \cup R
      <4>1. PICK y \in T, z \in T : /\ y[1] = x[1] /\ y[2] <= x[2] /\ z[1] = x[1] /\ x[2] <= z[2]
        BY <3>1 DEF Spanned
      <4>2. x \in Heartbeats /\ x[2] \in Nat
        BY <3>1, <1>1, <1>5
      <4>3. CASE x[1] = b /\ x[2] > s
        <5>1. z[2] <= q
          <6>1. CASE z = <<b, q>>
            BY <6>1, <1>2
          <6>2. CASE z \in S
            BY <6>2, <4>1, <4>3, <1>1, <1>2, <1>8, <2>1
          <6> QED
            BY <6>1, <6>2
        <5>2. z[2] \in Nat
          BY <1>1, <1>4
        <5>3. x[2] \in (s + 1)..q
          BY <4>1, <4>2, <4>3, <5>1, <5>2, <1>2
        <5>4. x = <<b, x[2]>>
          BY <4>2, <4>3, <1>1
        <5> QED
          BY <5>3, <5>4 DEF Run
      <4>4. CASE x[1] = b /\ x[2] <= s
        <5>1. y \in S
          <6> SUFFICES ASSUME y = <<b, q>>
                       PROVE  FALSE
            OBVIOUS
          <6> QED
            BY <4>1, <4>2, <4>4, <1>2, <2>1
        <5>2. <<b, s>>[1] = x[1] /\ x[2] <= <<b, s>>[2]
          BY <4>4
        <5> QED
          BY <4>1, <4>2, <5>1, <5>2, <1>8 DEF Spanned
      <4>5. CASE x[1] # b
        <5>1. y \in S /\ z \in S
          BY <4>1, <4>5
        <5> QED
          BY <4>1, <4>2, <5>1 DEF Spanned
      <4> QED
        BY <4>2, <4>3, <4>4, <4>5, <1>2
    <3>2. Spanned(S) \subseteq Spanned(T)
      BY DEF Spanned
    <3>3. ASSUME NEW x \in R
          PROVE  x \in Spanned(T)
      <4>1. x \in Heartbeats /\ x[1] = b /\ x[2] \in (s + 1)..q
        BY <3>3, <2>2, <2>3
      <4>2. <<b, s>> \in T /\ <<b, s>>[1] = x[1] /\ <<b, s>>[2] <= x[2]
        BY <4>1, <1>2, <1>8
      <4>3. <<b, q>> \in T /\ <<b, q>>[1] = x[1] /\ x[2] <= <<b, q>>[2]
        BY <4>1, <1>2
      <4> QED
        BY <4>1, <4>2, <4>3 DEF Spanned
    <3> QED
      BY <3>1, <3>2, <3>3
  <2>6. IsFiniteSet(R)
    BY <2>2, HeartbeatsFinite
  <2> HIDE DEF R, T
  <2>7. Cardinality(Spanned(T)) = Cardinality(Spanned(S)) + Cardinality(R) - Cardinality({})
    BY <2>4, <2>5, <2>6, <1>6, FS_Union
  <2> QED
    BY <2>2, <2>7, <1>2, <1>6, <2>1, FS_EmptySet
<1> QED
  BY <1>4, <1>7, <1>8

LEMMA CountedOneMore ==
  ASSUME NEW g \in Records, NEW S, CountTrue(g, S), NEW d \in Datagrams,
         Below(g.boot, g.seq, d.boot, d.seq)
  PROVE  CountTrue(Counted(g, d), S \cup {<<d.boot, d.seq>>})
<1> DEFINE b == d.boot
           q == d.seq
           h == Counted(g, d)
           T == S \cup {<<b, q>>}
<1>1. /\ S \in SUBSET Heartbeats /\ \A x \in S : AtMost(x[1], x[2], g.boot, g.seq)
      /\ g.boot # 0 => <<g.boot, g.seq>> \in S
      /\ g.accepted = Cardinality(S) /\ g.accepted + g.missing = Cardinality(Spanned(S))
  BY DEF CountTrue
<1>2. /\ b \in Boots /\ q \in Seqs /\ b \in Nat /\ q \in Nat /\ b # 0
      /\ g.boot \in Nat /\ g.seq \in Seqs /\ g.seq \in Nat /\ g.accepted \in Nat /\ g.missing \in Nat
  BY Numbers DEF Datagrams, Records, Boots, Seqs
<1>3. /\ h.accepted = g.accepted + 1 /\ h.missing = g.missing + Gap(g, d)
      /\ h.boot = b /\ h.seq = q
  BY DEF Counted
<1>4. Below(g.boot, g.seq, b, q)
  OBVIOUS
<1>5. \A x \in S : x[1] \in Nat /\ x[2] \in Nat
  BY <1>1, Numbers DEF Heartbeats, Boots, Seqs
<1> HIDE DEF b, q, h
<1>6. \A x \in S : Below(x[1], x[2], b, q)
  BY <1>1, <1>2, <1>4, <1>5 DEF Below, AtMost
<1>7. /\ T \in SUBSET Heartbeats /\ Cardinality(T) = Cardinality(S) + 1
      /\ (\A x \in S : x[1] # b) => Cardinality(Spanned(T)) = Cardinality(Spanned(S)) + 1
      /\ \A s \in Seqs : <<b, s>> \in S /\ (\A x \in S : x[1] = b => x[2] <= s) =>
           Cardinality(Spanned(T)) = Cardinality(Spanned(S)) + (q - s)
  BY <1>1, <1>2, <1>6, OneMore
<1>8. h.accepted + h.missing = Cardinality(Spanned(T))
  <2>1. CASE g.boot = b
    <3>1. <<b, g.seq>> \in S /\ \A x \in S : x[1] = b => x[2] <= g.seq
      BY <2>1, <1>1, <1>2, <1>5 DEF AtMost
    <3>2. Cardinality(Spanned(T)) = Cardinality(Spanned(S)) + (q - g.seq)
      BY <3>1, <1>2, <1>7
    <3>3. g.seq < q
      BY <2>1, <1>2, <1>4 DEF Below
    <3>4. Gap(g, d) = q - g.seq - 1
      BY <2>1, <3>3 DEF Gap, b, q
    <3> QED
      BY <3>2, <3>3, <3>4, <1>1, <1>2, <1>3
  <2>2. CASE g.boot # b
    <3>1. \A x \in S : x[1] # b
      BY <2>2, <1>1, <1>2, <1>4, <1>5 DEF AtMost, Below
    <3>2. Gap(g, d) = 0
      BY <2>2 DEF Gap, b
    <3> QED
      BY <3>1, <3>2, <1>1, <1>2, <1>3, <1>7
  <2> QED
    BY <2>1, <2>2
<1>9. \A x \in T : AtMost(x[1], x[2], b, q)
  <2>1. \A x \in S : AtMost(x[1], x[2], b, q)
    BY <1>2, <1>5, <1>6 DEF AtMost, Below
  <2>2. <<b, q>>[1] = b /\ <<b, q>>[2] = q
    OBVIOUS
  <2>3. AtMost(b, q, b, q)
    BY <1>2 DEF AtMost
  <2> QED
    BY <2>1, <2>2, <2>3
<1>10. CountTrue(h, T)
  BY <1>1, <1>2, <1>3, <1>7, <1>8, <1>9 DEF CountTrue
<1> QED
  BY <1>10 DEF b, q, h

LEMMA CountStarts == Init => CountInv
<1> SUFFICES ASSUME Init, NEW n \in Nodes
             PROVE  CountTrue(diag[n], seen[n])
  BY DEF CountInv
<1>1. seen[n] = {} /\ diag[n].boot = 0 /\ diag[n].accepted = 0 /\ diag[n].missing = 0
  BY DEF Init, HeartbeatInit, NoDiagnostics
<1>2. Spanned({}) = {}
  BY DEF Spanned
<1> QED
  BY <1>1, <1>2, FS_EmptySet DEF CountTrue

LEMMA CountSteps == IInv /\ CountInv /\ [Next]_vars => CountInv'
<1> SUFFICES ASSUME IInv, CountInv, [Next]_vars
             PROVE  CountInv'
  OBVIOUS
<1>1. CASE Record
  <2> DEFINE d == agent.accepted
             n == d.node
  <2>1. /\ TypedNow /\ d \in Datagrams /\ n \in Nodes
        /\ Below(diag[n].boot, diag[n].seq, d.boot, d.seq)
    BY <1>1, RecordStep, TypedInv
  <2>2. diag' = [diag EXCEPT ![n] = Counted(@, d)] /\ seen' = [seen EXCEPT ![n] = @ \cup {<<d.boot, d.seq>>}]
    BY <1>1 DEF Record
  <2>3. diag[n] \in Records
    BY <2>1, NodeTypes
  <2>4. CountTrue(Counted(diag[n], d), seen[n] \cup {<<d.boot, d.seq>>})
    BY <2>1, <2>3, CountedOneMore DEF CountInv
  <2>5. /\ diag'[n] = Counted(diag[n], d) /\ seen'[n] = seen[n] \cup {<<d.boot, d.seq>>}
        /\ \A m \in Nodes : m # n => diag'[m] = diag[m] /\ seen'[m] = seen[m]
    BY <2>1, <2>2 DEF TypedNow
  <2> HIDE DEF n, d
  <2>6. ASSUME NEW m \in Nodes
        PROVE  CountTrue(diag'[m], seen'[m])
    <3>1. CASE m = n
      BY <3>1, <2>4, <2>5
    <3>2. CASE m # n
      BY <3>2, <2>5 DEF CountInv
    <3> QED
      BY <3>1, <3>2
  <2> QED
    BY <2>6 DEF CountInv
<1>2. CASE diag' = diag /\ seen' = seen
  BY <1>2 DEF CountInv
<1>3. CASE HeartbeatNext /\ ~Record
  BY <1>2, <1>3
  DEF HeartbeatNext, Send, Reboot, PowerOff, ChangeCondition, Lose, Damage, Receive,
      Expire, AgentStop, AgentStart, Tick
<1>4. CASE PlaneStep
  BY <1>2, <1>4
  DEF PlaneStep, SensorBusChanges, NetworkChanges, Ask, AskInVain, heartbeatVars, untroubled
<1>5. CASE UNCHANGED vars
  BY <1>2, <1>5 DEF vars, heartbeatVars
<1> QED
  BY <1>1, <1>3, <1>4, <1>5 DEF Next, PlaneStep

LEMMA CountHolds == CountInv => EveryNumberCounted
<1> SUFFICES ASSUME CountInv, NEW n \in Nodes
             PROVE  /\ diag[n].accepted = Cardinality(seen[n])
                    /\ diag[n].accepted + diag[n].missing =
                         Cardinality({x \in Boots \X Seqs : x[2] \in SpanOf(n, x[1])})
  BY DEF EveryNumberCounted
<1>1. CountTrue(diag[n], seen[n])
  BY DEF CountInv
<1>2. seen[n] \subseteq Heartbeats
  BY <1>1 DEF CountTrue
<1>3. \A x \in Heartbeats : x = <<x[1], x[2]>> /\ x[1] \in Boots /\ x[2] \in Seqs
  BY DEF Heartbeats
<1>4. ASSUME NEW x \in Heartbeats
      PROVE  x[2] \in SpanOf(n, x[1]) <=> x \in Spanned(seen[n])
  <2>1. x[2] \in Seqs
    BY <1>3
  <2>2. (\E y \in seen[n] : y[1] = x[1] /\ y[2] <= x[2])
          <=> \E i \in Seqs : <<x[1], i>> \in seen[n] /\ i <= x[2]
    <3>1. ASSUME NEW y \in seen[n], y[1] = x[1], y[2] <= x[2]
          PROVE  y[2] \in Seqs /\ <<x[1], y[2]>> \in seen[n]
      BY <3>1, <1>2, <1>3
    <3> QED
      BY <3>1
  <2>3. (\E z \in seen[n] : z[1] = x[1] /\ x[2] <= z[2])
          <=> \E i \in Seqs : <<x[1], i>> \in seen[n] /\ x[2] <= i
    <3>1. ASSUME NEW z \in seen[n], z[1] = x[1], x[2] <= z[2]
          PROVE  z[2] \in Seqs /\ <<x[1], z[2]>> \in seen[n]
      BY <3>1, <1>2, <1>3
    <3> QED
      BY <3>1
  <2> QED
    BY <2>1, <2>2, <2>3 DEF SpanOf, Spanned
<1>5. {x \in Boots \X Seqs : x[2] \in SpanOf(n, x[1])} = Spanned(seen[n])
  BY <1>4 DEF Heartbeats, Spanned
<1> QED
  BY <1>1, <1>5 DEF CountTrue

\* Between the first and the last heartbeat of a boot that were recorded every number has
\* been counted exactly once, as accepted or as missing: for any number of nodes, boots,
\* heartbeats and stops of the agent, whatever is lost, delayed or repeated.
THEOREM NoNumberIsForgotten == Spec => []EveryNumberCounted
<1> QED
  BY Invariance, CountStarts, CountSteps, CountHolds, PTL DEF Spec
=============================================================================
