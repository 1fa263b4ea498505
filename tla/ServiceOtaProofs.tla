--------------------------- MODULE ServiceOtaProofs ---------------------------
(***************************************************************************)
(* What firmware updates guarantee for any number of nodes, operations,    *)
(* resets and stops of the agent.                                          *)
(*                                                                         *)
(* The argument is about one node: its flash is always bootable (Fits),    *)
(* the numbers it holds were given (Known), what the agent reports is what *)
(* it has stored (Link), and the operation is in the phase its thread      *)
(* takes it for (Stage).  Where the boot loader is concerned an operation  *)
(* has no image on the node (Gone) or is in one of six phases (InPhase).   *)
(***************************************************************************)
EXTENDS ServiceOta, TLAPS

\* A node can boot: what is selected is confirmed, or can be given up for what is.
Fits(r) ==
  /\ r.ota # "reboot_pending" =>
       r.selected = r.running /\ r.flash[r.running] \in {"valid", "pending"}
  /\ r.flash[r.running] = "pending" => r.flash[Other(r.running)] = "valid"
  /\ r.ota = "receiving" => r.flash[r.running] = "valid"
  /\ r.ota = "reboot_pending" =>
       /\ r.selected = Other(r.running)
       /\ r.flash[r.selected] = "new" /\ r.flash[r.running] = "valid"

\* Every number of an operation was given.
Known(s, r, h, k) ==
  /\ s.id <= k /\ r.nonce <= k /\ r.from <= k
  /\ \A p \in Partitions : r.image[p] <= k
  /\ h.booted \subseteq 1..k /\ h.confirmed \subseteq 1..k

\* What is in memory is what is stored, and a thread works on it.
Link(o, s, w) ==
  /\ o = NoOperation \/ o = s
  /\ w.at # "ended" => o = s /\ s.state \in Working /\ s.id # 0
  /\ w.sawPending => w.at = "poll"

\* The image of operation i is not on the node and will not get there by itself.
Gone(i, r, h) ==
  /\ \A p \in Partitions : r.image[p] # i
  /\ i \notin h.booted /\ i \notin h.confirmed
  /\ ~(r.ota = "receiving" /\ r.from = i /\ r.whole)

AtSource(s, r) ==
  /\ r.running = s.source /\ r.selected = s.source
  /\ r.flash[s.source] = "valid"
  /\ r.ota \in {"idle", "error"}

AtTarget(s, r) ==
  /\ r.running = Target(s)
  /\ r.ota \in {"idle", "error"}

OnTarget(s, r) == \A p \in Partitions : r.image[p] = s.id <=> p = Target(s)

\* The phases of an image that was sent as a whole.
Received(s, r, h) ==
  /\ r.ota = "receiving" /\ r.from = s.id /\ r.running = s.source
  /\ \A p \in Partitions : r.image[p] # s.id
  /\ s.id \notin h.booted /\ s.id \notin h.confirmed
Chosen(s, r, h) ==
  /\ r.ota = "reboot_pending" /\ r.running = s.source /\ OnTarget(s, r)
  /\ s.id \notin h.booted /\ s.id \notin h.confirmed
Tried(s, r, h) ==
  /\ AtTarget(s, r) /\ r.flash[r.running] = "pending" /\ OnTarget(s, r)
  /\ s.id \in h.booted /\ s.id \notin h.confirmed
Kept(s, r, h) ==
  /\ AtTarget(s, r) /\ r.flash[r.running] = "valid"
  /\ s.id \in h.confirmed
Back(s, r, h) ==
  /\ AtSource(s, r) /\ r.image[s.source] # s.id
  /\ s.id \in h.booted /\ s.id \notin h.confirmed
Refused(s, r, h) == r.running = s.source /\ Gone(s.id, r, h)

InPhase(s, r, h) ==
  \/ Received(s, r, h) \/ Chosen(s, r, h) \/ Tried(s, r, h)
  \/ Kept(s, r, h) \/ Back(s, r, h) \/ Refused(s, r, h)

\* Verdicts, and what keeps them true.
Settled(s, r, h) ==
  /\ s.state = "succeeded" => s.id \in h.confirmed
  /\ s.state = "rolled_back" => Back(s, r, h)
  /\ s.state = "failed" => Gone(s.id, r, h) \/ Back(s, r, h)

Stage(s, w, rep, r, h) ==
  /\ rep # "none" => w.at \in {"send", "sent"}
  /\ w.at \in {"start", "status", "challenge"} =>
       Gone(s.id, r, h) /\ r.nonce # s.id /\ r.from # s.id
  /\ w.at = "send" => Gone(s.id, r, h) /\ rep \in {"none", "rejected"}
  /\ w.at = "send" /\ rep = "rejected" => ~(r.ota = "receiving" /\ r.from = s.id)
  /\ s.id \notin h.overtaken =>
       /\ w.at \in {"challenge", "send"} => r.running = s.source
       /\ w.at = "sent" =>
            /\ InPhase(s, r, h)
            /\ rep = "rejected" => Refused(s, r, h)
            /\ rep \in Partitions => rep = Target(s)
       /\ w.at = "poll" => InPhase(s, r, h) /\ (w.sawPending => s.id \in h.booted)
       /\ w.at = "ended" => Settled(s, r, h)

Fine(n) ==
  /\ Fits(node[n])
  /\ Known(stored[n], node[n], past[n], budget.ops)
  /\ Link(operations[n], stored[n], worker[n])
  /\ Stage(stored[n], worker[n], reply[n], node[n], past[n])

IInv == OtaTypeOK /\ \A n \in Nodes : Fine(n)

------------------------------------------------------------------------------
(* What the node does *)

LEMMA Partition ==
  ASSUME NEW p \in Partitions
  PROVE  Other(p) \in Partitions /\ Other(p) # p /\ Other(Other(p)) = p
         /\ \A q \in Partitions : q # p => q = Other(p)
  BY DEF Partitions, Other

LEMMA TargetType ==
  ASSUME NEW s \in Operations
  PROVE  Target(s) \in Partitions /\ s.source \in Partitions
         /\ Target(s) # s.source /\ Other(Target(s)) = s.source
         /\ \A p \in Partitions : p # s.source => p = Target(s)
  BY Partition DEF Target, Operations

\* The fields of a node that has booted.
LEMMA BootedFields ==
  ASSUME NEW r \in NodeStates
  PROVE  LET s == r.selected
             again == r.flash[s] = "pending"
             f == IF again THEN "aborted" ELSE IF r.flash[s] = "new" THEN "pending" ELSE r.flash[s]
         IN  /\ Booted(r) \in NodeStates
             /\ Booted(r).running = IF again THEN Other(s) ELSE s
             /\ Booted(r).selected = Booted(r).running
             /\ Booted(r).flash = [r.flash EXCEPT ![s] = f]
             /\ Booted(r).image = r.image
             /\ Booted(r).ota = "idle" /\ Booted(r).nonce = 0 /\ Booted(r).from = 0
<1>1. /\ r.selected \in Partitions /\ Other(r.selected) \in Partitions
      /\ r.flash \in [Partitions -> Flash] /\ r.image \in [Partitions -> 0..MaxOps]
      /\ r.running \in Partitions
  BY Partition DEF NodeStates
<1>2. 0 \in 0..MaxOps
  BY BoundsAssumption
<1> DEFINE s == r.selected
           f == IF r.flash[s] = "pending" THEN "aborted"
                ELSE IF r.flash[s] = "new" THEN "pending" ELSE r.flash[s]
           p == IF r.flash[s] = "pending" THEN Other(s) ELSE s
<1>3. f \in Flash /\ p \in Partitions
  BY <1>1 DEF Flash
<1>4. [r.flash EXCEPT ![s] = f] \in [Partitions -> Flash]
  BY <1>1, <1>3
<1>5. Booted(r) = [r EXCEPT !.running = p, !.selected = p, !.flash = [@ EXCEPT ![s] = f],
                            !.ota = "idle", !.nonce = 0, !.from = 0, !.whole = FALSE]
  BY DEF Booted
<1> HIDE DEF f, p, s
<1>6. Booted(r) \in NodeStates
  BY <1>1, <1>2, <1>3, <1>4, <1>5 DEF NodeStates
<1>7. /\ Booted(r).running = p /\ Booted(r).selected = p
      /\ Booted(r).flash = [r.flash EXCEPT ![s] = f]
      /\ Booted(r).image = r.image
      /\ Booted(r).ota = "idle" /\ Booted(r).nonce = 0 /\ Booted(r).from = 0
  BY <1>5 DEF NodeStates
<1> QED
  BY <1>6, <1>7 DEF f, p, s

LEMMA BootFits ==
  ASSUME NEW r \in NodeStates, Fits(r)
  PROVE  Fits(Booted(r))
<1>1. /\ r.selected \in Partitions /\ r.running \in Partitions
      /\ r.flash \in [Partitions -> Flash]
  BY DEF NodeStates
<1>2. Other(r.selected) \in Partitions /\ Other(r.selected) # r.selected
      /\ Other(Other(r.selected)) = r.selected
  BY <1>1, Partition
<1>3. CASE r.flash[r.selected] = "pending"
  <2>1. r.flash[Other(r.selected)] = "valid" /\ r.ota # "reboot_pending"
    BY <1>3 DEF Fits
  <2>2. /\ Booted(r).running = Other(r.selected) /\ Booted(r).selected = Other(r.selected)
        /\ Booted(r).flash[Other(r.selected)] = "valid"
        /\ Booted(r).ota = "idle"
    BY <1>1, <1>2, <1>3, <2>1, BootedFields
  <2> QED
    BY <2>2 DEF Fits
<1>4. CASE r.flash[r.selected] = "new"
  <2>1. r.flash[Other(r.selected)] = "valid"
    BY <1>1, <1>4, Partition DEF Fits
  <2>2. /\ Booted(r).running = r.selected /\ Booted(r).selected = r.selected
        /\ Booted(r).flash[r.selected] = "pending"
        /\ Booted(r).flash[Other(r.selected)] = "valid"
        /\ Booted(r).ota = "idle"
    BY <1>1, <1>2, <1>4, <2>1, BootedFields
  <2> QED
    BY <2>2 DEF Fits
<1>5. CASE r.flash[r.selected] \notin {"pending", "new"}
  <2>1. r.flash[r.selected] = "valid"
    BY <1>5 DEF Fits
  <2>2. /\ Booted(r).running = r.selected /\ Booted(r).selected = r.selected
        /\ Booted(r).flash[r.selected] = "valid"
        /\ Booted(r).ota = "idle"
    BY <1>1, <1>2, <2>1, BootedFields
  <2> QED
    BY <2>2 DEF Fits
<1> QED
  BY <1>3, <1>4, <1>5

ReceivingFields(r, id) ==
  LET p == Other(r.running)  x == Receiving(r, id) IN
  /\ x \in NodeStates
  /\ x.running = r.running /\ x.selected = r.selected
  /\ x.flash = [r.flash EXCEPT ![p] = "empty"] /\ x.image = [r.image EXCEPT ![p] = 0]
  /\ x.ota = "receiving" /\ x.nonce = 0 /\ x.from = id /\ ~x.whole

LEMMA ReceivingType ==
  ASSUME NEW r \in NodeStates, NEW id \in 0..MaxOps
  PROVE  ReceivingFields(r, id)
<1>1. /\ r.selected \in Partitions /\ r.running \in Partitions /\ Other(r.running) \in Partitions
      /\ r.flash \in [Partitions -> Flash] /\ r.image \in [Partitions -> 0..MaxOps]
  BY Partition DEF NodeStates
<1>2. 0 \in 0..MaxOps /\ "empty" \in Flash
  BY BoundsAssumption DEF Flash
<1> DEFINE p == Other(r.running)
<1>3. /\ [r.flash EXCEPT ![p] = "empty"] \in [Partitions -> Flash]
      /\ [r.image EXCEPT ![p] = 0] \in [Partitions -> 0..MaxOps]
  BY <1>1, <1>2
<1>4. Receiving(r, id) = [r EXCEPT !.ota = "receiving", !.nonce = 0, !.from = id,
                                   !.whole = FALSE, !.flash = [@ EXCEPT ![p] = "empty"],
                                   !.image = [@ EXCEPT ![p] = 0]]
  BY DEF Receiving
<1>5. Receiving(r, id) \in NodeStates
  BY <1>1, <1>2, <1>3, <1>4 DEF NodeStates
<1> QED
  BY <1>4, <1>5 DEF ReceivingFields, NodeStates

CommittedFields(r) ==
  LET p == Other(r.running)  x == Committed(r) IN
  /\ x \in NodeStates
  /\ x.running = r.running /\ x.selected = p
  /\ x.flash = [r.flash EXCEPT ![p] = "new"] /\ x.image = [r.image EXCEPT ![p] = r.from]
  /\ x.ota = "reboot_pending" /\ x.nonce = r.nonce /\ x.from = r.from /\ x.whole = r.whole

LEMMA CommittedType ==
  ASSUME NEW r \in NodeStates
  PROVE  CommittedFields(r)
<1>1. /\ r.running \in Partitions /\ Other(r.running) \in Partitions /\ r.from \in 0..MaxOps
      /\ r.flash \in [Partitions -> Flash] /\ r.image \in [Partitions -> 0..MaxOps]
      /\ r.nonce \in 0..MaxOps /\ r.whole \in BOOLEAN
  BY Partition DEF NodeStates
<1>2. "new" \in Flash
  BY DEF Flash
<1> DEFINE p == Other(r.running)
<1>3. /\ [r.flash EXCEPT ![p] = "new"] \in [Partitions -> Flash]
      /\ [r.image EXCEPT ![p] = r.from] \in [Partitions -> 0..MaxOps]
  BY <1>1, <1>2
<1>4. Committed(r) = [r EXCEPT !.ota = "reboot_pending", !.selected = p,
                               !.flash = [@ EXCEPT ![p] = "new"],
                               !.image = [@ EXCEPT ![p] = r.from]]
  BY DEF Committed
<1>5. Committed(r) \in NodeStates
  BY <1>1, <1>3, <1>4 DEF NodeStates
<1> QED
  BY <1>4, <1>5 DEF CommittedFields, NodeStates

-----------------------------------------------------------------------------
(* What becomes of an image on the node *)

\* The boot adds to what was booted, and only the image it starts.
BootedInto(r, h, g) ==
  /\ g.booted = h.booted \cup ({Booted(r).image[Booted(r).running]} \cap Ids)
  /\ g.confirmed = h.confirmed

\* An image that is not on the node does not come back with a boot.
LEMMA BootGone ==
  ASSUME NEW i \in 0..MaxOps, NEW r \in NodeStates, NEW h, NEW g,
         Gone(i, r, h), BootedInto(r, h, g)
  PROVE  Gone(i, Booted(r), g)
<1>1. Booted(r).image = r.image /\ Booted(r).ota = "idle" /\ Booted(r).running \in Partitions
  BY BootedFields DEF NodeStates
<1>2. Booted(r).image[Booted(r).running] # i
  BY <1>1 DEF Gone
<1> QED
  BY <1>1, <1>2 DEF Gone, BootedInto

\* The fields of a node that starts the image it has selected for good.
LEMMA BootSettled ==
  ASSUME NEW r \in NodeStates, r.flash[r.selected] = "valid"
  PROVE  /\ Booted(r).running = r.selected /\ Booted(r).selected = r.selected
         /\ Booted(r).flash[r.selected] = "valid"
         /\ Booted(r).image = r.image /\ Booted(r).ota = "idle"
<1>1. r.selected \in Partitions /\ r.flash \in [Partitions -> Flash]
  BY DEF NodeStates
<1> QED
  BY <1>1, BootedFields

\* A boot moves an operation's image on by one phase at most.
LEMMA BootPhase ==
  ASSUME NEW s \in Operations, s.id # 0, NEW r \in NodeStates, Fits(r),
         NEW h, NEW g, BootedInto(r, h, g)
  PROVE  /\ Received(s, r, h) => Refused(s, Booted(r), g)
         /\ Refused(s, r, h) /\ Booted(r).running = r.running => Refused(s, Booted(r), g)
         /\ Back(s, r, h) \/ Tried(s, r, h) => Back(s, Booted(r), g)
         /\ Chosen(s, r, h) => Tried(s, Booted(r), g)
         /\ Kept(s, r, h) => Kept(s, Booted(r), g)
<1> DEFINE x == Booted(r)
<1>1. /\ r.selected \in Partitions /\ r.running \in Partitions
      /\ r.flash \in [Partitions -> Flash]
  BY DEF NodeStates
<1>2. s.id \in Ids /\ s.id \in 0..MaxOps
  BY DEF Operations, Ids
<1>3. Target(s) \in Partitions /\ s.source \in Partitions /\ Target(s) # s.source
      /\ Other(Target(s)) = s.source /\ Other(s.source) = Target(s)
  BY TargetType DEF Target
<1>4. ASSUME Refused(s, r, h), x.running = r.running
      PROVE  Refused(s, x, g)
  BY <1>2, <1>4, BootGone DEF Refused
<1>5. ASSUME Received(s, r, h)
      PROVE  Refused(s, x, g)
  <2>1. r.selected = s.source /\ r.flash[s.source] = "valid"
    BY <1>5 DEF Received, Fits
  <2>2. /\ x.running = s.source /\ x.selected = s.source /\ x.flash[s.source] = "valid"
        /\ x.image = r.image /\ x.ota = "idle"
    BY <2>1, BootSettled
  <2>3. Gone(s.id, x, g)
    BY <1>3, <1>5, <2>2 DEF Received, Gone, BootedInto
  <2> QED
    BY <2>2, <2>3 DEF Refused
<1>6. ASSUME Back(s, r, h)
      PROVE  Back(s, x, g)
  <2>1. /\ x.running = s.source /\ x.selected = s.source /\ x.flash[s.source] = "valid"
        /\ x.image = r.image /\ x.ota = "idle"
    BY <1>6, BootSettled DEF Back, AtSource
  <2> QED
    BY <1>6, <2>1 DEF Back, AtSource, BootedInto
<1>7. ASSUME Tried(s, r, h)
      PROVE  Back(s, x, g)
  <2>1. r.running = Target(s) /\ r.selected = Target(s) /\ r.flash[Target(s)] = "pending"
        /\ r.flash[s.source] = "valid"
    BY <1>3, <1>7 DEF Tried, AtTarget, Fits
  <2>2. /\ x.running = s.source /\ x.selected = s.source
        /\ x.flash = [r.flash EXCEPT ![Target(s)] = "aborted"]
        /\ x.image = r.image /\ x.ota = "idle"
    BY <1>3, <2>1, BootedFields
  <2>3. x.flash[s.source] = "valid"
    BY <1>1, <1>3, <2>1, <2>2
  <2>4. x.image[s.source] # s.id
    BY <1>3, <1>7, <2>2 DEF Tried, OnTarget
  <2>5. AtSource(s, x)
    BY <2>2, <2>3 DEF AtSource
  <2> QED
    BY <1>7, <2>4, <2>5 DEF Back, Tried, BootedInto
<1>8. ASSUME Chosen(s, r, h)
      PROVE  Tried(s, x, g)
  <2>1. r.selected = Target(s) /\ r.flash[Target(s)] = "new"
    BY <1>3, <1>8 DEF Chosen, Fits
  <2>2. /\ x.running = Target(s)
        /\ x.flash = [r.flash EXCEPT ![Target(s)] = "pending"]
        /\ x.image = r.image /\ x.ota = "idle"
    BY <2>1, BootedFields
  <2>3. x.flash[Target(s)] = "pending"
    BY <1>1, <1>3, <2>2
  <2>4. OnTarget(s, x) /\ x.image[Target(s)] = s.id
    BY <1>3, <1>8, <2>2 DEF Chosen, OnTarget
  <2>5. s.id \in g.booted /\ s.id \notin g.confirmed
    BY <1>2, <1>8, <2>2, <2>4 DEF Chosen, BootedInto
  <2> QED
    BY <2>2, <2>3, <2>4, <2>5 DEF Tried, AtTarget
<1>9. ASSUME Kept(s, r, h)
      PROVE  Kept(s, x, g)
  <2>1. r.selected = Target(s) /\ r.flash[Target(s)] = "valid"
    BY <1>9 DEF Kept, AtTarget, Fits
  <2>2. x.running = Target(s) /\ x.flash[Target(s)] = "valid" /\ x.ota = "idle"
    BY <2>1, BootSettled
  <2> QED
    BY <1>9, <2>2 DEF Kept, AtTarget, BootedInto
<1> QED
  BY <1>4, <1>5, <1>6, <1>7, <1>8, <1>9

\* Phases and verdicts are about the number and the source of an operation only.
LEMMA SameOperation ==
  ASSUME NEW s, NEW t, t.id = s.id, t.source = s.source, NEW r, NEW h
  PROVE  /\ Target(t) = Target(s)
         /\ InPhase(t, r, h) <=> InPhase(s, r, h)
         /\ Refused(t, r, h) <=> Refused(s, r, h)
         /\ Back(t, r, h) <=> Back(s, r, h)
<1>1. Target(t) = Target(s)
  BY DEF Target
<1>2. /\ AtSource(t, r) <=> AtSource(s, r)
      /\ AtTarget(t, r) <=> AtTarget(s, r)
      /\ OnTarget(t, r) <=> OnTarget(s, r)
  BY <1>1 DEF AtSource, AtTarget, OnTarget
<1>3. /\ Received(t, r, h) <=> Received(s, r, h)
      /\ Chosen(t, r, h) <=> Chosen(s, r, h)
      /\ Tried(t, r, h) <=> Tried(s, r, h)
      /\ Kept(t, r, h) <=> Kept(s, r, h)
      /\ Back(t, r, h) <=> Back(s, r, h)
      /\ Refused(t, r, h) <=> Refused(s, r, h)
  BY <1>2 DEF Received, Chosen, Tried, Kept, Back, Refused
<1> QED
  BY <1>1, <1>3 DEF InPhase

\* An operation whose state is replaced.
LEMMA Restated ==
  ASSUME NEW s \in Operations, NEW x \in Terminal \cup Working
  PROVE  LET t == [s EXCEPT !.state = x] IN
         t \in Operations /\ t.id = s.id /\ t.source = s.source /\ t.state = x
  BY DEF Operations

-----------------------------------------------------------------------------
(* Steps at one node *)

\* Everything of node n is set; the other nodes keep what they have.
StepAt(n, o, s, w, rep, r, h) ==
  /\ operations' = [operations EXCEPT ![n] = o]
  /\ stored' = [stored EXCEPT ![n] = s]
  /\ worker' = [worker EXCEPT ![n] = w]
  /\ reply' = [reply EXCEPT ![n] = rep]
  /\ node' = [node EXCEPT ![n] = r]
  /\ past' = [past EXCEPT ![n] = h]

FineAs(o, s, w, rep, r, h, k) ==
  /\ o \in Operations /\ s \in Operations /\ w \in Workers /\ rep \in Replies
  /\ r \in NodeStates /\ h \in History
  /\ Fits(r) /\ Known(s, r, h, k) /\ Link(o, s, w) /\ Stage(s, w, rep, r, h)

LEMMA KnownGrows ==
  ASSUME NEW s \in Operations, NEW r \in NodeStates, NEW h, NEW k \in Nat, NEW m \in Nat,
         k <= m, Known(s, r, h, k)
  PROVE  Known(s, r, h, m)
<1>1. /\ s.id \in Nat /\ r.nonce \in Nat /\ r.from \in Nat
      /\ \A p \in Partitions : r.image[p] \in Nat
  BY BoundsAssumption DEF Operations, NodeStates
<1>2. 1..k \subseteq 1..m
  OBVIOUS
<1> QED
  BY <1>1, <1>2 DEF Known

LEMMA StepKeeps ==
  ASSUME IInv, NEW n \in Nodes,
         NEW o, NEW s, NEW w, NEW rep, NEW r, NEW h,
         StepAt(n, o, s, w, rep, r, h),
         budget' \in Budgets, budget.ops <= budget'.ops,
         FineAs(o, s, w, rep, r, h, budget'.ops)
  PROVE  IInv'
<1>1. OtaTypeOK'
  BY DEF IInv, OtaTypeOK, StepAt, FineAs
<1>2. budget.ops \in Nat /\ budget'.ops \in Nat
  BY BoundsAssumption DEF IInv, OtaTypeOK, Budgets
<1>3. ASSUME NEW m \in Nodes
      PROVE  Fine(m)'
  <2>1. CASE m = n
    <3>1. /\ operations'[n] = o /\ stored'[n] = s /\ worker'[n] = w
          /\ reply'[n] = rep /\ node'[n] = r /\ past'[n] = h
      BY DEF StepAt, IInv, OtaTypeOK
    <3> QED
      BY <2>1, <3>1 DEF Fine, FineAs
  <2>2. CASE m # n
    <3>1. /\ operations'[m] = operations[m] /\ stored'[m] = stored[m]
          /\ worker'[m] = worker[m] /\ reply'[m] = reply[m]
          /\ node'[m] = node[m] /\ past'[m] = past[m]
      BY <2>2 DEF StepAt, IInv, OtaTypeOK
    <3>2. Fine(m) /\ stored[m] \in Operations /\ node[m] \in NodeStates
      BY DEF IInv, OtaTypeOK
    <3>3. Known(stored[m], node[m], past[m], budget'.ops)
      BY <1>2, <3>2, KnownGrows DEF Fine
    <3> QED
      BY <3>1, <3>2, <3>3 DEF Fine
  <2> QED
    BY <2>1, <2>2
<1> QED
  BY <1>1, <1>3 DEF IInv

\* What the invariant says of one node.
FineNow(n) ==
  /\ FineAs(operations[n], stored[n], worker[n], reply[n], node[n], past[n], budget.ops)
  /\ budget \in Budgets /\ budget.ops \in Nat
  /\ worker[n].at # "ended" =>
       operations[n] = stored[n] /\ stored[n].id # 0 /\ stored[n].id \in Ids

LEMMA Now ==
  ASSUME IInv, NEW n \in Nodes
  PROVE  FineNow(n)
<1>1. /\ operations[n] \in Operations /\ stored[n] \in Operations /\ worker[n] \in Workers
      /\ reply[n] \in Replies /\ node[n] \in NodeStates /\ past[n] \in History
      /\ budget \in Budgets
  BY DEF IInv, OtaTypeOK
<1>2. Fine(n)
  BY DEF IInv
<1>3. budget.ops \in Nat
  BY <1>1, BoundsAssumption DEF Budgets
<1>4. stored[n].id \in 0..MaxOps
  BY <1>1 DEF Operations
<1> QED
  BY <1>1, <1>2, <1>3, <1>4, BoundsAssumption DEF FineNow, FineAs, Fine, Link, Ids

\* What a thread may set while the node does not move.
ThreadSets(n, t, w, rep) ==
  /\ Set(n, t)
  /\ worker' = [worker EXCEPT ![n] = w]
  /\ reply' = [reply EXCEPT ![n] = rep]
  /\ UNCHANGED <<node, past, budget>>

LEMMA ThreadKeeps ==
  ASSUME IInv, NEW n \in Nodes,
         NEW t \in Operations, NEW w \in Workers, NEW rep \in Replies,
         ThreadSets(n, t, w, rep),
         t.id = stored[n].id, t.state \in Working \/ w.at = "ended",
         w.at # "ended" => t.id # 0, w.sawPending => w.at = "poll",
         Stage(t, w, rep, node[n], past[n])
  PROVE  IInv'
<1>1. FineNow(n)
  BY Now
<1>2. StepAt(n, t, t, w, rep, node[n], past[n])
  BY DEF ThreadSets, Set, StepAt, IInv, OtaTypeOK
<1>3. Known(t, node[n], past[n], budget.ops)
  BY <1>1 DEF FineNow, FineAs, Known
<1>4. Link(t, t, w)
  BY DEF Link
<1>5. FineAs(t, t, w, rep, node[n], past[n], budget'.ops)
  BY <1>1, <1>3, <1>4 DEF FineNow, FineAs, ThreadSets
<1>6. budget' \in Budgets /\ budget.ops <= budget'.ops
  BY <1>1 DEF FineNow, ThreadSets
<1> QED
  BY <1>2, <1>5, <1>6, StepKeeps

-----------------------------------------------------------------------------
(* The thread's steps *)

\* The verdict stands when the node is as it says.
Justified(v, s, r, h) ==
  s.id \notin h.overtaken =>
    /\ v = "succeeded" => s.id \in h.confirmed
    /\ v = "rolled_back" => Back(s, r, h)
    /\ v = "failed" => Gone(s.id, r, h) \/ Back(s, r, h)

LEMMA SettleKeeps ==
  ASSUME IInv, NEW n \in Nodes, worker[n].at # "ended",
         NEW v \in Terminal, Settle(n, v),
         reply' = [reply EXCEPT ![n] = "none"],
         UNCHANGED <<node, past, budget>>,
         Justified(v, stored[n], node[n], past[n])
  PROVE  IInv'
<1>1. FineNow(n)
  BY Now
<1>2. operations[n] = stored[n] /\ stored[n] \in Operations
  BY <1>1 DEF FineNow, FineAs
<1> DEFINE t == [stored[n] EXCEPT !.state = v]
<1>3. t \in Operations /\ t.id = stored[n].id /\ t.source = stored[n].source /\ t.state = v
  BY <1>2, Restated
<1>4. Ended \in Workers /\ "none" \in Replies
  BY DEF Ended, Workers, Steps, Replies
<1>5. ThreadSets(n, t, Ended, "none")
  BY <1>2 DEF ThreadSets, Settle, Report
<1> HIDE DEF t
<1>6. Back(t, node[n], past[n]) <=> Back(stored[n], node[n], past[n])
  BY <1>3, SameOperation
<1>7. Stage(t, Ended, "none", node[n], past[n])
  BY <1>3, <1>6 DEF Stage, Ended, Settled, Justified
<1> QED
  BY <1>3, <1>4, <1>5, <1>7, ThreadKeeps DEF Ended

LEMMA StartInstallKeeps ==
  ASSUME IInv, NEW n \in Nodes, StartInstall(n)
  PROVE  IInv'
<1> DEFINE t == [id |-> budget.ops + 1, state |-> "queued", source |-> "ota_0"]
           w == [Ended EXCEPT !.at = "start"]
<1>1. FineNow(n)
  BY Now
<1>2. budget.ops \in Nat /\ budget.ops < MaxOps /\ budget' = [budget EXCEPT !.ops = @ + 1]
  BY <1>1 DEF FineNow, StartInstall
<1>3. t \in Operations
  BY <1>2, BoundsAssumption DEF Operations, Working, Partitions
<1>4. w \in Workers /\ w.at = "start" /\ ~w.sawPending
  BY DEF Ended, Workers, Steps
<1>5. worker[n].at = "ended" /\ reply[n] = "none"
  BY <1>1 DEF FineNow, FineAs, StartInstall, Active, Link, Stage
<1>6. budget' \in Budgets /\ budget'.ops = budget.ops + 1
  BY <1>1, <1>2, BoundsAssumption DEF FineNow, Budgets
<1>7. StepAt(n, t, t, w, reply[n], node[n], past[n])
  BY DEF StartInstall, Set, StepAt, IInv, OtaTypeOK
<1>8. /\ node[n].nonce \in Nat /\ node[n].from \in Nat
      /\ \A p \in Partitions : node[n].image[p] \in Nat
  BY <1>1, BoundsAssumption DEF FineNow, FineAs, NodeStates
<1>9. Known(stored[n], node[n], past[n], budget.ops)
  BY <1>1 DEF FineNow, FineAs
<1>10. Known(t, node[n], past[n], budget.ops + 1)
  <2>1. 1..budget.ops \subseteq 1..(budget.ops + 1)
    BY <1>2
  <2> QED
    BY <1>2, <1>8, <1>9, <2>1 DEF Known
<1>11. /\ \A p \in Partitions : node[n].image[p] # budget.ops + 1
       /\ node[n].nonce # budget.ops + 1 /\ node[n].from # budget.ops + 1
       /\ budget.ops + 1 \notin past[n].booted /\ budget.ops + 1 \notin past[n].confirmed
  BY <1>2, <1>8, <1>9 DEF Known
<1>12. Stage(t, w, reply[n], node[n], past[n])
  BY <1>4, <1>5, <1>11 DEF Stage, Gone
<1>13. Link(t, t, w)
  BY <1>2, <1>4 DEF Link, Working
<1>14. FineAs(t, t, w, reply[n], node[n], past[n], budget'.ops)
  BY <1>1, <1>3, <1>4, <1>6, <1>10, <1>12, <1>13 DEF FineNow, FineAs
<1>15. budget.ops <= budget'.ops
  BY <1>2, <1>6
<1> QED
  BY <1>6, <1>7, <1>14, <1>15, StepKeeps

LEMMA BeginKeeps ==
  ASSUME IInv, NEW n \in Nodes, BeginInstall(n)
  PROVE  IInv'
<1> DEFINE t == [stored[n] EXCEPT !.state = "preflight"]
           w == [worker[n] EXCEPT !.at = "status"]
<1>1. FineNow(n) /\ worker[n].at = "start"
  BY Now DEF BeginInstall
<1>2. operations[n] = stored[n] /\ stored[n] \in Operations /\ stored[n].id # 0
      /\ worker[n] \in Workers /\ reply[n] \in Replies
  BY <1>1 DEF FineNow, FineAs
<1>3. t \in Operations /\ t.id = stored[n].id /\ t.source = stored[n].source
      /\ t.state = "preflight"
  BY <1>2, Restated DEF Working
<1>4. w \in Workers /\ w.at = "status" /\ w.sawPending = worker[n].sawPending
  BY <1>2 DEF Workers, Steps
<1>5. ThreadSets(n, t, w, reply[n])
  BY <1>2 DEF ThreadSets, BeginInstall, Report, IInv, OtaTypeOK
<1>6. ~worker[n].sawPending
  BY <1>1 DEF FineNow, FineAs, Link
<1>7. Stage(t, w, reply[n], node[n], past[n])
  BY <1>1, <1>3, <1>4 DEF FineNow, FineAs, Stage
<1> QED
  BY <1>2, <1>3, <1>4, <1>5, <1>6, <1>7, ThreadKeeps DEF Working

LEMMA PreflightKeeps ==
  ASSUME IInv, NEW n \in Nodes, Preflight(n)
  PROVE  IInv'
<1> DEFINE t == [stored[n] EXCEPT !.state = "authorizing", !.source = node[n].running]
           w == [worker[n] EXCEPT !.at = "challenge"]
<1>1. FineNow(n) /\ worker[n].at = "status"
  BY Now DEF Preflight
<1>2. operations[n] = stored[n] /\ stored[n] \in Operations /\ stored[n].id # 0
      /\ worker[n] \in Workers /\ reply[n] \in Replies /\ node[n].running \in Partitions
  BY <1>1 DEF FineNow, FineAs, NodeStates
<1>3. t \in Operations /\ t.id = stored[n].id /\ t.source = node[n].running
      /\ t.state = "authorizing"
  BY <1>2 DEF Operations, Working
<1>4. w \in Workers /\ w.at = "challenge" /\ w.sawPending = worker[n].sawPending
  BY <1>2 DEF Workers, Steps
<1>5. ThreadSets(n, t, w, reply[n])
  BY <1>2 DEF ThreadSets, Preflight, IInv, OtaTypeOK
<1>6. ~worker[n].sawPending
  BY <1>1 DEF FineNow, FineAs, Link
<1>7. Stage(t, w, reply[n], node[n], past[n])
  BY <1>1, <1>3, <1>4 DEF FineNow, FineAs, Stage
<1> QED
  BY <1>2, <1>3, <1>4, <1>5, <1>6, <1>7, ThreadKeeps DEF Working

LEMMA UnreachableKeeps ==
  ASSUME IInv, NEW n \in Nodes, Unreachable(n)
  PROVE  IInv'
<1>1. FineNow(n) /\ worker[n].at \in {"status", "challenge"}
  BY Now DEF Unreachable
<1>2. Gone(stored[n].id, node[n], past[n]) /\ reply[n] = "none"
  BY <1>1 DEF FineNow, FineAs, Stage
<1>3. Justified("failed", stored[n], node[n], past[n])
  BY <1>2 DEF Justified
<1>4. reply' = [reply EXCEPT ![n] = "none"]
  BY <1>2 DEF Unreachable, IInv, OtaTypeOK
<1> QED
  BY <1>1, <1>3, <1>4, SettleKeeps DEF Unreachable, Terminal

LEMMA ChallengeKeeps ==
  ASSUME IInv, NEW n \in Nodes, Challenge(n)
  PROVE  IInv'
<1> DEFINE s == stored[n]
           x == [node[n] EXCEPT !.nonce = s.id]
           w == [worker[n] EXCEPT !.at = "send"]
<1>1. FineNow(n) /\ worker[n].at = "challenge"
  BY Now DEF Challenge
<1>2. operations[n] = s /\ s \in Operations /\ s.id # 0 /\ s.id \in Ids
      /\ worker[n] \in Workers /\ reply[n] = "none" /\ node[n] \in NodeStates
      /\ past[n] \in History /\ s.state \in Working
  BY <1>1 DEF FineNow, FineAs, Stage, Link
<1>3. /\ Gone(s.id, node[n], past[n]) /\ node[n].from # s.id
      /\ s.id \notin past[n].overtaken => node[n].running = s.source
  BY <1>1 DEF FineNow, FineAs, Stage
<1>4. CASE node[n].ota = "reboot_pending"
  <2>1. Justified("failed", s, node[n], past[n])
    BY <1>3 DEF Justified
  <2>2. reply' = [reply EXCEPT ![n] = "none"]
    BY <1>2 DEF Challenge, IInv, OtaTypeOK
  <2> QED
    BY <1>1, <1>4, <2>1, <2>2, SettleKeeps DEF Challenge, Terminal
<1>5. CASE node[n].ota # "reboot_pending"
  <2>1. /\ x \in NodeStates /\ x.running = node[n].running /\ x.selected = node[n].selected
        /\ x.flash = node[n].flash /\ x.image = node[n].image /\ x.ota = node[n].ota
        /\ x.from = node[n].from /\ x.whole = node[n].whole /\ x.nonce = s.id
    BY <1>2 DEF NodeStates, Ids
  <2>2. w \in Workers /\ w.at = "send" /\ w.sawPending = worker[n].sawPending
    BY <1>2 DEF Workers, Steps
  <2>3. StepAt(n, operations[n], s, w, reply[n], x, past[n]) /\ budget' = budget
    BY <1>2, <1>5 DEF StepAt, Challenge, IInv, OtaTypeOK
  <2> HIDE DEF x, w
  <2>4. Fits(x)
    BY <1>1, <2>1 DEF FineNow, FineAs, Fits
  <2>5. Known(s, x, past[n], budget.ops)
    BY <1>1, <2>1 DEF FineNow, FineAs, Known
  <2>6. Link(operations[n], s, w)
    BY <1>1, <1>2, <2>2 DEF FineNow, FineAs, Link
  <2>7. Stage(s, w, reply[n], x, past[n])
    BY <1>2, <1>3, <2>1, <2>2 DEF Stage, Gone
  <2>8. FineAs(operations[n], s, w, reply[n], x, past[n], budget'.ops)
    BY <1>1, <2>1, <2>2, <2>3, <2>4, <2>5, <2>6, <2>7 DEF FineNow, FineAs
  <2>9. budget' \in Budgets /\ budget.ops <= budget'.ops
    BY <1>1, <2>3 DEF FineNow
  <2> QED
    BY <2>3, <2>8, <2>9, StepKeeps
<1> QED
  BY <1>4, <1>5

LEMMA SendBodyKeeps ==
  ASSUME IInv, NEW n \in Nodes, SendBody(n)
  PROVE  IInv'
<1> DEFINE t == [stored[n] EXCEPT !.state = "uploading"]
           r == [node[n] EXCEPT !.whole = TRUE]
           w == [worker[n] EXCEPT !.at = "sent"]
<1>1. FineNow(n) /\ worker[n].at = "send"
  BY Now DEF SendBody
<1>2. operations[n] = stored[n] /\ stored[n] \in Operations /\ stored[n].id # 0
      /\ worker[n] \in Workers /\ reply[n] \in Replies /\ node[n] \in NodeStates
  BY <1>1 DEF FineNow, FineAs
<1>3. /\ Gone(stored[n].id, node[n], past[n]) /\ reply[n] \in {"none", "rejected"}
      /\ stored[n].id \notin past[n].overtaken => node[n].running = stored[n].source
      /\ reply[n] = "rejected" => ~(node[n].ota = "receiving" /\ node[n].from = stored[n].id)
  BY <1>1 DEF FineNow, FineAs, Stage
<1>4. t \in Operations /\ t.id = stored[n].id /\ t.source = stored[n].source
      /\ t.state = "uploading"
  BY <1>2, Restated DEF Working
<1>5. w \in Workers /\ w.at = "sent" /\ w.sawPending = worker[n].sawPending
  BY <1>2 DEF Workers, Steps
<1>6. Link(t, t, w)
  BY <1>1, <1>2, <1>4, <1>5 DEF FineNow, FineAs, Link, Working
<1>7. budget' \in Budgets /\ budget' = budget
  BY <1>1 DEF FineNow, SendBody
<1>8. ASSUME NEW x \in NodeStates,
             /\ x.running = node[n].running /\ x.selected = node[n].selected
             /\ x.flash = node[n].flash /\ x.image = node[n].image /\ x.ota = node[n].ota
             /\ x.from = node[n].from /\ x.nonce = node[n].nonce,
             StepAt(n, t, t, w, reply[n], x, past[n]),
             t.id \notin past[n].overtaken =>
               /\ InPhase(t, x, past[n])
               /\ reply[n] = "rejected" => Refused(t, x, past[n])
      PROVE  IInv'
  <2> HIDE DEF r, w, t
  <2>1. Fits(x)
    BY <1>1, <1>8 DEF FineNow, FineAs, Fits
  <2>2. Known(t, x, past[n], budget.ops)
    BY <1>1, <1>4, <1>8 DEF FineNow, FineAs, Known
  <2>3. Stage(t, w, reply[n], x, past[n])
    BY <1>3, <1>5, <1>8 DEF Stage, Partitions
  <2>4. FineAs(t, t, w, reply[n], x, past[n], budget'.ops)
    BY <1>1, <1>4, <1>5, <1>6, <1>7, <2>1, <2>2, <2>3 DEF FineNow, FineAs
  <2>5. budget.ops <= budget'.ops
    BY <1>1, <1>7 DEF FineNow
  <2> QED
    BY <1>7, <1>8, <2>4, <2>5, StepKeeps
<1>9. CASE /\ node[n].ota = "receiving" /\ node[n].from = stored[n].id
           /\ node' = [node EXCEPT ![n].whole = TRUE]
  <2>1. /\ r \in NodeStates /\ r.running = node[n].running /\ r.selected = node[n].selected
        /\ r.flash = node[n].flash /\ r.image = node[n].image /\ r.ota = node[n].ota
        /\ r.from = node[n].from /\ r.nonce = node[n].nonce
    BY <1>2 DEF NodeStates
  <2>2. StepAt(n, t, t, w, reply[n], r, past[n])
    BY <1>2, <1>9 DEF StepAt, SendBody, Report, Set, IInv, OtaTypeOK
  <2> HIDE DEF r, w, t
  <2>3. t.id \notin past[n].overtaken => Received(t, r, past[n])
    BY <1>3, <1>4, <1>9, <2>1 DEF Received, Gone
  <2> QED
    BY <1>3, <1>8, <1>9, <2>1, <2>2, <2>3 DEF InPhase
<1>10. CASE reply[n] = "rejected" /\ UNCHANGED node
  <2>1. StepAt(n, t, t, w, reply[n], node[n], past[n])
    BY <1>2, <1>10 DEF StepAt, SendBody, Report, Set, IInv, OtaTypeOK
  <2> HIDE DEF w, t
  <2>2. t.id \notin past[n].overtaken => Refused(t, node[n], past[n])
    BY <1>3, <1>4 DEF Refused
  <2> QED
    BY <1>2, <1>8, <2>1, <2>2 DEF InPhase
<1> QED
  BY <1>2, <1>9, <1>10 DEF SendBody

LEMMA TakeReplyKeeps ==
  ASSUME IInv, NEW n \in Nodes, TakeReply(n)
  PROVE  IInv'
<1> DEFINE t == [stored[n] EXCEPT !.state = "rebooting"]
           w == [worker[n] EXCEPT !.at = "poll"]
<1>1. FineNow(n) /\ worker[n].at \in {"send", "sent"} /\ reply[n] # "none"
  BY Now DEF TakeReply
<1>2. operations[n] = stored[n] /\ stored[n] \in Operations /\ stored[n].id # 0
      /\ worker[n] \in Workers /\ reply[n] \in Replies
      /\ Stage(stored[n], worker[n], reply[n], node[n], past[n])
      /\ ~worker[n].sawPending
  BY <1>1 DEF FineNow, FineAs, Link
<1>3. Target(stored[n]) \in Partitions
  BY <1>2, TargetType
<1>4. CASE reply[n] = Target(stored[n])
  <2>1. worker[n].at = "sent"
    BY <1>1, <1>2, <1>3, <1>4 DEF Stage, Partitions
  <2>2. t \in Operations /\ t.id = stored[n].id /\ t.source = stored[n].source
        /\ t.state = "rebooting"
    BY <1>2, Restated DEF Working
  <2>3. w \in Workers /\ w.at = "poll" /\ ~w.sawPending
    BY <1>2 DEF Workers, Steps
  <2>4. ThreadSets(n, t, w, "none")
    BY <1>2, <1>4 DEF ThreadSets, TakeReply, Report
  <2> HIDE DEF t, w
  <2>5. InPhase(t, node[n], past[n]) <=> InPhase(stored[n], node[n], past[n])
    BY <2>2, SameOperation
  <2>6. Stage(t, w, "none", node[n], past[n])
    BY <1>2, <2>1, <2>2, <2>3, <2>5 DEF Stage
  <2> QED
    BY <1>2, <2>2, <2>3, <2>4, <2>6, ThreadKeeps DEF Working, Replies
<1>5. CASE reply[n] # Target(stored[n])
  <2>1. stored[n].id \notin past[n].overtaken => Gone(stored[n].id, node[n], past[n])
    BY <1>1, <1>2, <1>5 DEF Stage, Replies, Refused
  <2>2. Justified("failed", stored[n], node[n], past[n])
    BY <2>1 DEF Justified
  <2> QED
    BY <1>1, <1>2, <1>5, <2>2, SettleKeeps DEF TakeReply, Terminal
<1> QED
  BY <1>4, <1>5

LEMMA BrokenKeeps ==
  ASSUME IInv, NEW n \in Nodes, Broken(n)
  PROVE  IInv'
<1> DEFINE t == [stored[n] EXCEPT !.state = "reconciling"]
           w == [worker[n] EXCEPT !.at = "poll", !.lost = TRUE]
<1>1. FineNow(n) /\ worker[n].at \in {"send", "sent"}
  BY Now DEF Broken
<1>2. operations[n] = stored[n] /\ stored[n] \in Operations /\ stored[n].id # 0
      /\ worker[n] \in Workers
      /\ Stage(stored[n], worker[n], reply[n], node[n], past[n])
      /\ ~worker[n].sawPending
  BY <1>1 DEF FineNow, FineAs, Link
<1>3. CASE worker[n].at = "sent"
  <2>1. t \in Operations /\ t.id = stored[n].id /\ t.source = stored[n].source
        /\ t.state = "reconciling"
    BY <1>2, Restated DEF Working
  <2>2. w \in Workers /\ w.at = "poll" /\ ~w.sawPending
    BY <1>2 DEF Workers, Steps
  <2>3. ThreadSets(n, t, w, "none")
    BY <1>2, <1>3 DEF ThreadSets, Broken, Report, IInv, OtaTypeOK
  <2> HIDE DEF t, w
  <2>4. InPhase(t, node[n], past[n]) <=> InPhase(stored[n], node[n], past[n])
    BY <2>1, SameOperation
  <2>5. Stage(t, w, "none", node[n], past[n])
    BY <1>2, <1>3, <2>1, <2>2, <2>4 DEF Stage
  <2> QED
    BY <1>2, <2>1, <2>2, <2>3, <2>5, ThreadKeeps DEF Working, Replies
<1>4. CASE worker[n].at = "send"
  <2>1. Justified("failed", stored[n], node[n], past[n])
    BY <1>2, <1>4 DEF Justified, Stage
  <2> QED
    BY <1>1, <1>4, <2>1, SettleKeeps DEF Broken, Terminal
<1> QED
  BY <1>1, <1>3, <1>4

\* What an answer of the node proves of the image.
LEMMA VerdictJustified ==
  ASSUME NEW n \in Nodes, FineNow(n), worker[n].at = "poll", Answers(n),
         stored[n].id \notin past[n].overtaken
  PROVE  /\ node[n].running = Target(stored[n]) /\ Pending(n) =>
              stored[n].id \in past[n].booted
         /\ Verdict(n) # "wait" => Justified(Verdict(n), stored[n], node[n], past[n])
<1> DEFINE s == stored[n]
<1>1. operations[n] = s /\ Target(s) # s.source
  BY TargetType DEF FineNow, FineAs
<1>2. InPhase(s, node[n], past[n]) /\ (worker[n].sawPending => s.id \in past[n].booted)
  BY DEF FineNow, FineAs, Stage
<1>3. node[n].ota # "receiving"
  BY DEF Answers
<1>4. CASE node[n].running = Target(s)
  <2>1. Tried(s, node[n], past[n]) \/ Kept(s, node[n], past[n])
    BY <1>1, <1>2, <1>3, <1>4
    DEF InPhase, Received, Chosen, Back, Refused, AtSource
  <2>2. Tried(s, node[n], past[n]) => s.id \in past[n].booted
    BY DEF Tried
  <2>3. Kept(s, node[n], past[n]) => s.id \in past[n].confirmed /\ ~Pending(n)
    BY DEF Kept, Pending
  <2>4. Tried(s, node[n], past[n]) => Pending(n)
    BY DEF Tried, Pending
  <2>5. Verdict(n) = IF Pending(n) THEN "wait" ELSE "succeeded"
    BY <1>1, <1>4 DEF Verdict
  <2> QED
    BY <2>1, <2>2, <2>3, <2>4, <2>5 DEF Justified
<1>5. CASE node[n].running # Target(s)
  <2>1. \/ Chosen(s, node[n], past[n]) \/ Back(s, node[n], past[n])
        \/ Refused(s, node[n], past[n])
    BY <1>2, <1>3, <1>5 DEF InPhase, Received, Tried, Kept, AtTarget
  <2>2. ASSUME Verdict(n) = "rolled_back"
        PROVE  Back(s, node[n], past[n])
    <3>1. worker[n].sawPending
      BY <1>1, <1>5, <2>2 DEF Verdict
    <3> QED
      BY <1>2, <2>1, <3>1 DEF Chosen, Refused, Gone
  <2>3. ASSUME Verdict(n) = "failed"
        PROVE  Gone(s.id, node[n], past[n]) \/ Back(s, node[n], past[n])
    <3>1. node[n].ota \in {"idle", "error"}
      BY <1>1, <1>5, <2>3 DEF Verdict
    <3> QED
      BY <2>1, <3>1 DEF Chosen, Refused
  <2>4. Verdict(n) # "succeeded"
    BY <1>1, <1>5 DEF Verdict
  <2> QED
    BY <1>5, <2>2, <2>3, <2>4 DEF Justified
<1> QED
  BY <1>4, <1>5

LEMMA PollKeeps ==
  ASSUME IInv, NEW n \in Nodes, Poll(n)
  PROVE  IInv'
<1>1. FineNow(n) /\ worker[n].at = "poll" /\ Answers(n)
  BY Now DEF Poll
<1>2. operations[n] = stored[n] /\ stored[n] \in Operations /\ stored[n].id # 0
      /\ worker[n] \in Workers /\ reply[n] = "none"
      /\ Stage(stored[n], worker[n], reply[n], node[n], past[n])
  BY <1>1 DEF FineNow, FineAs, Stage
<1>3. CASE Verdict(n) # "wait"
  <2>1. Justified(Verdict(n), stored[n], node[n], past[n])
    BY <1>1, <1>3, VerdictJustified DEF Justified
  <2>2. Verdict(n) \in Terminal
    BY <1>3 DEF Verdict, Terminal
  <2>3. reply' = [reply EXCEPT ![n] = "none"]
    BY <1>2 DEF Poll, IInv, OtaTypeOK
  <2> QED
    BY <1>1, <1>3, <2>1, <2>2, <2>3, SettleKeeps DEF Poll
<1>4. CASE Verdict(n) = "wait"
  <2> DEFINE v == IF worker[n].lost THEN "reconciling" ELSE "validating"
             t == [stored[n] EXCEPT !.state = v]
             seen == worker[n].sawPending \/ (node[n].running = Target(stored[n]) /\ Pending(n))
             w == [worker[n] EXCEPT !.sawPending = seen]
  <2>1. v \in Working
    BY DEF Working
  <2>2. t \in Operations /\ t.id = stored[n].id /\ t.source = stored[n].source /\ t.state = v
    BY <1>2, <2>1, Restated
  <2>3. w \in Workers /\ w.at = "poll" /\ (w.sawPending <=> seen)
    BY <1>1, <1>2 DEF Workers
  <2>4. ThreadSets(n, t, w, "none")
    BY <1>2, <1>4 DEF ThreadSets, Poll, Report, IInv, OtaTypeOK
  <2> HIDE DEF t, w, v
  <2>5. InPhase(t, node[n], past[n]) <=> InPhase(stored[n], node[n], past[n])
    BY <2>2, SameOperation
  <2>6. t.id \notin past[n].overtaken => (seen => t.id \in past[n].booted)
    BY <1>1, <1>2, <2>2, VerdictJustified DEF Stage
  <2>7. Stage(t, w, "none", node[n], past[n])
    BY <1>1, <1>2, <2>2, <2>3, <2>5, <2>6 DEF Stage
  <2> QED
    BY <1>2, <2>1, <2>2, <2>3, <2>4, <2>7, ThreadKeeps DEF Replies
<1> QED
  BY <1>3, <1>4

LEMMA DeadlineKeeps ==
  ASSUME IInv, NEW n \in Nodes, Deadline(n)
  PROVE  IInv'
<1>1. FineNow(n) /\ worker[n].at = "poll"
  BY Now DEF Deadline
<1>2. reply' = [reply EXCEPT ![n] = "none"]
  BY <1>1 DEF Deadline, FineNow, FineAs, Stage, IInv, OtaTypeOK
<1>3. Justified("uncertain", stored[n], node[n], past[n])
  BY DEF Justified
<1> QED
  BY <1>1, <1>2, <1>3, SettleKeeps DEF Deadline, Terminal

-----------------------------------------------------------------------------
(* The agent stops *)

LEMMA AgentStopKeeps ==
  ASSUME IInv, AgentStop
  PROVE  IInv'
<1>1. budget' \in Budgets /\ budget'.ops = budget.ops
  BY BoundsAssumption DEF IInv, OtaTypeOK, AgentStop, Budgets
<1>2. NoOperation \in Operations /\ Ended \in Workers /\ "none" \in Replies
  BY BoundsAssumption
  DEF NoOperation, Operations, Ended, Workers, Steps, Replies, Partitions
<1>3. OtaTypeOK'
  BY <1>1, <1>2 DEF IInv, OtaTypeOK, AgentStop
<1>4. ASSUME NEW n \in Nodes
      PROVE  Fine(n)'
  <2>1. FineNow(n)
    BY Now
  <2>2. /\ operations'[n] = NoOperation /\ worker'[n] = Ended /\ reply'[n] = "none"
        /\ stored' = stored /\ node' = node /\ past' = past
    BY DEF AgentStop
  <2>3. Link(NoOperation, stored[n], Ended)
    BY DEF Link, Ended
  <2>4. stored[n].id \notin past[n].overtaken => Settled(stored[n], node[n], past[n])
    BY <2>1 DEF FineNow, FineAs, Link, Stage, Settled, Working
  <2>5. Stage(stored[n], Ended, "none", node[n], past[n])
    BY <2>4 DEF Stage, Ended
  <2> QED
    BY <1>1, <2>1, <2>2, <2>3, <2>5 DEF Fine, FineNow, FineAs
<1> QED
  BY <1>3, <1>4 DEF IInv

-----------------------------------------------------------------------------
(* The node's steps *)

\* The node, its answer and its history change; the agent does not.
NodeSets(n, rep, r, h) ==
  /\ node' = [node EXCEPT ![n] = r]
  /\ reply' = [reply EXCEPT ![n] = rep]
  /\ past' = [past EXCEPT ![n] = h]
  /\ UNCHANGED <<operations, stored, worker>>

LEMMA NodeKeeps ==
  ASSUME IInv, NEW n \in Nodes,
         NEW rep \in Replies, NEW r \in NodeStates, NEW h \in History,
         NodeSets(n, rep, r, h),
         budget' \in Budgets, budget'.ops = budget.ops,
         Fits(r), Known(stored[n], r, h, budget.ops),
         Stage(stored[n], worker[n], rep, r, h)
  PROVE  IInv'
<1>1. FineNow(n)
  BY Now
<1>2. StepAt(n, operations[n], stored[n], worker[n], rep, r, h)
  BY DEF NodeSets, StepAt, IInv, OtaTypeOK
<1>3. FineAs(operations[n], stored[n], worker[n], rep, r, h, budget'.ops)
  BY <1>1 DEF FineNow, FineAs
<1>4. budget.ops <= budget'.ops
  BY <1>1 DEF FineNow
<1> QED
  BY <1>2, <1>3, <1>4, StepKeeps

LEMMA AcceptKeeps ==
  ASSUME IInv, NEW n \in Nodes, Accept(n)
  PROVE  IInv'
<1> DEFINE s == stored[n]
           r == node[n]
           h == past[n]
<1>1. FineNow(n) /\ worker[n].at = "send" /\ reply[n] = "none" /\ r.ota # "receiving"
  BY Now DEF Accept
<1>2. operations[n] = s /\ s.id # 0 /\ s.id \in Ids /\ r \in NodeStates /\ h \in History
      /\ Fits(r) /\ Known(s, r, h, budget.ops) /\ Gone(s.id, r, h)
      /\ Stage(s, worker[n], "none", r, h)
  BY <1>1 DEF FineNow, FineAs, Stage
<1>3. budget' \in Budgets /\ budget'.ops = budget.ops
  BY <1>1 DEF FineNow, Accept
<1>4. /\ r.running \in Partitions /\ Other(r.running) \in Partitions
      /\ Other(r.running) # r.running /\ r.flash \in [Partitions -> Flash]
      /\ r.image \in [Partitions -> 0..MaxOps] /\ s.id \in 0..MaxOps
  BY <1>2, Partition DEF NodeStates, Ids
<1>5. CASE Acceptable(n)
  <2> DEFINE x == Receiving(r, s.id)
             p == Other(r.running)
  <2>1. ReceivingFields(r, s.id)
    BY <1>2, <1>4, ReceivingType
  <2>2. /\ x \in NodeStates
        /\ x.running = r.running /\ x.selected = r.selected
        /\ x.flash = [r.flash EXCEPT ![p] = "empty"] /\ x.image = [r.image EXCEPT ![p] = 0]
        /\ x.ota = "receiving" /\ x.nonce = 0 /\ x.from = s.id /\ ~x.whole
    BY <2>1 DEF ReceivingFields
  <2>3. r.nonce = s.id /\ r.ota # "reboot_pending" /\ r.flash[r.running] # "pending"
    BY <1>2, <1>5 DEF Acceptable, Pending
  <2>4. NodeSets(n, "none", x, h)
    BY <1>1, <1>2, <1>5 DEF NodeSets, Accept, IInv, OtaTypeOK
  <2> HIDE DEF x, p
  <2>5. x.flash[r.running] = "valid" /\ r.selected = r.running
    BY <1>2, <1>4, <2>2, <2>3 DEF Fits, p
  <2>6. Fits(x)
    BY <2>2, <2>5 DEF Fits
  <2>7. \A q \in Partitions : x.image[q] = IF q = p THEN 0 ELSE r.image[q]
    BY <1>4, <2>2 DEF p
  <2>8. budget.ops \in Nat
    BY <1>1 DEF FineNow
  <2>9. Known(s, x, h, budget.ops)
    BY <1>2, <2>2, <2>7, <2>8 DEF Known
  <2>10. Gone(s.id, x, h)
    BY <1>2, <2>2, <2>7 DEF Gone
  <2>11. s.id \notin h.overtaken => x.running = s.source
    BY <1>1, <1>2, <2>2 DEF Stage
  <2>12. Stage(s, worker[n], "none", x, h)
    BY <1>1, <2>10, <2>11 DEF Stage
  <2> QED
    BY <1>2, <1>3, <2>2, <2>4, <2>6, <2>9, <2>12, NodeKeeps DEF Replies
<1>6. CASE ~Acceptable(n)
  <2> DEFINE x == [r EXCEPT !.nonce = 0]
  <2>1. /\ x \in NodeStates /\ x.running = r.running /\ x.selected = r.selected
        /\ x.flash = r.flash /\ x.image = r.image /\ x.ota = r.ota
        /\ x.from = r.from /\ x.whole = r.whole /\ x.nonce = 0
    BY <1>2, BoundsAssumption DEF NodeStates
  <2>2. NodeSets(n, "rejected", x, h)
    BY <1>6 DEF NodeSets, Accept, IInv, OtaTypeOK
  <2> HIDE DEF x
  <2>3. Fits(x)
    BY <1>2, <2>1 DEF Fits
  <2>4. budget.ops \in Nat
    BY <1>1 DEF FineNow
  <2>5. Known(s, x, h, budget.ops)
    BY <1>2, <2>1, <2>4 DEF Known
  <2>6. Gone(s.id, x, h)
    BY <1>2, <2>1 DEF Gone
  <2>7. Stage(s, worker[n], "rejected", x, h)
    BY <1>1, <1>2, <2>1, <2>6 DEF Stage
  <2> QED
    BY <1>2, <1>3, <2>1, <2>2, <2>3, <2>5, <2>7, NodeKeeps DEF Replies
<1> QED
  BY <1>5, <1>6

LEMMA CommitKeeps ==
  ASSUME IInv, NEW n \in Nodes, Commit(n)
  PROVE  IInv'
<1> DEFINE s == stored[n]
           w == worker[n]
           r == node[n]
           h == past[n]
           x == Committed(r)
           p == Other(r.running)
           rep == IF Waiting(n) THEN p ELSE reply[n]
<1>1. FineNow(n) /\ r.ota = "receiving" /\ r.whole
  BY Now DEF Commit
<1>2. s \in Operations /\ r \in NodeStates /\ h \in History /\ reply[n] \in Replies
      /\ Fits(r) /\ Known(s, r, h, budget.ops) /\ Stage(s, w, reply[n], r, h)
  BY <1>1 DEF FineNow, FineAs
<1>3. budget' \in Budgets /\ budget'.ops = budget.ops
  BY <1>1 DEF FineNow, Commit
<1>4. r.running \in Partitions /\ p \in Partitions /\ p # r.running /\ Other(p) = r.running
      /\ r.flash \in [Partitions -> Flash] /\ r.image \in [Partitions -> 0..MaxOps]
  BY <1>2, Partition DEF NodeStates
<1>5. /\ x \in NodeStates
      /\ x.running = r.running /\ x.selected = p
      /\ x.flash = [r.flash EXCEPT ![p] = "new"] /\ x.image = [r.image EXCEPT ![p] = r.from]
      /\ x.ota = "reboot_pending" /\ x.nonce = r.nonce /\ x.from = r.from /\ x.whole = r.whole
  BY <1>2, CommittedType DEF CommittedFields
<1>6. rep \in Replies
  BY <1>2, <1>4 DEF Replies
<1>7. NodeSets(n, rep, x, h)
  BY DEF NodeSets, Commit, IInv, OtaTypeOK
<1>8. Waiting(n) <=> w.at \in {"send", "sent"} /\ s.id = r.from
  BY <1>1 DEF Waiting, FineNow
<1> HIDE DEF x
<1>9. x.flash[p] = "new" /\ x.flash[r.running] = "valid"
  BY <1>1, <1>2, <1>4, <1>5 DEF Fits
<1>10. Fits(x)
  BY <1>4, <1>5, <1>9 DEF Fits
<1>11. \A q \in Partitions : x.image[q] = IF q = p THEN r.from ELSE r.image[q]
  BY <1>4, <1>5
<1>12. Known(s, x, h, budget.ops)
  BY <1>2, <1>5, <1>11 DEF Known
<1>13. Gone(s.id, r, h) => s.id # r.from /\ Gone(s.id, x, h)
  BY <1>1, <1>5, <1>11 DEF Gone
<1>14. ASSUME InPhase(s, r, h)
       PROVE  \/ s.id = r.from /\ Chosen(s, x, h) /\ p = Target(s) /\ ~Refused(s, r, h)
              \/ s.id # r.from /\ Refused(s, r, h) /\ Refused(s, x, h)
  <2>1. Received(s, r, h) \/ Refused(s, r, h)
    BY <1>1, <1>14
    DEF InPhase, Chosen, Tried, Kept, Back, AtSource, AtTarget
  <2>2. CASE Received(s, r, h)
    <3>1. p = Target(s)
      BY <2>2 DEF Received, Target
    <3>2. OnTarget(s, x)
      BY <1>4, <1>11, <2>2, <3>1 DEF Received, OnTarget
    <3> QED
      BY <1>1, <1>5, <2>2, <3>1, <3>2 DEF Received, Chosen, Refused, Gone
  <2>3. CASE Refused(s, r, h)
    BY <1>5, <1>13, <2>3 DEF Refused
  <2> QED
    BY <2>1, <2>2, <2>3
<1>15. Settled(s, r, h) => Settled(s, x, h)
  BY <1>1, <1>13 DEF Settled, Back, AtSource
<1>16. Stage(s, w, rep, x, h)
  <2>1. /\ rep # "none" => w.at \in {"send", "sent"}
        /\ w.at \in {"start", "status", "challenge"} =>
             Gone(s.id, x, h) /\ x.nonce # s.id /\ x.from # s.id
    BY <1>2, <1>5, <1>8, <1>13 DEF Stage
  <2>2. w.at = "send" => ~Waiting(n) /\ rep = reply[n] /\ Gone(s.id, x, h)
    BY <1>2, <1>8, <1>13 DEF Stage
  <2>3. w.at = "send" => rep \in {"none", "rejected"}
    BY <1>2, <2>2 DEF Stage
  <2>4. ASSUME s.id \notin h.overtaken
        PROVE  w.at \in {"challenge", "send"} => x.running = s.source
    BY <1>2, <1>5, <2>4 DEF Stage
  <2>8. Target(s) # "rejected"
    BY <1>2, TargetType DEF Partitions
  <2>5. ASSUME s.id \notin h.overtaken, w.at = "sent"
        PROVE  /\ InPhase(s, x, h)
               /\ rep = "rejected" => Refused(s, x, h)
               /\ rep \in Partitions => rep = Target(s)
    BY <1>2, <1>8, <1>14, <2>5, <2>8 DEF Stage, InPhase
  <2>6. ASSUME s.id \notin h.overtaken, w.at = "poll"
        PROVE  InPhase(s, x, h) /\ (w.sawPending => s.id \in h.booted)
    BY <1>2, <1>14, <2>6 DEF Stage, InPhase
  <2>7. ASSUME s.id \notin h.overtaken, w.at = "ended"
        PROVE  Settled(s, x, h)
    BY <1>2, <1>15, <2>7 DEF Stage
  <2> QED
    BY <1>5, <2>1, <2>2, <2>3, <2>4, <2>5, <2>6, <2>7, <2>8 DEF Stage
<1> QED
  BY <1>2, <1>3, <1>5, <1>6, <1>7, <1>10, <1>12, <1>16, NodeKeeps

LEMMA AbortKeeps ==
  ASSUME IInv, NEW n \in Nodes, Abort(n)
  PROVE  IInv'
<1> DEFINE s == stored[n]
           w == worker[n]
           r == node[n]
           h == past[n]
           x == [r EXCEPT !.ota = "error"]
           rep == IF Waiting(n) THEN "rejected" ELSE reply[n]
<1>1. FineNow(n) /\ r.ota = "receiving"
  BY Now DEF Abort
<1>2. s \in Operations /\ r \in NodeStates /\ h \in History /\ reply[n] \in Replies
      /\ Fits(r) /\ Known(s, r, h, budget.ops) /\ Stage(s, w, reply[n], r, h)
  BY <1>1 DEF FineNow, FineAs
<1>3. budget' \in Budgets /\ budget'.ops = budget.ops
  BY <1>1 DEF FineNow, Abort
<1>4. /\ x \in NodeStates /\ x.running = r.running /\ x.selected = r.selected
      /\ x.flash = r.flash /\ x.image = r.image /\ x.ota = "error"
      /\ x.from = r.from /\ x.whole = r.whole /\ x.nonce = r.nonce
  BY <1>2 DEF NodeStates
<1>5. rep \in Replies
  BY <1>2 DEF Replies
<1>6. NodeSets(n, rep, x, h)
  BY DEF NodeSets, Abort, IInv, OtaTypeOK
<1>7. Waiting(n) <=> w.at \in {"send", "sent"} /\ s.id = r.from
  BY <1>1 DEF Waiting, FineNow
<1> HIDE DEF x
<1>8. Fits(x) /\ r.selected = r.running /\ r.flash[r.running] = "valid"
  BY <1>1, <1>2, <1>4 DEF Fits
<1>9. Known(s, x, h, budget.ops)
  BY <1>2, <1>4 DEF Known
<1>10. Gone(s.id, r, h) => Gone(s.id, x, h)
  BY <1>4 DEF Gone
<1>11. ASSUME InPhase(s, r, h)
       PROVE  Refused(s, x, h)
  <2>1. Received(s, r, h) \/ Refused(s, r, h)
    BY <1>1, <1>11
    DEF InPhase, Chosen, Tried, Kept, Back, AtSource, AtTarget
  <2> QED
    BY <1>4, <1>8, <1>10, <2>1 DEF Received, Refused, Gone
<1>12. Settled(s, r, h) => Settled(s, x, h)
  BY <1>1, <1>10 DEF Settled, Back, AtSource
<1>13. Stage(s, w, rep, x, h)
  <2>1. /\ rep # "none" => w.at \in {"send", "sent"}
        /\ w.at \in {"start", "status", "challenge"} =>
             Gone(s.id, x, h) /\ x.nonce # s.id /\ x.from # s.id
    BY <1>2, <1>4, <1>7, <1>10 DEF Stage
  <2>2. w.at = "send" => Gone(s.id, x, h) /\ rep \in {"none", "rejected"}
    BY <1>2, <1>10 DEF Stage
  <2>3. ASSUME s.id \notin h.overtaken
        PROVE  w.at \in {"challenge", "send"} => x.running = s.source
    BY <1>2, <1>4, <2>3 DEF Stage
  <2>4. ASSUME s.id \notin h.overtaken, w.at = "sent"
        PROVE  /\ InPhase(s, x, h)
               /\ Refused(s, x, h)
               /\ rep \in Partitions => rep = Target(s)
    BY <1>2, <1>7, <1>11, <2>4 DEF Stage, InPhase, Partitions
  <2>5. ASSUME s.id \notin h.overtaken, w.at = "poll"
        PROVE  InPhase(s, x, h) /\ (w.sawPending => s.id \in h.booted)
    BY <1>2, <1>11, <2>5 DEF Stage, InPhase
  <2>6. ASSUME s.id \notin h.overtaken, w.at = "ended"
        PROVE  Settled(s, x, h)
    BY <1>2, <1>12, <2>6 DEF Stage
  <2> HIDE DEF rep
  <2> QED
    BY <1>4, <2>1, <2>2, <2>3, <2>4, <2>5, <2>6 DEF Stage
<1> QED
  BY <1>2, <1>3, <1>4, <1>5, <1>6, <1>8, <1>9, <1>13, NodeKeeps

LEMMA BootKeeps ==
  ASSUME IInv, NEW n \in Nodes, BootNode(n),
         budget' \in Budgets, budget'.ops = budget.ops
  PROVE  IInv'
<1> DEFINE s == stored[n]
           w == worker[n]
           r == node[n]
           h == past[n]
           x == Booted(r)
           g == [h EXCEPT !.booted = @ \cup ({x.image[x.running]} \cap Ids),
                          !.overtaken = @ \cup Overtaken(n, x)]
<1>1. FineNow(n)
  BY Now
<1>2. s \in Operations /\ r \in NodeStates /\ h \in History /\ reply[n] \in Replies
      /\ Fits(r) /\ Known(s, r, h, budget.ops) /\ Stage(s, w, reply[n], r, h)
      /\ budget.ops \in Nat /\ budget.ops <= MaxOps
  BY <1>1, BoundsAssumption DEF FineNow, FineAs, Budgets
<1>3. /\ x \in NodeStates /\ x.image = r.image /\ x.ota = "idle"
      /\ x.nonce = 0 /\ x.from = 0 /\ x.running \in Partitions
  BY <1>2, BootedFields DEF NodeStates
<1>4. /\ Overtaken(n, x) \subseteq Ids
      /\ w.at \in {"challenge", "send", "sent", "poll"} /\ Gone(s.id, r, h)
           /\ s.id \notin Overtaken(n, x) => x.running = r.running
  BY <1>1 DEF FineNow, FineAs, Overtaken, Workers, Gone
<1>5. /\ g \in History /\ g.booted = h.booted \cup ({x.image[x.running]} \cap Ids)
      /\ g.confirmed = h.confirmed /\ g.overtaken = h.overtaken \cup Overtaken(n, x)
  BY <1>2, <1>4 DEF History
<1>6. NodeSets(n, reply[n], x, g)
  BY DEF NodeSets, BootNode, IInv, OtaTypeOK
<1>7. BootedInto(r, h, g)
  BY <1>5 DEF BootedInto
<1> HIDE DEF x, g
<1>8. Fits(x)
  BY <1>2, BootFits DEF x
<1>9. Known(s, x, g, budget.ops)
  <2>1. x.image[x.running] \in 0..MaxOps /\ x.image[x.running] <= budget.ops
    BY <1>2, <1>3 DEF Known, NodeStates
  <2>2. g.booted \subseteq 1..budget.ops
    BY <1>2, <1>5, <2>1 DEF Known, Ids
  <2> QED
    BY <1>2, <1>3, <1>5, <2>2 DEF Known
<1>10. Gone(s.id, r, h) => Gone(s.id, x, g)
  <2>1. s.id \in 0..MaxOps
    BY <1>2 DEF Operations
  <2> QED
    BY <1>2, <1>7, <2>1, BootGone DEF x
<1>11. ASSUME s.id # 0
       PROVE  /\ Refused(s, r, h) /\ x.running = r.running => Refused(s, x, g)
              /\ InPhase(s, r, h) /\ (Refused(s, r, h) => x.running = r.running) =>
                   InPhase(s, x, g)
  BY <1>2, <1>7, <1>11, BootPhase DEF InPhase, x
<1>12. ASSUME Settled(s, r, h)
       PROVE  Settled(s, x, g)
  <2>1. ASSUME Back(s, r, h)
        PROVE  Back(s, x, g)
    <3>1. /\ x.running = s.source /\ x.selected = s.source /\ x.flash[s.source] = "valid"
          /\ x.image = r.image /\ x.ota = "idle"
      BY <1>2, <2>1, BootSettled DEF Back, AtSource, x
    <3> QED
      BY <1>5, <2>1, <3>1 DEF Back, AtSource
  <2> QED
    BY <1>5, <1>10, <1>12, <2>1 DEF Settled
<1>13. Stage(s, w, reply[n], x, g)
  <2>1. w.at # "ended" => s.id # 0
    BY <1>1 DEF FineNow
  <2>2. /\ reply[n] # "none" => w.at \in {"send", "sent"}
        /\ w.at \in {"start", "status", "challenge"} =>
             Gone(s.id, x, g) /\ x.nonce # s.id /\ x.from # s.id
        /\ w.at = "send" => Gone(s.id, x, g) /\ reply[n] \in {"none", "rejected"}
    BY <1>2, <1>3, <1>10, <2>1 DEF Stage
  <2>3. s.id \notin g.overtaken =>
          /\ s.id \notin h.overtaken
          /\ w.at \in {"challenge", "send", "sent", "poll"} /\ Gone(s.id, r, h) =>
               x.running = r.running
    BY <1>4, <1>5
  <2>7. ASSUME s.id \notin g.overtaken, w.at \in {"challenge", "send"}
        PROVE  x.running = s.source
    BY <1>2, <2>3, <2>7 DEF Stage
  <2>4. ASSUME s.id \notin g.overtaken, w.at = "sent"
        PROVE  /\ InPhase(s, x, g)
               /\ reply[n] = "rejected" => Refused(s, x, g)
               /\ reply[n] \in Partitions => reply[n] = Target(s)
    BY <1>2, <1>11, <2>1, <2>3, <2>4 DEF Stage, Refused
  <2>5. ASSUME s.id \notin g.overtaken, w.at = "poll"
        PROVE  InPhase(s, x, g) /\ (w.sawPending => s.id \in g.booted)
    BY <1>2, <1>5, <1>11, <2>1, <2>3, <2>5 DEF Stage, Refused
  <2>6. ASSUME s.id \notin g.overtaken, w.at = "ended"
        PROVE  Settled(s, x, g)
    BY <1>2, <1>12, <2>3, <2>6 DEF Stage
  <2> QED
    BY <1>3, <2>1, <2>2, <2>3, <2>4, <2>5, <2>6, <2>7 DEF Stage
<1> QED
  BY <1>2, <1>3, <1>5, <1>6, <1>8, <1>9, <1>13, NodeKeeps

LEMMA ConfirmKeeps ==
  ASSUME IInv, NEW n \in Nodes, Confirm(n)
  PROVE  IInv'
<1> DEFINE s == stored[n]
           w == worker[n]
           r == node[n]
           h == past[n]
           f == [r.flash EXCEPT ![r.running] = "valid"]
           x == [r EXCEPT !.flash = f]
           g == [h EXCEPT !.confirmed = @ \cup ({r.image[r.running]} \cap Ids)]
<1>1. FineNow(n) /\ r.flash[r.running] = "pending"
  BY Now DEF Confirm, Pending
<1>2. s \in Operations /\ r \in NodeStates /\ h \in History /\ reply[n] \in Replies
      /\ Fits(r) /\ Known(s, r, h, budget.ops) /\ Stage(s, w, reply[n], r, h)
      /\ budget.ops \in Nat /\ s.id \in 0..MaxOps
  BY <1>1 DEF FineNow, FineAs, Operations
<1>3. budget' \in Budgets /\ budget'.ops = budget.ops
  BY <1>1 DEF FineNow, Confirm
<1>4. r.running \in Partitions /\ Other(r.running) \in Partitions
      /\ Other(r.running) # r.running
      /\ r.flash \in [Partitions -> Flash] /\ r.image \in [Partitions -> 0..MaxOps]
  BY <1>2, Partition DEF NodeStates
<1>5. f \in [Partitions -> Flash] /\ f[r.running] = "valid"
      /\ f[Other(r.running)] = r.flash[Other(r.running)]
  BY <1>4 DEF Flash
<1>6. NodeSets(n, reply[n], x, g)
  BY DEF NodeSets, Confirm, IInv, OtaTypeOK
<1> HIDE DEF f
<1>7. /\ x \in NodeStates /\ x.running = r.running /\ x.selected = r.selected
      /\ x.flash = f /\ x.image = r.image /\ x.ota = r.ota
      /\ x.from = r.from /\ x.whole = r.whole /\ x.nonce = r.nonce
  BY <1>2, <1>5 DEF NodeStates
<1>8. /\ g \in History /\ g.booted = h.booted /\ g.overtaken = h.overtaken
      /\ g.confirmed = h.confirmed \cup ({r.image[r.running]} \cap Ids)
  BY <1>2 DEF History
<1> HIDE DEF x, g
<1>9. r.ota \notin {"receiving", "reboot_pending"}
  BY <1>1, <1>2 DEF Fits
<1>10. Fits(x)
  BY <1>2, <1>5, <1>7, <1>9 DEF Fits
<1>11. Known(s, x, g, budget.ops)
  <2>1. r.image[r.running] \in 0..MaxOps /\ r.image[r.running] <= budget.ops
    BY <1>2, <1>4 DEF Known
  <2>2. g.confirmed \subseteq 1..budget.ops
    BY <1>2, <1>8, <2>1 DEF Known, Ids
  <2> QED
    BY <1>2, <1>7, <1>8, <2>2 DEF Known
<1>12. Gone(s.id, r, h) => Gone(s.id, x, g)
  BY <1>4, <1>7, <1>8 DEF Gone
<1>13. /\ ~Back(s, r, h)
       /\ Refused(s, r, h) => Refused(s, x, g)
  BY <1>1, <1>7, <1>12 DEF Back, Refused, AtSource
<1>14. ASSUME s.id # 0, InPhase(s, r, h), ~Refused(s, r, h)
       PROVE  Kept(s, x, g)
  <2>1. Tried(s, r, h)
    BY <1>1, <1>9, <1>13, <1>14 DEF InPhase, Received, Chosen, Kept
  <2>2. s.id \in g.confirmed
    BY <1>2, <1>4, <1>8, <1>14, <2>1 DEF Tried, AtTarget, OnTarget, Ids
  <2> QED
    BY <1>5, <1>7, <2>1, <2>2 DEF Tried, Kept, AtTarget
<1>15. Settled(s, r, h) => Settled(s, x, g)
  BY <1>8, <1>12, <1>13 DEF Settled
<1>16. Stage(s, w, reply[n], x, g)
  <2>1. w.at # "ended" => s.id # 0
    BY <1>1 DEF FineNow
  <2>2. ASSUME s.id \notin h.overtaken, w.at = "sent"
        PROVE  /\ InPhase(s, x, g)
               /\ reply[n] = "rejected" => Refused(s, x, g)
               /\ reply[n] \in Partitions => reply[n] = Target(s)
    BY <1>2, <1>13, <1>14, <2>1, <2>2 DEF Stage, InPhase
  <2>3. ASSUME s.id \notin h.overtaken, w.at = "poll"
        PROVE  InPhase(s, x, g) /\ (w.sawPending => s.id \in g.booted)
    BY <1>2, <1>8, <1>13, <1>14, <2>1, <2>3 DEF Stage, InPhase
  <2> QED
    BY <1>2, <1>7, <1>8, <1>12, <1>15, <2>2, <2>3 DEF Stage
<1> QED
  BY <1>2, <1>3, <1>6, <1>7, <1>8, <1>10, <1>11, <1>16, NodeKeeps

-----------------------------------------------------------------------------
(* What holds always *)

LEMMA InitHolds ==
  ASSUME OtaInit
  PROVE  IInv
<1>1. /\ 0 \in 0..MaxOps /\ MaxResets \in 0..MaxResets /\ MaxStops \in 0..MaxStops
      /\ "none" \in Replies /\ Ended \in Workers
  BY BoundsAssumption DEF Replies, Ended, Workers, Steps
<1>2. NoOperation \in Operations
  BY <1>1 DEF NoOperation, Operations, Partitions
<1>3. FreshNode \in NodeStates
  <2>1. FreshNode.flash \in [Partitions -> Flash] /\ FreshNode.image \in [Partitions -> 0..MaxOps]
    BY <1>1 DEF FreshNode, Flash
  <2> QED
    BY <1>1, <2>1 DEF FreshNode, NodeStates, Partitions
<1> DEFINE none == [booted |-> {}, confirmed |-> {}, overtaken |-> {}]
<1>4. none \in History
  BY DEF History
<1>5. budget \in Budgets /\ budget.ops = 0
  BY <1>1 DEF OtaInit, Budgets
<1>6. OtaTypeOK
  BY <1>1, <1>2, <1>3, <1>4, <1>5 DEF OtaInit, OtaTypeOK
<1>7. Fits(FreshNode)
  BY DEF Fits, FreshNode, Partitions
<1>8. Known(NoOperation, FreshNode, none, 0)
  BY DEF Known, NoOperation, FreshNode
<1>9. Link(NoOperation, NoOperation, Ended)
  BY DEF Link, Ended
<1>10. Stage(NoOperation, Ended, "none", FreshNode, none)
  BY DEF Stage, Settled, NoOperation, Ended
<1>11. ASSUME NEW n \in Nodes
       PROVE  Fine(n)
  <2>1. /\ operations[n] = NoOperation /\ stored[n] = NoOperation /\ worker[n] = Ended
        /\ reply[n] = "none" /\ node[n] = FreshNode /\ past[n] = none
    BY DEF OtaInit
  <2> QED
    BY <1>5, <1>7, <1>8, <1>9, <1>10, <2>1 DEF Fine
<1> QED
  BY <1>6, <1>11 DEF IInv

\* The inductive invariant: at every node the flash is bootable, the agent reports what
\* it stored, and the image of the operation is where its thread takes it to be.
THEOREM Invariance == OtaSpec => []IInv
<1>1. OtaInit => IInv
  BY InitHolds
<1>2. IInv /\ [OtaNext]_otaVars => IInv'
  <2> SUFFICES ASSUME IInv, [OtaNext]_otaVars
               PROVE  IInv'
    OBVIOUS
  <2>1. ASSUME NEW n \in Nodes, ThreadStep(n)
        PROVE  IInv'
    BY <2>1, BeginKeeps, PreflightKeeps, ChallengeKeeps, UnreachableKeeps, SendBodyKeeps,
       TakeReplyKeeps, BrokenKeeps, PollKeeps, DeadlineKeeps DEF ThreadStep
  <2>2. ASSUME NEW n \in Nodes, NodeStep(n)
        PROVE  IInv'
    <3>1. ASSUME Restart(n) \/ PowerCycle(n)
          PROVE  IInv'
      <4>1. BootNode(n)
        BY <3>1 DEF Restart, PowerCycle
      <4>2. budget' \in Budgets /\ budget'.ops = budget.ops
        BY <3>1, BoundsAssumption DEF Restart, PowerCycle, Budgets, IInv, OtaTypeOK
      <4> QED
        BY <4>1, <4>2, BootKeeps
    <3> QED
      BY <2>2, <3>1, AcceptKeeps, CommitKeeps, AbortKeeps, ConfirmKeeps DEF NodeStep
  <2>3. CASE UNCHANGED otaVars
    BY <2>3
    DEF otaVars, IInv, OtaTypeOK, Fine
  <2> QED
    BY <2>1, <2>2, <2>3, StartInstallKeeps, AgentStopKeeps DEF OtaNext
<1> QED
  BY <1>1, <1>2, PTL DEF OtaSpec

\* Every variable of the coordinator and of the nodes keeps its type.
THEOREM TypesAreKept == OtaSpec => []OtaTypeOK
<1>1. IInv => OtaTypeOK
  BY DEF IInv
<1> QED
  BY <1>1, Invariance, PTL

\* Whatever is selected for the next boot of a node, a confirmed image is left to fall
\* back on, however often it is reset and whatever is sent to it.
THEOREM NodesStayBootable == OtaSpec => []FallbackKept
<1>1. ASSUME NEW r \in NodeStates, Fits(r)
      PROVE  \/ r.flash[r.selected] = "valid"
             \/ /\ r.flash[r.selected] \in {"new", "pending"}
                /\ r.flash[Other(r.selected)] = "valid"
  BY <1>1, Partition DEF Fits, NodeStates
<1>2. IInv => FallbackKept
  BY <1>1 DEF IInv, OtaTypeOK, Fine, FallbackKept
<1> QED
  BY <1>2, Invariance, PTL

\* What the agent reports of an image is true of the node, also after lost replies,
\* resets of the node and stops of the agent.
THEOREM VerdictsStayTrue == OtaSpec => []VerdictsTrue
<1>1. ASSUME IInv, NEW n \in Nodes
      PROVE  Reported(n) = stored[n]
  BY <1>1 DEF IInv, Fine, Link, Reported
<1>2. ASSUME IInv, NEW n \in Nodes, stored[n].id \notin past[n].overtaken
      PROVE  TrueVerdict(n, stored[n])
  <2> DEFINE s == stored[n]
             r == node[n]
             h == past[n]
  <2>1. /\ s \in Operations /\ r \in NodeStates /\ Link(operations[n], s, worker[n])
        /\ Stage(s, worker[n], reply[n], r, h)
    BY <1>2 DEF IInv, OtaTypeOK, Fine
  <2>2. CASE worker[n].at # "ended"
    BY <2>1, <2>2 DEF Link, Working, TrueVerdict
  <2>3. CASE worker[n].at = "ended"
    <3>1. Settled(s, r, h)
      BY <1>2, <2>1, <2>3 DEF Stage
    <3>2. Back(s, r, h) => /\ s.id \in h.booted /\ s.id \notin h.confirmed
                           /\ r.image[r.selected] # s.id
      BY DEF Back, AtSource
    <3>3. Gone(s.id, r, h) => s.id \notin h.confirmed /\ r.image[r.selected] # s.id
      BY <2>1 DEF Gone, NodeStates
    <3> QED
      BY <3>1, <3>2, <3>3 DEF Settled, TrueVerdict
  <2> QED
    BY <2>2, <2>3
<1>3. IInv => VerdictsTrue
  BY <1>1, <1>2 DEF VerdictsTrue
<1> QED
  BY <1>3, Invariance, PTL
==============================================================================
