---------------------------- MODULE TelemetryProofs ----------------------------
(***************************************************************************)
(* What the telemetry agent guarantees for every set of resolutions, every *)
(* batch size, and any number of samples, faults and restarts: a batch is  *)
(* one content, what is owed is delivered before it is forgotten, the      *)
(* rollups hide nothing and invent nothing, and neither does the history   *)
(* that the panel makes of them.                                           *)
(***************************************************************************)
EXTENDS TelemetryHistory, TLAPS, FiniteSetTheorems, WellFoundedInduction

\* The samples the store holds of a batch.
SeqsOf(b) == {q.seq : q \in OfBatch(b)}

------------------------------------------------------------------------------
(* Numbers *)

LEMMA HasLeast ==
  ASSUME NEW S, S \subseteq Nat, S # {}
  PROVE  \E x \in S : \A y \in S : x <= y
<1>1. \E x \in S : \A y \in S : ~(<<y, x>> \in OpToRel(<, Nat))
  BY WFMin, NatLessThanWellFounded
<1>2. PICK x \in S : \A y \in S : ~(<<y, x>> \in OpToRel(<, Nat))
  BY <1>1
<1>3. ASSUME NEW y \in S
      PROVE  x <= y
  <2>1. x \in Nat /\ y \in Nat
    OBVIOUS
  <2>2. ~(y < x)
    BY <1>2, <2>1 DEF OpToRel
  <2> QED
    BY <2>1, <2>2
<1> QED
  BY <1>3

LEMMA LeastType ==
  ASSUME NEW S, S \subseteq Nat, S # {}
  PROVE  Least(S) \in S
  BY HasLeast DEF Least

LEMMA FloorType ==
  ASSUME NEW t \in Nat, NEW w \in Nat \ {0}
  PROVE  Floor(t, w) \in Nat
<1>1. /\ t % w \in Nat /\ t % w <= t
  OBVIOUS
<1> QED
  BY <1>1 DEF Floor

\* A batch has a first sample.
LEMMA FirstType ==
  ASSUME NEW S, S \subseteq Rows, S # {}
  PROVE  First(S) \in S /\ \A x \in S : First(S).seq <= x.seq
<1> DEFINE seqs == {q.seq : q \in S}
<1>1. seqs \subseteq Nat /\ seqs # {}
  BY DEF Rows
<1>2. PICK s \in seqs : \A y \in seqs : s <= y
  BY <1>1, HasLeast
<1>3. PICK q \in S : q.seq = s
  BY <1>2
<1>4. \A x \in S : q.seq <= x.seq
  BY <1>2, <1>3
<1> QED
  BY <1>3, <1>4 DEF First

------------------------------------------------------------------------------
(* Types *)

LEMMA RowUpdates ==
  ASSUME NEW q \in Rows, NEW b \in Nat, NEW f \in BOOLEAN
  PROVE  /\ [q EXCEPT !.batch = b] \in Rows
         /\ [q EXCEPT !.error = f] \in Rows
         /\ [q EXCEPT !.synced = TRUE, !.error = FALSE] \in Rows
         /\ [q EXCEPT !.batch = b].seq = q.seq
         /\ [q EXCEPT !.batch = b].batch = b
         /\ [q EXCEPT !.batch = b].synced = q.synced
         /\ [q EXCEPT !.error = f].seq = q.seq
         /\ [q EXCEPT !.error = f].batch = q.batch
         /\ [q EXCEPT !.error = f].synced = q.synced
         /\ [q EXCEPT !.synced = TRUE, !.error = FALSE].seq = q.seq
         /\ [q EXCEPT !.synced = TRUE, !.error = FALSE].synced = TRUE
         /\ [q EXCEPT !.synced = TRUE, !.error = FALSE].batch = q.batch
  BY DEF Rows

Steps == {"idle", "send", "await", "release", "mark"}
Senders == [pc : Steps, batch : Nat, seqs : SUBSET Nat]

LEMMA SenderUpdates ==
  ASSUME NEW s \in Senders, NEW pc \in Steps
  PROVE  /\ [s EXCEPT !.pc = pc] \in Senders
         /\ [s EXCEPT !.pc = pc].pc = pc
         /\ [s EXCEPT !.pc = pc].batch = s.batch
         /\ [s EXCEPT !.pc = pc].seqs = s.seqs
  BY DEF Senders

LEMMA IdleType == Idle \in Senders /\ Idle.pc = "idle"
  BY DEF Idle, Senders, Steps

\* The pass of a resolution ends at a time, and its buckets are buckets.
LEMMA PassType ==
  ASSUME TelemetryTypeOK, NEW r \in Resolutions, Due(r)
  PROVE  /\ PassEnd(r) \in Nat
         /\ NewBuckets(r) \subseteq [start : Nat, seqs : SUBSET Nat]
<1>1. Width[r] \in Nat \ {0} /\ processed[r] \in Nat /\ clock \in Nat /\ MaxBuckets \in Nat
  BY TelemetryAssumption DEF TelemetryTypeOK
<1>2. Cursor(r) \in Nat
  <2>1. CASE processed[r] # 0
    BY <2>1, <1>1 DEF Cursor
  <2>2. CASE processed[r] = 0
    <3>1. {q.at : q \in rows} \subseteq Nat /\ {q.at : q \in rows} # {}
      BY <2>2 DEF Due, TelemetryTypeOK, Rows
    <3>2. Least({q.at : q \in rows}) \in Nat
      BY <3>1, LeastType
    <3> QED
      BY <1>1, <2>2, <3>2, FloorType DEF Cursor
  <2> QED
    BY <2>1, <2>2
<1>3. Floor(clock, Width[r]) \in Nat
  BY <1>1, FloorType
<1>4. PassEnd(r) \in Nat
  <2>1. Cursor(r) + MaxBuckets * Width[r] \in Nat
    BY <1>1, <1>2
  <2> QED
    BY <1>3, <2>1 DEF PassEnd
<1>5. ASSUME NEW b \in Cursor(r)..(PassEnd(r) - 1)
      PROVE  [start |-> b, seqs |-> InBucket(r, b)] \in [start : Nat, seqs : SUBSET Nat]
  <2>1. InBucket(r, b) \subseteq Nat
    BY DEF InBucket, TelemetryTypeOK, Rows
  <2>2. b \in Nat
    BY <1>2, <1>4
  <2> QED
    BY <2>1, <2>2
<1> QED
  BY <1>4, <1>5 DEF NewBuckets

------------------------------------------------------------------------------
(* The invariant *)

\* Rows carry numbers and identifiers that were given.
Numbered == \A q \in rows : q.seq \in 1..last /\ q.batch \in 0..batches

\* The batch the sync thread holds is one, and the store's rows of it are what
\* the thread has read.
Held ==
  sender.pc # "idle" =>
    /\ sender.batch \in 1..batches
    /\ SeqsOf(sender.batch) = sender.seqs
    /\ sender.seqs # {}

\* What was sent of a batch is what the store holds of it, as long as it holds
\* any: a batch that was released or marked is not made again.
Posted ==
  \A p \in posts :
    /\ p.batch \in 1..batches
    /\ p.seqs \subseteq 1..last
    /\ SeqsOf(p.batch) = {} \/ SeqsOf(p.batch) = p.seqs

\* A batch that is accepted, or about to be marked, is stored by the bridge.
Stored ==
  /\ sink \subseteq 1..last
  /\ reply # "none" => sender.pc = "await"
  /\ reply = "accepted" => sender.seqs \subseteq sink
  /\ sender.pc = "mark" => sender.seqs \subseteq sink

IInv == TelemetryTypeOK /\ Numbered /\ OneOpenBatch /\ Held /\ Posted /\ OneBatchOneContent /\ Stored

\* Shapes of the steps: what they do to the rows.
RowsFine == rows' \subseteq Rows /\ Numbered' /\ OneOpenBatch'
Keeps(b) == SeqsOf(b)' = SeqsOf(b)

LEMMA SeqsMember ==
  /\ \A b, x : x \in SeqsOf(b) <=> \E q \in rows : ~q.synced /\ q.batch = b /\ q.seq = x
  /\ \A b, x : x \in SeqsOf(b)' <=> \E q \in rows' : ~q.synced /\ q.batch = b /\ q.seq = x
  BY DEF SeqsOf, OfBatch, Pending

LEMMA OpenMember ==
  /\ OneOpenBatch <=> \A p, q \in rows : ~p.synced /\ ~q.synced /\ p.batch # 0 /\ q.batch # 0 => p.batch = q.batch
  /\ OneOpenBatch' <=> \A p, q \in rows' : ~p.synced /\ ~q.synced /\ p.batch # 0 /\ q.batch # 0 => p.batch = q.batch
  BY DEF OneOpenBatch, Open, Pending

LEMMA SameRows ==
  ASSUME IInv, UNCHANGED <<rows, last, batches>>
  PROVE  RowsFine /\ \A b : Keeps(b)
  BY DEF IInv, TelemetryTypeOK, RowsFine, Keeps, SeqsOf, OfBatch, Pending, Numbered, OneOpenBatch, Open

\* A row after a step and the row it comes from: its batch is kept or gone, and
\* what was synced stays so.
ComesFrom(n, q) ==
  /\ n \in Rows
  /\ n.seq = q.seq
  /\ n.batch = 0 \/ n.batch = q.batch
  /\ n.synced \/ ~q.synced

\* A row after its batch c was settled.
SettledFrom(n, q, c) ==
  /\ ComesFrom(n, q)
  /\ n = q \/ n.batch = 0 \/ n.synced
  /\ q \in OfBatch(c) => n.batch = 0 \/ n.synced

\* Rows that come from rows.
LEMMA FromRows ==
  ASSUME IInv, UNCHANGED <<last, batches>>,
         \A n \in rows' : \E q \in rows : ComesFrom(n, q)
  PROVE  /\ RowsFine
         /\ {q.seq : q \in Pending'} \subseteq {q.seq : q \in Pending}
<1>1. rows' \subseteq Rows /\ rows \subseteq Rows /\ batches \in Nat
  BY DEF IInv, TelemetryTypeOK, ComesFrom
<1>2. Numbered'
  <2>1. ASSUME NEW n \in rows'
        PROVE  n.seq \in 1..last' /\ n.batch \in 0..batches'
    <3>1. PICK q \in rows : ComesFrom(n, q)
      OBVIOUS
    <3>2. q.seq \in 1..last /\ q.batch \in 0..batches
      BY DEF IInv, Numbered
    <3> QED
      BY <1>1, <3>1, <3>2 DEF ComesFrom
  <2> QED
    BY <2>1 DEF Numbered
<1>3. OneOpenBatch'
  <2>1. ASSUME NEW m \in rows', NEW n \in rows', ~m.synced, ~n.synced, m.batch # 0, n.batch # 0
        PROVE  m.batch = n.batch
    <3>1. PICK p \in rows : ~p.synced /\ m.batch = p.batch
      BY <2>1 DEF ComesFrom
    <3>2. PICK q \in rows : ~q.synced /\ n.batch = q.batch
      BY <2>1 DEF ComesFrom
    <3>3. p.batch # 0 /\ q.batch # 0
      BY <2>1, <3>1, <3>2
    <3>4. OneOpenBatch
      BY DEF IInv
    <3>5. p.batch = q.batch
      BY <3>1, <3>2, <3>3, <3>4, OpenMember
    <3> QED
      BY <3>1, <3>2, <3>5
  <2> QED
    BY <2>1, OpenMember
<1>4. {q.seq : q \in Pending'} \subseteq {q.seq : q \in Pending}
  <2>1. ASSUME NEW n \in rows', ~n.synced
        PROVE  \E q \in Pending : q.seq = n.seq
    BY <2>1 DEF Pending, ComesFrom
  <2> QED
    BY <2>1 DEF Pending
<1> QED
  BY <1>1, <1>2, <1>3, <1>4 DEF RowsFine

LEMMA MoreRows ==
  ASSUME IInv, last' = last + 1, UNCHANGED batches,
         rows' = rows \cup {[seq |-> last', at |-> clock, batch |-> 0, synced |-> FALSE, error |-> FALSE]}
  PROVE  RowsFine /\ \A b \in Nat \ {0} : Keeps(b)
<1> DEFINE new == [seq |-> last', at |-> clock, batch |-> 0, synced |-> FALSE, error |-> FALSE]
<1>1. last \in Nat /\ batches \in Nat /\ clock \in Nat /\ rows \subseteq Rows
  BY DEF IInv, TelemetryTypeOK
<1>2. new \in Rows /\ new.seq = last + 1 /\ new.batch = 0
  BY <1>1 DEF Rows
<1>3. rows' \subseteq Rows
  BY <1>1, <1>2
<1>4. Numbered'
  <2>1. ASSUME NEW q \in rows'
        PROVE  q.seq \in 1..last' /\ q.batch \in 0..batches'
    <3>1. CASE q = new
      BY <3>1, <1>1, <1>2
    <3>2. CASE q \in rows
      BY <3>2, <1>1 DEF IInv, Numbered
    <3> QED
      BY <3>1, <3>2
  <2> QED
    BY <2>1 DEF Numbered
<1>5. OneOpenBatch'
  BY <1>2, OpenMember DEF IInv
<1>6. ASSUME NEW b \in Nat \ {0}
      PROVE  Keeps(b)
  <2>1. \A q \in rows' : q \in rows \/ q.batch = 0
    BY <1>2
  <2>2. rows \subseteq rows' /\ b # 0
    OBVIOUS
  <2> HIDE DEF new
  <2>3. \A x : x \in SeqsOf(b)' <=> x \in SeqsOf(b)
    BY <2>1, <2>2, SeqsMember
  <2> QED
    BY <2>3 DEF Keeps
<1> QED
  BY <1>3, <1>4, <1>5, <1>6 DEF RowsFine

LEMMA FewerRows ==
  ASSUME IInv, UNCHANGED <<last, batches>>, rows' = {q \in rows : ~Expired(q)}
  PROVE  RowsFine /\ \A b : Keeps(b)
<1>1. rows' \subseteq rows /\ \A q \in rows : ~q.synced => q \in rows'
  BY DEF Expired
<1>2. rows' \subseteq Rows /\ Numbered'
  BY <1>1 DEF IInv, TelemetryTypeOK, Numbered
<1>3. OneOpenBatch'
  BY <1>1, OpenMember DEF IInv
<1>4. ASSUME NEW b
      PROVE  Keeps(b)
  BY <1>1, SeqsMember DEF Keeps
<1> QED
  BY <1>2, <1>3, <1>4 DEF RowsFine

LEMMA AttemptedRows ==
  ASSUME IInv, UNCHANGED <<last, batches>>, NEW f \in BOOLEAN, rows' = Attempted(f)
  PROVE  RowsFine /\ \A b : Keeps(b)
<1>1. rows \subseteq Rows
  BY DEF IInv, TelemetryTypeOK
<1>2. ASSUME NEW n \in rows'
      PROVE  \E q \in rows : n \in Rows /\ n.seq = q.seq /\ n.batch = q.batch /\ n.synced = q.synced
  <2>1. PICK q \in rows : n = q \/ n = [q EXCEPT !.error = f]
    BY DEF Attempted
  <2>2. q \in Rows
    BY <1>1
  <2>3. CASE n = [q EXCEPT !.error = f]
    <3>1. 0 \in Nat
      OBVIOUS
    <3>2. n.seq = q.seq /\ n.batch = q.batch /\ n.synced = q.synced /\ n \in Rows
      BY <2>2, <2>3, <3>1, RowUpdates
    <3> QED
      BY <3>2
  <2> QED
    BY <2>1, <2>2, <2>3
<1>3. ASSUME NEW q \in rows
      PROVE  \E n \in rows' : n.seq = q.seq /\ n.batch = q.batch /\ n.synced = q.synced
  <2>1. q \in Rows
    BY <1>1
  <2>2. CASE q \in OfBatch(sender.batch)
    <3>1. [q EXCEPT !.error = f] \in rows'
      BY <2>2 DEF Attempted
    <3> QED
      BY <2>1, <3>1, RowUpdates
  <2>3. CASE q \notin OfBatch(sender.batch)
    <3>1. q \in rows'
      BY <2>3 DEF Attempted
    <3> QED
      BY <3>1
  <2> QED
    BY <2>2, <2>3
<1>4. RowsFine
  <2>1. \A n \in rows' : \E q \in rows : ComesFrom(n, q)
    BY <1>2 DEF ComesFrom
  <2> QED
    BY <2>1, FromRows
<1>5. ASSUME NEW b
      PROVE  Keeps(b)
  <2>1. \A x : x \in SeqsOf(b)' <=> x \in SeqsOf(b)
    BY <1>2, <1>3, SeqsMember
  <2> QED
    BY <2>1 DEF Keeps
<1> QED
  BY <1>4, <1>5

\* A new batch has samples: the oldest of the free ones.
LEMMA NewBatchMade ==
  ASSUME IInv, Pending # {}, Open = {}
  PROVE  NewBatch # {}
<1>1. Free # {} /\ Free \subseteq Rows
  BY DEF Free, Open, Pending, IInv, TelemetryTypeOK
<1>2. First(Free) \in Free /\ \A x \in Free : First(Free).seq <= x.seq
  BY <1>1, FirstType
<1>3. {x \in Free : x.seq < First(Free).seq} = {}
  <2>1. ASSUME NEW x \in Free
        PROVE  ~(x.seq < First(Free).seq)
    <3>1. x.seq \in Nat /\ First(Free).seq \in Nat
      BY <1>1, <1>2 DEF Rows
    <3> QED
      BY <1>2, <3>1
  <2> QED
    BY <2>1
<1>4. Cardinality({}) < batchSize
  BY FS_EmptySet DEF IInv, TelemetryTypeOK
<1>5. First(Free) \in NewBatch
  BY <1>2, <1>3, <1>4 DEF NewBatch
<1> QED
  BY <1>5

LEMMA BatchedRows ==
  ASSUME IInv, UNCHANGED last, batches' = batches + 1, Open = {},
         rows' = {IF q \in NewBatch THEN [q EXCEPT !.batch = batches'] ELSE q : q \in rows}
  PROVE  /\ RowsFine
         /\ \A b \in 1..batches : SeqsOf(b) = {} /\ SeqsOf(b)' = {}
         /\ \A b : b = batches + 1 => SeqsOf(b)' = {q.seq : q \in NewBatch}
<1>1. rows \subseteq Rows /\ batches \in Nat /\ last \in Nat
  BY DEF IInv, TelemetryTypeOK
<1>2. ASSUME NEW n \in rows'
      PROVE  \/ n \in rows /\ n \notin NewBatch
             \/ \E q \in NewBatch : /\ n \in Rows /\ n.seq = q.seq /\ q \in rows
                                    /\ n.batch = batches + 1 /\ n.synced = q.synced
  <2>1. PICK q \in rows : n = IF q \in NewBatch THEN [q EXCEPT !.batch = batches'] ELSE q
    OBVIOUS
  <2>2. q \in Rows /\ batches' \in Nat
    BY <1>1
  <2>3. CASE q \in NewBatch
    <3>1. n = [q EXCEPT !.batch = batches']
      BY <2>1, <2>3
    <3>2. n \in Rows /\ n.seq = q.seq /\ n.batch = batches' /\ n.synced = q.synced
      BY <2>2, <3>1, RowUpdates
    <3> QED
      BY <2>3, <3>2
  <2>4. CASE q \notin NewBatch
    BY <2>1, <2>4
  <2> QED
    BY <2>3, <2>4
<1>3. ASSUME NEW q \in NewBatch
      PROVE  \E n \in rows' : n.seq = q.seq /\ n.batch = batches + 1 /\ ~n.synced
  <2>1. q \in rows /\ ~q.synced
    BY DEF NewBatch, Free, Pending
  <2>2. [q EXCEPT !.batch = batches'] \in rows'
    BY <2>1
  <2>3. q \in Rows /\ batches' \in Nat
    BY <1>1, <2>1
  <2>4. /\ [q EXCEPT !.batch = batches'].seq = q.seq
        /\ [q EXCEPT !.batch = batches'].batch = batches'
        /\ [q EXCEPT !.batch = batches'].synced = q.synced
    BY <2>3, RowUpdates
  <2> QED
    BY <2>1, <2>2, <2>4
<1>4. \A q \in rows : ~q.synced => q.batch = 0
  BY DEF Open, Pending
<1>5. rows' \subseteq Rows
  BY <1>1, <1>2
<1>6. Numbered'
  <2>1. ASSUME NEW n \in rows'
        PROVE  n.seq \in 1..last' /\ n.batch \in 0..batches'
    <3>1. CASE n \in rows
      BY <1>1, <3>1 DEF IInv, Numbered
    <3>2. CASE n \notin rows
      BY <1>1, <1>2, <3>2 DEF IInv, Numbered
    <3> QED
      BY <3>1, <3>2
  <2> QED
    BY <2>1 DEF Numbered
<1>7. \A n \in rows' : ~n.synced => n.batch \in {0, batches + 1}
  BY <1>2, <1>4
<1>8. OneOpenBatch'
  BY <1>7, OpenMember
<1>9. ASSUME NEW b \in 1..batches
      PROVE  SeqsOf(b) = {} /\ SeqsOf(b)' = {}
  <2>1. b # 0 /\ b # batches + 1
    BY <1>1
  <2>2. \A x : x \notin SeqsOf(b)
    BY <1>4, <2>1, SeqsMember
  <2>3. \A x : x \notin SeqsOf(b)'
    BY <1>7, <2>1, SeqsMember
  <2> QED
    BY <2>2, <2>3
<1>10. ASSUME NEW b, b = batches + 1
       PROVE  SeqsOf(b)' = {q.seq : q \in NewBatch}
  <2>1. b # 0
    BY <1>1, <1>10
  <2>2. ASSUME NEW x \in SeqsOf(b)'
        PROVE  x \in {q.seq : q \in NewBatch}
    <3>1. PICK n \in rows' : ~n.synced /\ n.batch = b /\ n.seq = x
      BY <2>2, SeqsMember
    <3>2. ~(n \in rows /\ n \notin NewBatch)
      BY <1>4, <2>1, <3>1
    <3> QED
      BY <1>2, <3>1, <3>2
  <2>3. ASSUME NEW q \in NewBatch
        PROVE  q.seq \in SeqsOf(b)'
    BY <1>3, <1>10, SeqsMember
  <2> QED
    BY <2>2, <2>3
<1> QED
  BY <1>5, <1>6, <1>8, <1>9, <1>10 DEF RowsFine

\* The rows of the batch that is held go out of it: they are in no batch any more,
\* or they are synced.
LEMMA SettledRows ==
  ASSUME IInv, UNCHANGED <<last, batches>>, NEW c, c \in 1..batches,
         \A n \in rows' : \E q \in rows : SettledFrom(n, q, c),
         \A q \in rows : q \notin OfBatch(c) => q \in rows'
  PROVE  /\ RowsFine
         /\ \A b : b = c => SeqsOf(b)' = {}
         /\ \A b \in 1..batches : b # c => Keeps(b)
         /\ {q.seq : q \in Pending'} \subseteq {q.seq : q \in Pending}
<1>1. RowsFine /\ {q.seq : q \in Pending'} \subseteq {q.seq : q \in Pending}
  BY FromRows DEF SettledFrom
<1>2. batches \in Nat /\ c # 0
  BY DEF IInv, TelemetryTypeOK
<1>3. ASSUME NEW b, b = c
      PROVE  SeqsOf(b)' = {}
  <2>1. ASSUME NEW n \in rows', ~n.synced, n.batch = b
        PROVE  FALSE
    <3>1. PICK q \in rows : SettledFrom(n, q, c)
      OBVIOUS
    <3>2. n = q
      BY <1>2, <1>3, <2>1, <3>1 DEF SettledFrom
    <3>3. q \in OfBatch(c)
      BY <1>3, <2>1, <3>2 DEF OfBatch, Pending
    <3> QED
      BY <1>2, <1>3, <2>1, <3>1, <3>3 DEF SettledFrom
  <2>2. \A x : x \notin SeqsOf(b)'
    BY <2>1, SeqsMember
  <2> QED
    BY <2>2
<1>4. ASSUME NEW b \in 1..batches, b # c
      PROVE  Keeps(b)
  <2>1. b # 0
    BY <1>2
  <2>2. ASSUME NEW n \in rows', ~n.synced, n.batch = b
        PROVE  n \in rows
    <3>1. PICK q \in rows : SettledFrom(n, q, c)
      OBVIOUS
    <3> QED
      BY <2>1, <2>2, <3>1 DEF SettledFrom, ComesFrom
  <2>3. ASSUME NEW q \in rows, ~q.synced, q.batch = b
        PROVE  q \in rows'
    BY <1>4, <2>3 DEF OfBatch
  <2>4. \A x : x \in SeqsOf(b)' <=> x \in SeqsOf(b)
    BY <2>2, <2>3, SeqsMember
  <2> QED
    BY <2>4 DEF Keeps
<1> QED
  BY <1>1, <1>3, <1>4

Released == {IF q \in OfBatch(sender.batch) THEN [q EXCEPT !.batch = 0] ELSE q : q \in rows}
Marked ==
  {IF q \in OfBatch(sender.batch) THEN [q EXCEPT !.synced = TRUE, !.error = FALSE] ELSE q : q \in rows}

\* A batch that is released leaves its rows free.
LEMMA ReleasedRows ==
  ASSUME IInv, NEW n \in Released
  PROVE  \E q \in rows : SettledFrom(n, q, sender.batch)
<1>1. rows \subseteq Rows
  BY DEF IInv, TelemetryTypeOK
<1>2. PICK q \in rows : n = IF q \in OfBatch(sender.batch) THEN [q EXCEPT !.batch = 0] ELSE q
  BY DEF Released
<1>3. q \in Rows
  BY <1>1
<1>4. CASE q \notin OfBatch(sender.batch)
  BY <1>2, <1>3, <1>4 DEF SettledFrom, ComesFrom
<1>5. CASE q \in OfBatch(sender.batch)
  <2>1. n = [q EXCEPT !.batch = 0]
    BY <1>2, <1>5
  <2>2. n \in Rows /\ n.seq = q.seq /\ n.batch = 0 /\ n.synced = q.synced
    BY <1>3, <2>1, RowUpdates
  <2> QED
    BY <2>2, <1>5 DEF SettledFrom, ComesFrom
<1> QED
  BY <1>4, <1>5

\* A batch that is marked leaves its rows synced.
LEMMA MarkedRows ==
  ASSUME IInv, NEW n \in Marked
  PROVE  \E q \in rows : SettledFrom(n, q, sender.batch)
<1>1. rows \subseteq Rows
  BY DEF IInv, TelemetryTypeOK
<1>2. PICK q \in rows : n = IF q \in OfBatch(sender.batch) THEN [q EXCEPT !.synced = TRUE, !.error = FALSE] ELSE q
  BY DEF Marked
<1>3. q \in Rows
  BY <1>1
<1>4. CASE q \notin OfBatch(sender.batch)
  BY <1>2, <1>3, <1>4 DEF SettledFrom, ComesFrom
<1>5. CASE q \in OfBatch(sender.batch)
  <2>1. n = [q EXCEPT !.synced = TRUE, !.error = FALSE]
    BY <1>2, <1>5
  <2>2. n \in Rows /\ n.seq = q.seq /\ n.batch = q.batch /\ n.synced = TRUE
    BY <1>3, <2>1, RowUpdates
  <2> QED
    BY <2>2, <1>5 DEF SettledFrom, ComesFrom
<1> QED
  BY <1>4, <1>5

------------------------------------------------------------------------------
(* Steps *)

Background == Tick \/ StepBack \/ CaptureThread \/ MaintenanceFails

\* What the capture thread and the clock do leaves every batch as it is.
LEMMA BackgroundKeeps ==
  ASSUME IInv, Background
  PROVE  /\ RowsFine
         /\ \A b \in Nat \ {0} : Keeps(b)
         /\ last' = last \/ last' = last + 1
         /\ UNCHANGED syncing
<1>1. CASE Tick \/ StepBack \/ BuildRollups \/ MaintenanceFails
  <2>1. UNCHANGED <<rows, last, batches, syncing>>
    BY <1>1 DEF Tick, StepBack, BuildRollups, MaintenanceFails, database, syncing
  <2> QED
    BY <2>1, SameRows
<1>2. CASE Capture
  <2>1. UNCHANGED <<batches, syncing>>
    BY <1>2 DEF Capture, syncing
  <2>2. CASE UNCHANGED <<rows, last>>
    BY <2>1, <2>2, SameRows
  <2>3. CASE ~UNCHANGED <<rows, last>>
    <3>1. /\ last' = last + 1
          /\ rows' = rows \cup {[seq |-> last', at |-> clock, batch |-> 0,
                                 synced |-> FALSE, error |-> FALSE]}
      BY <1>2, <2>3 DEF Capture
    <3> QED
      BY <2>1, <3>1, MoreRows
  <2> QED
    BY <2>2, <2>3
<1>3. CASE PruneHistory
  <2>1. UNCHANGED <<last, batches, syncing>> /\ rows' = {q \in rows : ~Expired(q)}
    BY <1>3 DEF PruneHistory, syncing
  <2> QED
    BY <2>1, FewerRows
<1> QED
  BY <1>1, <1>2, <1>3 DEF Background, CaptureThread

Attempts == SendBatch \/ TakeAnswer \/ NoAnswer
Bridging == Bridge \/ \E p \in posts : Refuse(p)

\* Attempts and answers leave every batch as it is.
LEMMA AttemptKeeps ==
  ASSUME IInv, Attempts \/ Bridging \/ Restart
  PROVE  RowsFine /\ (\A b : Keeps(b)) /\ UNCHANGED <<last, batches>>
<1>1. UNCHANGED <<last, batches>>
  BY DEF Attempts, SendBatch, TakeAnswer, NoAnswer, Bridging, Bridge, Receive, Refuse, Restart, database
<1>2. UNCHANGED rows \/ \E f \in BOOLEAN : rows' = Attempted(f)
  BY DEF Attempts, SendBatch, TakeAnswer, NoAnswer, TooLarge, Bridging, Bridge, Receive, Refuse,
         Restart, database
<1>3. CASE UNCHANGED rows
  BY <1>1, <1>3, SameRows
<1>4. CASE \E f \in BOOLEAN : rows' = Attempted(f)
  BY <1>1, <1>4, AttemptedRows
<1> QED
  BY <1>1, <1>2, <1>3, <1>4

\* The samples of a batch are samples, and finitely many.
LEMMA HeldType ==
  ASSUME IInv, sender.pc # "idle"
  PROVE  /\ sender.batch \in 1..batches
         /\ sender.seqs \subseteq 1..last
         /\ sender.seqs # {}
         /\ SeqsOf(sender.batch) = sender.seqs
         /\ Cardinality(sender.seqs) \in Nat
<1>1. /\ sender.batch \in 1..batches
      /\ SeqsOf(sender.batch) = sender.seqs
      /\ sender.seqs # {}
  BY DEF IInv, Held
<1>2. sender.seqs \subseteq 1..last
  BY <1>1 DEF IInv, Numbered, SeqsOf, OfBatch, Pending
<1>3. IsFiniteSet(1..last)
  <2>1. 1 \in Int /\ last \in Int
    BY DEF IInv, TelemetryTypeOK
  <2> QED
    BY <2>1, FS_Interval
<1>4. IsFiniteSet(sender.seqs)
  BY <1>2, <1>3, FS_Subset
<1> QED
  BY <1>1, <1>2, <1>4, FS_CardinalityType

\* What a request that is waited for carries is the batch that is held.
LEMMA WaitedIsHeld ==
  ASSUME IInv, NEW p \in posts, Waited(p)
  PROVE  p.seqs = sender.seqs /\ sender.pc = "await"
<1>1. sender.pc = "await" /\ sender.batch = p.batch
  BY DEF Waited
<1>2. SeqsOf(p.batch) = sender.seqs /\ sender.seqs # {}
  BY <1>1, HeldType
<1> QED
  BY <1>1, <1>2 DEF IInv, Posted

\* What happens to the rows of a batch that is released or marked.
LEMMA Settles ==
  ASSUME IInv, ReleaseBatch \/ MarkBatchSynced
  PROVE  /\ RowsFine
         /\ \A b \in 1..batches : SeqsOf(b)' = {} \/ Keeps(b)
         /\ {q.seq : q \in Pending'} \subseteq {q.seq : q \in Pending}
         /\ UNCHANGED <<last, batches, reply, posts, sink>>
         /\ sender' = Idle
<1>1. UNCHANGED <<last, batches, reply, posts, sink>> /\ sender' = Idle
  BY DEF ReleaseBatch, MarkBatchSynced
<1>2. sender.batch \in 1..batches
  BY HeldType DEF ReleaseBatch, MarkBatchSynced
<1> DEFINE c == sender.batch
<1>3. \A n \in rows' : \E q \in rows : SettledFrom(n, q, c)
  <2>1. CASE ReleaseBatch
    <3>1. rows' = Released
      BY <2>1 DEF ReleaseBatch, Released
    <3>2. ASSUME NEW n \in rows'
          PROVE  \E q \in rows : SettledFrom(n, q, sender.batch)
      BY <3>1, ReleasedRows
    <3> QED
      BY <3>2
  <2>2. CASE MarkBatchSynced
    <3>1. rows' = Marked
      BY <2>2 DEF MarkBatchSynced, Marked
    <3>2. ASSUME NEW n \in rows'
          PROVE  \E q \in rows : SettledFrom(n, q, sender.batch)
      BY <3>1, MarkedRows
    <3> QED
      BY <3>2
  <2> QED
    BY <2>1, <2>2
<1>4. \A q \in rows : q \notin OfBatch(c) => q \in rows'
  BY DEF ReleaseBatch, MarkBatchSynced
<1> HIDE DEF c
<1>5. /\ RowsFine
      /\ \A b : b = c => SeqsOf(b)' = {}
      /\ \A b \in 1..batches : b # c => Keeps(b)
      /\ {q.seq : q \in Pending'} \subseteq {q.seq : q \in Pending}
  <2>1. c \in 1..batches
    BY <1>2 DEF c
  <2> QED
    BY <1>1, <1>3, <1>4, <2>1, SettledRows
<1> QED
  BY <1>1, <1>5

\* A reservation: the batch that is open, or a new one.
LEMMA Reserves ==
  ASSUME IInv, ReserveBatch
  PROVE  /\ RowsFine
         /\ \A b \in 1..batches : Keeps(b) \/ SeqsOf(b)' = {}
         /\ sender' \in Senders /\ sender'.pc = "send"
         /\ sender'.batch \in 1..batches'
         /\ sender'.seqs # {}
         /\ \A b : b = sender'.batch => SeqsOf(b)' = sender'.seqs
         /\ batches' \in Nat /\ batches <= batches'
         /\ UNCHANGED <<last, posts, sink>> /\ reply' = "none"
<1>1. UNCHANGED <<last, posts, sink>> /\ reply' = "none"
  BY DEF ReserveBatch
<1>2. rows \subseteq Rows /\ batches \in Nat
  BY DEF IInv, TelemetryTypeOK
<1>3. CASE Open # {}
  <2>1. UNCHANGED <<rows, last, batches>>
    BY <1>3 DEF ReserveBatch
  <2> DEFINE b == First(Open).batch
  <2>2. sender' = [pc |-> "send", batch |-> b, seqs |-> {q.seq : q \in OfBatch(b)}]
    BY <1>3 DEF ReserveBatch
  <2>3. First(Open) \in Open
    <3>1. Open \subseteq Rows
      BY <1>2 DEF Open, Pending
    <3> QED
      BY <1>3, <3>1, FirstType
  <2>4. b \in 1..batches /\ First(Open) \in OfBatch(b)
    BY <1>2, <2>3 DEF Open, OfBatch, Pending, IInv, Numbered
  <2>5. {q.seq : q \in OfBatch(b)} \subseteq Nat /\ {q.seq : q \in OfBatch(b)} # {}
    BY <1>2, <2>4 DEF OfBatch, Pending, Rows
  <2>6. RowsFine /\ \A x : Keeps(x)
    BY <2>1, SameRows
  <2> HIDE DEF b
  <2>7. sender' \in Senders
    BY <1>2, <2>2, <2>4, <2>5 DEF Senders, Steps
  <2>8. \A x : x = sender'.batch => SeqsOf(x)' = sender'.seqs
    BY <2>2, <2>6 DEF Keeps, SeqsOf
  <2> QED
    BY <1>1, <1>2, <2>1, <2>2, <2>4, <2>5, <2>6, <2>7, <2>8
<1>4. CASE Open = {}
  <2>1. /\ batches' = batches + 1
        /\ rows' = {IF q \in NewBatch THEN [q EXCEPT !.batch = batches'] ELSE q : q \in rows}
        /\ sender' = [pc |-> "send", batch |-> batches', seqs |-> {q.seq : q \in NewBatch}]
        /\ Pending # {}
    BY <1>4 DEF ReserveBatch
  <2>2. {q.seq : q \in NewBatch} \subseteq Nat /\ {q.seq : q \in NewBatch} # {}
    BY <1>2, <1>4, <2>1, NewBatchMade DEF NewBatch, Free, Pending, Rows
  <2>3. sender' \in Senders
    BY <1>2, <2>1, <2>2 DEF Senders, Steps
  <2>4. /\ RowsFine
        /\ \A b \in 1..batches : SeqsOf(b) = {} /\ SeqsOf(b)' = {}
        /\ \A b : b = batches + 1 => SeqsOf(b)' = {q.seq : q \in NewBatch}
    BY <1>1, <1>4, <2>1, BatchedRows
  <2> QED
    BY <1>1, <1>2, <2>1, <2>2, <2>3, <2>4
<1> QED
  BY <1>3, <1>4

------------------------------------------------------------------------------
(* The inductive invariant *)

\* The types of what no batch depends on.
Stores ==
  /\ clock \in Nat /\ peak \in Nat
  /\ last \in Nat
  /\ processed \in [Resolutions -> Nat]
  /\ rollups \in [Resolutions -> SUBSET [start : Nat, seqs : SUBSET Nat]]
  /\ taken \in SUBSET [seq : Nat, at : Nat]
  /\ late \in SUBSET Nat
  /\ thread \in {"wait", "capture", "rollup", "prune"}
  /\ faults \in Nat

\* The types of the exchange with the bridge.
Exchange ==
  /\ sender \in Senders
  /\ reply \in Answers
  /\ batchSize \in Nat \ {0}
  /\ batches \in Nat
  /\ posts \in SUBSET Posts
  /\ sink \in SUBSET Nat

LEMMA TypeSplit ==
  /\ TelemetryTypeOK <=> rows \subseteq Rows /\ Stores /\ Exchange
  /\ TelemetryTypeOK' <=> rows' \subseteq Rows /\ Stores' /\ Exchange'
  BY DEF TelemetryTypeOK, Stores, Exchange, Senders, Steps

LEMMA StoresStep ==
  ASSUME IInv, [TelemetryNext]_telemetryVars
  PROVE  Stores'
<1>1. TelemetryTypeOK /\ Stores
  BY TypeSplit DEF IInv
<1> USE <1>1
<1>2. MaxClock \in Nat /\ MaxFaults \in Nat
  BY TelemetryAssumption
<1>3. CASE Tick
  <2>1. clock' \in Nat
    BY <1>3 DEF Tick, Stores
  <2> QED
    BY <1>3, <2>1 DEF Tick, Stores, database
<1>4. CASE StepBack
  <2>1. clock' \in Nat /\ faults' \in Nat
    BY <1>4 DEF StepBack, Faulty, Stores
  <2> QED
    BY <1>4, <2>1 DEF StepBack, Stores, database
<1>5. CASE Capture
  <2>1. thread' \in {"wait", "capture", "rollup", "prune"} /\ UNCHANGED <<clock, peak, processed, rollups, faults>>
    BY <1>5 DEF Capture, time
  <2>2. last' \in Nat /\ taken' \in SUBSET [seq : Nat, at : Nat] /\ late' \in SUBSET Nat
    <3>1. CASE UNCHANGED <<rows, last, taken, late>>
      BY <3>1 DEF Stores
    <3>2. CASE ~UNCHANGED <<rows, last, taken, late>>
      <4>1. /\ last' = last + 1 /\ taken' = taken \cup {[seq |-> last', at |-> clock]}
            /\ late' = late \/ late' = late \cup {last'}
        BY <1>5, <3>2 DEF Capture
      <4>2. last' \in Nat /\ [seq |-> last', at |-> clock] \in [seq : Nat, at : Nat]
        BY <4>1 DEF Stores
      <4> QED
        BY <4>1, <4>2 DEF Stores
    <3> QED
      BY <3>1, <3>2
  <2> QED
    BY <2>1, <2>2 DEF Stores
<1>6. CASE BuildRollups
  <2>1. processed' \in [Resolutions -> Nat]
    <3>1. \A r \in Resolutions : (IF Due(r) THEN PassEnd(r) ELSE processed[r]) \in Nat
      BY PassType DEF Stores
    <3> QED
      BY <1>6, <3>1 DEF BuildRollups
  <2>2. rollups' \in [Resolutions -> SUBSET [start : Nat, seqs : SUBSET Nat]]
    <3>1. \A r \in Resolutions :
            (IF Due(r) THEN rollups[r] \cup NewBuckets(r) ELSE rollups[r])
              \in SUBSET [start : Nat, seqs : SUBSET Nat]
      <4>1. ASSUME NEW r \in Resolutions
            PROVE  rollups[r] \subseteq [start : Nat, seqs : SUBSET Nat]
        BY DEF Stores
      <4>2. ASSUME NEW r \in Resolutions, Due(r)
            PROVE  NewBuckets(r) \subseteq [start : Nat, seqs : SUBSET Nat]
        BY <4>2, PassType
      <4> QED
        BY <4>1, <4>2
    <3> QED
      BY <1>6, <3>1 DEF BuildRollups
  <2> QED
    BY <1>6, <2>1, <2>2 DEF BuildRollups, Stores, time
<1>7. CASE PruneHistory
  <2>1. rollups' \in [Resolutions -> SUBSET [start : Nat, seqs : SUBSET Nat]]
    <3>1. \A r \in Resolutions : {b \in rollups[r] : b.start + Keep[r] >= clock} \in SUBSET [start : Nat, seqs : SUBSET Nat]
      BY DEF Stores
    <3> QED
      BY <1>7, <3>1 DEF PruneHistory
  <2> QED
    BY <1>7, <2>1 DEF PruneHistory, Stores, time
<1>8. CASE MaintenanceFails \/ Restart
  <2>1. /\ UNCHANGED <<clock, peak, last, processed, rollups, taken, late>>
        /\ faults' = faults + 1 /\ thread' \in {"wait", "capture"}
    BY <1>8 DEF MaintenanceFails, Restart, Faulty, time, database
  <2> QED
    BY <2>1 DEF Stores
<1>9. CASE SyncThread
  BY <1>9 DEF SyncThread, ReserveBatch, SendBatch, TakeAnswer, ReleaseBatch, MarkBatchSynced, Stores, time
<1>10. CASE NoAnswer
  BY <1>10 DEF NoAnswer, Faulty, Stores, time
<1>11. CASE Bridging
  <2>1. /\ UNCHANGED <<clock, peak, last, processed, rollups, taken, late, thread>>
        /\ faults' = faults + 1 \/ faults' = faults
    BY <1>11 DEF Bridging, Bridge, Receive, Refuse, Faulty, time, database
  <2> QED
    BY <2>1 DEF Stores
<1>12. CASE UNCHANGED telemetryVars
  BY <1>12 DEF telemetryVars, Stores, time, database
<1> QED
  BY <1>3, <1>4, <1>5, <1>6, <1>7, <1>8, <1>9, <1>10, <1>11, <1>12 DEF TelemetryNext, CaptureThread, Bridging

LEMMA ExchangeStep ==
  ASSUME IInv, [TelemetryNext]_telemetryVars
  PROVE  Exchange'
<1>1. TelemetryTypeOK /\ Exchange
  BY TypeSplit DEF IInv
<1> USE <1>1
<1>2. CASE Background \/ UNCHANGED telemetryVars
  <2>1. UNCHANGED syncing
    BY <1>2, BackgroundKeeps DEF telemetryVars
  <2> QED
    BY <2>1 DEF syncing, Exchange
<1>3. CASE ReserveBatch
  <2>1. UNCHANGED batchSize
    BY <1>3 DEF ReserveBatch
  <2> QED
    BY <1>3, <2>1, Reserves DEF Exchange, Answers
<1>4. CASE SendBatch \/ TakeAnswer \/ NoAnswer
  <2>1. sender' \in Senders
    <3>1. sender' = Idle \/ \E pc \in Steps : sender' = [sender EXCEPT !.pc = pc]
      BY <1>4 DEF SendBatch, TakeAnswer, NoAnswer, TooLarge, Steps
    <3> QED
      BY <3>1, IdleType, SenderUpdates DEF Exchange
  <2>2. posts' \in SUBSET Posts
    <3>1. [batch |-> sender.batch, seqs |-> sender.seqs] \in Posts
      BY DEF Exchange, Senders, Posts
    <3> QED
      BY <1>4, <3>1 DEF SendBatch, TakeAnswer, NoAnswer, Exchange
  <2>3. reply' \in Answers /\ UNCHANGED <<batchSize, batches, sink>>
    BY <1>4 DEF SendBatch, TakeAnswer, NoAnswer, Exchange, Answers
  <2> QED
    BY <2>1, <2>2, <2>3 DEF Exchange
<1>5. CASE ReleaseBatch
  <2>1. Cardinality(sender.seqs) \in Nat
    BY <1>5, HeldType DEF ReleaseBatch
  <2>2. Cardinality(sender.seqs) \div 2 \in Nat
    BY <2>1
  <2>3. batchSize' \in Nat \ {0}
    BY <1>5, <2>2 DEF ReleaseBatch, Exchange
  <2> QED
    BY <1>5, <2>3, IdleType DEF ReleaseBatch, Exchange
<1>6. CASE MarkBatchSynced
  BY <1>6, IdleType DEF MarkBatchSynced, Exchange
<1>7. CASE Restart
  <2>1. batchSize' \in Nat \ {0}
    BY <1>7, TelemetryAssumption DEF Restart
  <2> QED
    BY <1>7, <2>1, IdleType DEF Restart, Exchange, Answers
<1>8. CASE Bridging
  <2>1. UNCHANGED <<sender, batchSize, batches, posts>>
    BY <1>8 DEF Bridging, Bridge, Receive, Refuse
  <2>2. PICK p \in posts : Receive(p) \/ Refuse(p)
    BY <1>8 DEF Bridging, Bridge
  <2>3. p.seqs \subseteq Nat
    BY DEF Exchange, Posts
  <2>4. sink' \in SUBSET Nat /\ reply' \in Answers
    BY <2>2, <2>3 DEF Receive, Refuse, Exchange, Answers
  <2> QED
    BY <2>1, <2>4 DEF Exchange
<1> QED
  BY <1>2, <1>3, <1>4, <1>5, <1>6, <1>7, <1>8 DEF TelemetryNext, Background, SyncThread, Bridging

\* What ties the batches, the requests and the bridge together.
Ties == Held /\ Posted /\ OneBatchOneContent /\ Stored

\* A step that leaves the exchange and every batch alone.
LEMMA TiesKept ==
  ASSUME IInv, UNCHANGED <<sender, reply, batches, posts, sink>>, last' \in Nat, last <= last',
         \A b \in Nat \ {0} : Keeps(b)
  PROVE  Ties'
<1>1. last \in Nat /\ batches \in Nat
  BY DEF IInv, TelemetryTypeOK
<1>2. Held'
  <2>1. ASSUME sender.pc # "idle"
        PROVE  SeqsOf(sender.batch)' = sender.seqs
    <3>1. sender.batch \in Nat \ {0} /\ SeqsOf(sender.batch) = sender.seqs
      BY <1>1, <2>1 DEF IInv, Held
    <3>2. \A b : b = sender.batch => SeqsOf(b)' = SeqsOf(b)
      BY <3>1 DEF Keeps
    <3> QED
      BY <3>1, <3>2
  <2> QED
    BY <2>1 DEF IInv, Held
<1>3. Posted'
  <2>1. ASSUME NEW p \in posts
        PROVE  /\ p.batch \in 1..batches
               /\ p.seqs \subseteq 1..last'
               /\ SeqsOf(p.batch)' = {} \/ SeqsOf(p.batch)' = p.seqs
    <3>1. /\ p.batch \in 1..batches
          /\ p.seqs \subseteq 1..last
          /\ SeqsOf(p.batch) = {} \/ SeqsOf(p.batch) = p.seqs
      BY DEF IInv, Posted
    <3>2. p.batch \in Nat \ {0}
      BY <1>1, <3>1
    <3>3. SeqsOf(p.batch)' = SeqsOf(p.batch)
      BY <3>2 DEF Keeps
    <3> QED
      BY <1>1, <3>1, <3>3
  <2> QED
    BY <2>1 DEF Posted
<1>4. OneBatchOneContent'
  BY DEF IInv, OneBatchOneContent
<1>5. Stored'
  <2>1. sink \subseteq 1..last'
    BY <1>1 DEF IInv, Stored
  <2> QED
    BY <2>1 DEF IInv, Stored
<1> QED
  BY <1>2, <1>3, <1>4, <1>5 DEF Ties

\* What was posted stays true while batches only go.
LEMMA PostedKept ==
  ASSUME IInv, UNCHANGED <<posts, last>>, batches' \in Nat, batches <= batches',
         \A b \in 1..batches : SeqsOf(b)' = {} \/ Keeps(b)
  PROVE  Posted' /\ OneBatchOneContent'
<1>1. batches \in Nat
  BY DEF IInv, TelemetryTypeOK
<1>2. ASSUME NEW p \in posts
      PROVE  /\ p.batch \in 1..batches'
             /\ p.seqs \subseteq 1..last
             /\ SeqsOf(p.batch)' = {} \/ SeqsOf(p.batch)' = p.seqs
  <2>1. /\ p.batch \in 1..batches
        /\ p.seqs \subseteq 1..last
        /\ SeqsOf(p.batch) = {} \/ SeqsOf(p.batch) = p.seqs
    BY DEF IInv, Posted
  <2>2. SeqsOf(p.batch)' = {} \/ SeqsOf(p.batch)' = SeqsOf(p.batch)
    BY <2>1 DEF Keeps
  <2> QED
    BY <1>1, <2>1, <2>2
<1> QED
  BY <1>2 DEF Posted, IInv, OneBatchOneContent

LEMMA TiesStep ==
  ASSUME IInv, [TelemetryNext]_telemetryVars
  PROVE  Ties'
<1>1. last \in Nat /\ batches \in Nat
  BY DEF IInv, TelemetryTypeOK
<1>2. CASE Background
  <2>1. UNCHANGED <<sender, reply, batches, posts, sink>>
    BY <1>2, BackgroundKeeps DEF syncing
  <2> QED
    BY <1>1, <1>2, <2>1, BackgroundKeeps, TiesKept
<1>3. CASE UNCHANGED telemetryVars
  <2>1. UNCHANGED <<sender, reply, batches, posts, sink, last, rows>>
    BY <1>3 DEF telemetryVars, syncing, database
  <2> QED
    BY <1>1, <2>1, SameRows, TiesKept
<1>4. CASE ReserveBatch
  <2>1. Posted' /\ OneBatchOneContent'
    BY <1>4, Reserves, PostedKept
  <2>2. Held'
    BY <1>4, Reserves DEF Held
  <2>3. Stored'
    BY <1>4, Reserves DEF IInv, Stored
  <2> QED
    BY <2>1, <2>2, <2>3 DEF Ties
<1>5. CASE ReleaseBatch \/ MarkBatchSynced
  <2>1. Posted' /\ OneBatchOneContent'
    BY <1>1, <1>5, Settles, PostedKept
  <2>2. Held'
    BY <1>5, Settles, IdleType DEF Held
  <2>3. Stored'
    <3>1. sender.pc # "await"
      BY <1>5 DEF ReleaseBatch, MarkBatchSynced
    <3> QED
      BY <1>5, <3>1, Settles, IdleType DEF IInv, Stored
  <2> QED
    BY <2>1, <2>2, <2>3 DEF Ties
<1>6. ASSUME Attempts \/ Bridging \/ Restart
      PROVE  (\A b : Keeps(b)) /\ UNCHANGED <<last, batches>>
  BY <1>6, AttemptKeeps
<1>7. CASE SendBatch
  <2>1. (\A b : Keeps(b)) /\ UNCHANGED <<last, batches, reply, sink>> /\ sender.pc = "send"
    BY <1>6, <1>7 DEF Attempts, SendBatch
  <2>2. /\ sender.batch \in 1..batches
        /\ sender.seqs \subseteq 1..last
        /\ sender.seqs # {}
        /\ SeqsOf(sender.batch) = sender.seqs
    BY <2>1, HeldType
  <2> DEFINE new == [batch |-> sender.batch, seqs |-> sender.seqs]
  <2>3. posts' = posts \/ posts' = posts \cup {new}
    BY <1>7 DEF SendBatch
  <2>4. /\ sender'.pc \in {"idle", "release", "await"}
        /\ sender'.pc # "idle" => sender'.batch = sender.batch /\ sender'.seqs = sender.seqs
    <3>1. sender' = Idle \/ \E pc \in {"release", "await"} : sender' = [sender EXCEPT !.pc = pc]
      BY <1>7 DEF SendBatch, TooLarge
    <3>2. sender \in Senders
      BY TypeSplit DEF IInv, Exchange
    <3>3. CASE sender' = Idle
      BY <3>3, IdleType
    <3>4. ASSUME NEW pc \in {"release", "await"}, sender' = [sender EXCEPT !.pc = pc]
          PROVE  sender'.pc = pc /\ sender'.batch = sender.batch /\ sender'.seqs = sender.seqs
      BY <3>2, <3>4, SenderUpdates DEF Steps
    <3> QED
      BY <3>1, <3>3, <3>4
  <2>5. Held'
    <3>1. \A b : b = sender.batch => SeqsOf(b)' = sender.seqs
      BY <2>1, <2>2 DEF Keeps
    <3> QED
      BY <2>1, <2>2, <2>4, <3>1 DEF Held
  <2>6. ASSUME NEW p \in posts'
        PROVE  /\ p.batch \in 1..batches
               /\ p.seqs \subseteq 1..last
               /\ SeqsOf(p.batch) = {} \/ SeqsOf(p.batch) = p.seqs
               /\ p.batch = sender.batch => p.seqs = sender.seqs
    <3>1. CASE p \in posts
      BY <2>2, <3>1 DEF IInv, Posted
    <3>2. CASE p = new
      BY <2>2, <3>2
    <3> QED
      BY <2>3, <3>1, <3>2
  <2>7. Posted'
    <3>1. ASSUME NEW p \in posts'
          PROVE  SeqsOf(p.batch)' = SeqsOf(p.batch)
      BY <2>1 DEF Keeps
    <3> QED
      BY <2>1, <2>6, <3>1 DEF Posted
  <2>8. OneBatchOneContent'
    <3>1. ASSUME NEW p \in posts', NEW q \in posts', p.batch = q.batch
          PROVE  p.seqs = q.seqs
      <4>1. CASE p \in posts /\ q \in posts
        BY <3>1, <4>1 DEF IInv, OneBatchOneContent
      <4>2. CASE p = new \/ q = new
        BY <2>6, <3>1, <4>2
      <4> QED
        BY <2>3, <4>1, <4>2
    <3> QED
      BY <3>1 DEF OneBatchOneContent
  <2>9. Stored'
    BY <2>1, <2>4 DEF IInv, Stored
  <2> QED
    BY <2>5, <2>7, <2>8, <2>9 DEF Ties
<1>8. CASE TakeAnswer \/ NoAnswer \/ Restart
  <2>1. /\ \A b : Keeps(b)
        /\ UNCHANGED <<last, batches, posts, sink>> /\ reply' = "none"
    BY <1>6, <1>8 DEF Attempts, TakeAnswer, NoAnswer, Restart
  <2>2. Posted' /\ OneBatchOneContent'
    BY <1>1, <2>1, PostedKept
  <2>3. \/ sender' = Idle
        \/ /\ sender.pc = "await"
           /\ \/ sender' = [sender EXCEPT !.pc = "release"]
              \/ sender' = [sender EXCEPT !.pc = "mark"] /\ reply = "accepted"
    BY <1>8 DEF TakeAnswer, NoAnswer, Restart, TooLarge
  <2>4. CASE sender' = Idle
    BY <2>1, <2>2, <2>4, IdleType DEF Ties, Held, Stored, IInv
  <2>5. CASE sender' # Idle
    <3>1. sender.pc = "await" /\ sender \in Senders
      BY <2>3, <2>5, TypeSplit DEF IInv, Exchange
    <3>2. /\ sender.batch \in 1..batches
          /\ sender.seqs # {}
          /\ SeqsOf(sender.batch) = sender.seqs
      BY <3>1, HeldType
    <3>3. /\ sender'.pc \in {"release", "mark"}
          /\ sender'.batch = sender.batch /\ sender'.seqs = sender.seqs
          /\ sender'.pc = "mark" => reply = "accepted"
      <4>1. ASSUME NEW pc \in {"release", "mark"}, sender' = [sender EXCEPT !.pc = pc]
            PROVE  sender'.pc = pc /\ sender'.batch = sender.batch /\ sender'.seqs = sender.seqs
        BY <3>1, <4>1, SenderUpdates DEF Steps
      <4> QED
        BY <2>3, <2>5, <4>1
    <3>4. \A b : b = sender.batch => SeqsOf(b)' = sender.seqs
      BY <2>1, <3>2 DEF Keeps
    <3>5. Held'
      BY <2>1, <3>2, <3>3, <3>4 DEF Held
    <3>6. Stored'
      BY <2>1, <3>3 DEF IInv, Stored
    <3> QED
      BY <2>2, <3>5, <3>6 DEF Ties
  <2> QED
    BY <2>4, <2>5
<1>9. CASE Bridging
  <2>1. /\ \A b : Keeps(b)
        /\ UNCHANGED <<last, batches, posts, sender>>
    BY <1>6, <1>9 DEF Bridging, Bridge, Receive, Refuse, database
  <2>2. Posted' /\ OneBatchOneContent'
    BY <1>1, <2>1, PostedKept
  <2>3. Held'
    <3>1. ASSUME sender.pc # "idle"
          PROVE  \A b : b = sender.batch => SeqsOf(b)' = sender.seqs
      BY <2>1, <3>1, HeldType DEF Keeps
    <3> QED
      BY <2>1, <3>1 DEF IInv, Held
  <2>4. PICK p \in posts : Receive(p) \/ Refuse(p)
    BY <1>9 DEF Bridging, Bridge
  <2>5. p.seqs \subseteq 1..last
    BY DEF IInv, Posted
  <2>6. sink \subseteq sink' /\ sink' \subseteq 1..last
    BY <2>4, <2>5 DEF Receive, Refuse, IInv, Stored
  <2>7. reply' = reply \/ (Waited(p) /\ (reply' = "accepted" => p.seqs \subseteq sink'))
    BY <2>4 DEF Receive, Refuse
  <2>8. ASSUME reply' = reply
        PROVE  Stored'
    BY <2>1, <2>6, <2>8 DEF IInv, Stored
  <2>9. ASSUME reply' # reply
        PROVE  Stored'
    <3>1. /\ sender.pc = "await"
          /\ p.seqs = sender.seqs
          /\ reply' = "accepted" => p.seqs \subseteq sink'
      BY <2>7, <2>9, WaitedIsHeld
    <3> QED
      BY <2>1, <2>6, <3>1 DEF Stored
  <2> QED
    BY <2>2, <2>3, <2>8, <2>9 DEF Ties
<1> QED
  BY <1>2, <1>3, <1>4, <1>5, <1>7, <1>8, <1>9 DEF TelemetryNext, Background, SyncThread, Bridging

LEMMA RowsStep ==
  ASSUME IInv, [TelemetryNext]_telemetryVars
  PROVE  RowsFine
<1>1. CASE UNCHANGED telemetryVars
  BY <1>1, SameRows DEF telemetryVars, database, syncing
<1>2. CASE TelemetryNext
  BY <1>2, BackgroundKeeps, AttemptKeeps, Reserves, Settles
  DEF TelemetryNext, Background, SyncThread, Attempts, Bridging
<1> QED
  BY <1>1, <1>2

LEMMA InitHolds ==
  ASSUME TelemetryInit
  PROVE  IInv
<1>1. TelemetryTypeOK
  BY TelemetryAssumption DEF TelemetryInit, TelemetryTypeOK, Idle, Answers
<1>2. Ties
  BY IdleType DEF TelemetryInit, Ties, Held, Posted, OneBatchOneContent, Stored
<1> QED
  BY <1>1, <1>2 DEF TelemetryInit, IInv, Ties, Numbered, OneOpenBatch, Open, Pending

\* The inductive invariant: what was sent of a batch, what the store holds of it and
\* what the sync thread has in hand are the same samples.
THEOREM Invariance == TelemetrySpec => []IInv
<1>1. TelemetryInit => IInv
  BY InitHolds
<1>2. IInv /\ [TelemetryNext]_telemetryVars => IInv'
  <2> SUFFICES ASSUME IInv, [TelemetryNext]_telemetryVars
               PROVE  IInv'
    OBVIOUS
  <2> QED
    BY RowsStep, StoresStep, ExchangeStep, TiesStep, TypeSplit DEF IInv, RowsFine, Ties
<1> QED
  BY <1>1, <1>2, PTL DEF TelemetrySpec

\* Every variable of the agent and of its store keeps its type.
THEOREM TypesAreKept == TelemetrySpec => []TelemetryTypeOK
<1>1. IInv => TelemetryTypeOK
  BY DEF IInv
<1> QED
  BY <1>1, Invariance, PTL

\* One identifier names one set of samples for ever, and what is about to be marked
\* or released is what was sent, for every batch size and any number of faults.
THEOREM BatchesStayStable == TelemetrySpec => []BatchesAreStable
<1>1. IInv => BatchesAreStable
  BY DEF IInv, Held, SeqsOf, BatchesAreStable, OneBatchOneContent, HeldBatchIsWhole
<1> QED
  BY <1>1, Invariance, PTL

------------------------------------------------------------------------------
(* The agent implements the outbox *)

Owed == {q.seq : q \in Pending}

LEMMA OwedMember ==
  /\ \A x : x \in Owed <=> \E q \in rows : ~q.synced /\ q.seq = x
  /\ \A x : x \in Owed' <=> \E q \in rows' : ~q.synced /\ q.seq = x
  BY DEF Owed, Pending

\* A sample is owed until the bridge has it, for every resolution, batch size and
\* retention, and any number of samples, faults and restarts.
THEOREM OutboxRefinement == TelemetrySpec => DeliversBeforeForgetting
<1>1. TelemetryInit => Outbox!Init
  BY DEF TelemetryInit, Outbox!Init, Pending
<1>2. IInv /\ [TelemetryNext]_telemetryVars => [Outbox!Next]_(Outbox!vars)
  <2> SUFFICES ASSUME IInv, [TelemetryNext]_telemetryVars
               PROVE  [Outbox!Next]_(Outbox!vars)
    OBVIOUS
  <2>1. ASSUME last' = last, sink' = sink, Owed' \subseteq Owed, Owed \ Owed' \subseteq sink
        PROVE  Outbox!Settle
    BY <2>1 DEF Outbox!Settle, Owed
  <2>2. ASSUME UNCHANGED <<rows, last>>, sink \subseteq sink', sink' \subseteq 1..last
        PROVE  Outbox!Deliver
    BY <2>2 DEF Outbox!Deliver, Pending
  <2>3. CASE UNCHANGED <<rows, last, sink>>
    BY <2>3 DEF Outbox!vars, Pending
  <2>4. CASE Capture
    <3>1. UNCHANGED sink /\ last \in Nat
      BY <2>4 DEF Capture, syncing, IInv, TelemetryTypeOK
    <3>2. CASE UNCHANGED <<rows, last>>
      BY <2>3, <3>1, <3>2
    <3>3. CASE ~UNCHANGED <<rows, last>>
      <4> DEFINE new == [seq |-> last', at |-> clock, batch |-> 0, synced |-> FALSE, error |-> FALSE]
      <4>1. last' = last + 1 /\ rows' = rows \cup {new}
        BY <2>4, <3>3 DEF Capture
      <4>2. ~new.synced /\ new.seq = last + 1
        BY <4>1
      <4> HIDE DEF new
      <4>3. \A x : x \in Owed' <=> x \in Owed \/ x = last + 1
        BY <4>1, <4>2, OwedMember
      <4>4. Owed' = Owed \cup {last + 1}
        BY <4>3
      <4> QED
        BY <3>1, <4>1, <4>4 DEF Outbox!Next, Outbox!Capture, Owed
    <3> QED
      BY <3>2, <3>3
  <2>5. CASE PruneHistory
    <3>1. rows' = {q \in rows : ~Expired(q)} /\ UNCHANGED <<last, sink>>
      BY <2>5 DEF PruneHistory, syncing
    <3>2. \A x : x \in Owed' <=> x \in Owed
      BY <3>1, OwedMember DEF Expired
    <3> QED
      BY <2>1, <3>1, <3>2 DEF Outbox!Next
  <2>6. CASE Tick \/ StepBack \/ BuildRollups \/ MaintenanceFails \/ Restart
    BY <2>3, <2>6 DEF Tick, StepBack, BuildRollups, MaintenanceFails, Restart, database, syncing
  <2>7. CASE ReserveBatch
    <3>1. UNCHANGED <<last, sink>>
      BY <2>7 DEF ReserveBatch
    <3>2. \A x : x \in Owed' <=> x \in Owed
      <4>1. CASE Open # {}
        BY <2>7, <4>1, OwedMember DEF ReserveBatch
      <4>2. CASE Open = {}
        <5>1. rows' = {IF q \in NewBatch THEN [q EXCEPT !.batch = batches'] ELSE q : q \in rows}
          BY <2>7, <4>2 DEF ReserveBatch
        <5>2. \A q \in rows : /\ q \in Rows
                               /\ [q EXCEPT !.batch = batches'].seq = q.seq
                               /\ [q EXCEPT !.batch = batches'].synced = q.synced
          BY DEF IInv, TelemetryTypeOK, Rows
        <5>3. ASSUME NEW n \in rows'
              PROVE  \E q \in rows : n.seq = q.seq /\ n.synced = q.synced
          BY <5>1, <5>2
        <5>4. ASSUME NEW q \in rows
              PROVE  \E n \in rows' : n.seq = q.seq /\ n.synced = q.synced
          <6>1. (IF q \in NewBatch THEN [q EXCEPT !.batch = batches'] ELSE q) \in rows'
            BY <5>1
          <6> QED
            BY <5>2, <6>1
        <5> QED
          BY <5>3, <5>4, OwedMember
      <4> QED
        BY <4>1, <4>2
    <3> QED
      BY <2>1, <3>1, <3>2 DEF Outbox!Next
  <2>8. CASE Attempts
    <3>1. UNCHANGED <<last, sink>>
      BY <2>8 DEF Attempts, SendBatch, TakeAnswer, NoAnswer
    <3>2. \A x : x \in Owed' <=> x \in Owed
      <4>1. UNCHANGED rows \/ \E f \in BOOLEAN : rows' = Attempted(f)
        BY <2>8 DEF Attempts, SendBatch, TakeAnswer, NoAnswer, TooLarge
      <4>2. CASE UNCHANGED rows
        BY <4>2, OwedMember
      <4>3. ASSUME NEW f \in BOOLEAN, rows' = Attempted(f)
            PROVE  \A x : x \in Owed' <=> x \in Owed
        <5>1. \A q \in rows : /\ [q EXCEPT !.error = f].seq = q.seq
                               /\ [q EXCEPT !.error = f].synced = q.synced
          BY DEF IInv, TelemetryTypeOK, Rows
        <5>2. ASSUME NEW n \in rows'
              PROVE  \E q \in rows : n.seq = q.seq /\ n.synced = q.synced
          BY <4>3, <5>1 DEF Attempted
        <5>3. ASSUME NEW q \in rows
              PROVE  \E n \in rows' : n.seq = q.seq /\ n.synced = q.synced
          <6>1. (IF q \in OfBatch(sender.batch) THEN [q EXCEPT !.error = f] ELSE q) \in rows'
            BY <4>3 DEF Attempted
          <6> QED
            BY <5>1, <6>1
        <5> QED
          BY <5>2, <5>3, OwedMember
      <4> QED
        BY <4>1, <4>2, <4>3
    <3> QED
      BY <2>1, <3>1, <3>2 DEF Outbox!Next
  <2>9. CASE Bridging
    <3>1. UNCHANGED <<rows, last>>
      BY <2>9 DEF Bridging, Bridge, Receive, Refuse, database
    <3>2. PICK p \in posts : Receive(p) \/ Refuse(p)
      BY <2>9 DEF Bridging, Bridge
    <3>3. p.seqs \subseteq 1..last
      BY DEF IInv, Posted
    <3>4. sink \subseteq sink' /\ sink' \subseteq 1..last
      BY <3>2, <3>3 DEF Receive, Refuse, IInv, Stored
    <3> QED
      BY <2>2, <3>1, <3>4 DEF Outbox!Next
  <2>10. CASE ReleaseBatch
    <3>1. rows' = Released /\ UNCHANGED <<last, sink>>
      BY <2>10 DEF ReleaseBatch, Released
    <3>2. \A q \in rows : /\ [q EXCEPT !.batch = 0].seq = q.seq
                           /\ [q EXCEPT !.batch = 0].synced = q.synced
      BY DEF IInv, TelemetryTypeOK, Rows
    <3>3. ASSUME NEW n \in rows'
          PROVE  \E q \in rows : n.seq = q.seq /\ n.synced = q.synced
      BY <3>1, <3>2 DEF Released
    <3>4. ASSUME NEW q \in rows
          PROVE  \E n \in rows' : n.seq = q.seq /\ n.synced = q.synced
      <4>1. (IF q \in OfBatch(sender.batch) THEN [q EXCEPT !.batch = 0] ELSE q) \in rows'
        BY <3>1 DEF Released
      <4> QED
        BY <3>2, <4>1
    <3>5. \A x : x \in Owed' <=> x \in Owed
      BY <3>3, <3>4, OwedMember
    <3> QED
      BY <2>1, <3>1, <3>5 DEF Outbox!Next
  <2>11. CASE MarkBatchSynced
    <3>1. rows' = Marked /\ UNCHANGED <<last, sink>> /\ sender.pc = "mark"
      BY <2>11 DEF MarkBatchSynced, Marked
    <3>2. Owed' \subseteq Owed
      BY <2>11, Settles DEF Owed
    <3>3. SeqsOf(sender.batch) = sender.seqs /\ sender.seqs \subseteq sink
      BY <3>1, HeldType DEF IInv, Stored
    <3>4. ASSUME NEW x \in Owed, x \notin Owed'
          PROVE  x \in sink
      <4>1. PICK q \in rows : ~q.synced /\ q.seq = x
        BY OwedMember
      <4>2. q \notin rows'
        BY <3>4, <4>1, OwedMember
      <4>3. q \in OfBatch(sender.batch)
        BY <3>1, <4>2 DEF Marked
      <4>4. x \in SeqsOf(sender.batch)
        BY <4>1, <4>3 DEF SeqsOf
      <4> QED
        BY <3>3, <4>4
    <3> QED
      BY <2>1, <3>1, <3>2, <3>4 DEF Outbox!Next
  <2>12. CASE UNCHANGED telemetryVars
    BY <2>3, <2>12 DEF telemetryVars, database, syncing
  <2> QED
    BY <2>4, <2>5, <2>6, <2>7, <2>8, <2>9, <2>10, <2>11, <2>12
    DEF TelemetryNext, CaptureThread, SyncThread, Attempts, Bridging
<1> QED
  BY <1>1, <1>2, Invariance, PTL DEF TelemetrySpec, DeliversBeforeForgetting, Outbox!Spec

------------------------------------------------------------------------------
(* Buckets of time *)

LEMMA Division ==
  ASSUME NEW t \in Nat, NEW w \in Nat \ {0}
  PROVE  /\ t \div w \in Nat
         /\ t = w * (t \div w) + (t % w)
         /\ t % w \in 0..(w - 1)
  OBVIOUS

\* A multiple that is smaller is smaller by a width at least.
LEMMA NextMultiple ==
  ASSUME NEW m \in Nat, NEW n \in Nat, NEW w \in Nat \ {0},
         m % w = 0, n % w = 0, m < n
  PROVE  m + w <= n
<1> DEFINE i == m \div w
           j == n \div w
<1>1. i \in Nat /\ j \in Nat /\ m = w * i /\ n = w * j
  BY Division
<1> HIDE DEF i, j
<1>2. i < j
  BY <1>1
<1>3. w * (i + 1) <= w * j
  BY <1>1, <1>2
<1>4. w * (i + 1) = w * i + w
  BY <1>1
<1> QED
  BY <1>1, <1>3, <1>4

LEMMA MultipleAhead ==
  ASSUME NEW m \in Nat, NEW k \in Nat, NEW w \in Nat \ {0}, m % w = 0
  PROVE  (m + k * w) % w = 0
<1> DEFINE i == m \div w
<1>1. i \in Nat /\ m = w * i
  BY Division
<1> HIDE DEF i
<1>2. m + k * w = w * (i + k)
  BY <1>1
<1>3. (w * (i + k)) % w = 0
  <2>1. i + k \in Nat
    BY <1>1
  <2>2. \A n \in Nat : (w * n) % w = 0
    OBVIOUS
  <2> QED
    BY <2>1, <2>2
<1> QED
  BY <1>2, <1>3

\* floor_utc gives the bucket a time is in.
LEMMA FloorIsBucket ==
  ASSUME NEW t \in Nat, NEW w \in Nat \ {0}
  PROVE  /\ Floor(t, w) \in Nat
         /\ Floor(t, w) % w = 0
         /\ Floor(t, w) <= t /\ t < Floor(t, w) + w
<1> DEFINE i == t \div w
<1>1. i \in Nat /\ t = w * i + (t % w) /\ t % w \in 0..(w - 1)
  BY Division
<1>2. Floor(t, w) = w * i
  <2>1. w * i \in Nat
    BY <1>1
  <2> QED
    BY <1>1, <2>1 DEF Floor
<1>3. \A n \in Nat : (w * n) % w = 0
  OBVIOUS
<1> HIDE DEF i
<1>4. w * i \in Nat
  BY <1>1
<1> QED
  BY <1>1, <1>2, <1>3, <1>4

\* No bucket starts between the start of a time's own bucket and that time.
LEMMA FloorIsLast ==
  ASSUME NEW t \in Nat, NEW w \in Nat \ {0}, NEW m \in Nat, m % w = 0, m <= t
  PROVE  m <= Floor(t, w)
<1>1. /\ Floor(t, w) \in Nat /\ Floor(t, w) % w = 0
      /\ t < Floor(t, w) + w
  BY FloorIsBucket
<1>2. ASSUME Floor(t, w) < m
      PROVE  FALSE
  <2>1. Floor(t, w) + w <= m
    BY <1>1, <1>2, NextMultiple
  <2> QED
    BY <1>1, <2>1
<1> QED
  BY <1>1, <1>2

LEMMA FloorIsOnly ==
  ASSUME NEW t \in Nat, NEW w \in Nat \ {0}, NEW m \in Nat,
         m % w = 0, m <= t, t < m + w
  PROVE  Floor(t, w) = m
<1>1. /\ Floor(t, w) \in Nat /\ Floor(t, w) % w = 0
      /\ Floor(t, w) <= t
  BY FloorIsBucket
<1>2. m <= Floor(t, w)
  BY FloorIsLast
<1>3. ASSUME m < Floor(t, w)
      PROVE  FALSE
  <2>1. m + w <= Floor(t, w)
    BY <1>1, <1>3, NextMultiple
  <2> QED
    BY <1>1, <2>1
<1> QED
  BY <1>1, <1>2, <1>3

------------------------------------------------------------------------------
(* The rollups *)

\* What a row and a captured sample have in common, and the samples of the rows.
Samples == {[seq |-> q.seq, at |-> q.at] : q \in rows}

InTime(r, start, t) == start <= t.at /\ t.at < start + Width[r]

\* Every sample has its number for itself, and every row is one of a sample.
Recorded ==
  /\ \A t \in taken : t.seq \in 1..last /\ t.at <= peak
  /\ \A t, u \in taken : t.seq = u.seq => t = u
  /\ Samples \subseteq taken
  /\ late \subseteq 1..last

\* A pass ends where a bucket ends, and never ahead of the clock.
Passed ==
  /\ clock <= peak
  /\ \A r \in Resolutions : processed[r] % Width[r] = 0 /\ processed[r] <= peak

\* A bucket lies behind the pass that made it, and none starts where another does.
Bucketed ==
  \A r \in Resolutions : \A b \in rollups[r] :
    /\ b.start % Width[r] = 0 /\ b.start + Width[r] <= processed[r]
    /\ \A c \in rollups[r] : c.start = b.start => c = b

CountsExactly(r, b) ==
  /\ \A x \in b.seqs : \E t \in taken : t.seq = x /\ InTime(r, b.start, t)
  /\ \A t \in taken : t.seq \notin late /\ InTime(r, b.start, t) => t.seq \in b.seqs

Exact == \A r \in Resolutions : \A b \in rollups[r] : CountsExactly(r, b)

\* What no pass of a resolution has come to is still there as a row.
Unpassed ==
  \A r \in Resolutions : \A t \in taken :
    processed[r] = 0 \/ processed[r] <= t.at => t \in Samples

\* A sample's bucket is gone by its age, with all before it.
Outlived(r, t) ==
  /\ Floor(t.at, Width[r]) + Keep[r] < peak
  /\ \A b \in rollups[r] : t.at < b.start

\* What a pass has come to is counted, or its bucket is gone by its age.
Counted ==
  \A r \in Resolutions : \A t \in taken :
    t.seq \notin late /\ t.at < processed[r] =>
      (\E b \in rollups[r] : t.seq \in b.seqs) \/ Outlived(r, t)

RInv == Recorded /\ Passed /\ Bucketed /\ Exact /\ Unpassed /\ Counted

Times == [seq : Nat, at : Nat]

LEMMA RollTypes ==
  ASSUME TelemetryTypeOK
  PROVE  /\ clock \in Nat /\ peak \in Nat /\ last \in Nat
         /\ taken \subseteq Times /\ Samples \subseteq Times
         /\ \A r \in Resolutions :
              /\ Width[r] \in Nat \ {0} /\ Keep[r] \in Nat /\ processed[r] \in Nat
              /\ \A b \in rollups[r] : b.start \in Nat /\ b.seqs \subseteq Nat
<1>1. \A q \in rows : q.seq \in Nat /\ q.at \in Nat
  BY DEF TelemetryTypeOK, Rows
<1>2. Samples \subseteq Times
  BY <1>1 DEF Samples, Times
<1>3. ASSUME NEW r \in Resolutions
      PROVE  /\ Width[r] \in Nat \ {0} /\ Keep[r] \in Nat /\ processed[r] \in Nat
             /\ \A b \in rollups[r] : b.start \in Nat /\ b.seqs \subseteq Nat
  BY TelemetryAssumption DEF TelemetryTypeOK
<1> QED
  BY <1>2, <1>3 DEF TelemetryTypeOK, Times

\* The bucket of a resolution counts the samples of the rows in its time.
LEMMA BucketMember ==
  ASSUME NEW r, NEW start
  PROVE  \A x : x \in InBucket(r, start) <=>
                  \E t \in Samples : t.seq = x /\ InTime(r, start, t)
<1>1. ASSUME NEW x, NEW q \in rows, q.seq = x, start <= q.at, q.at < start + Width[r]
      PROVE  \E t \in Samples : t.seq = x /\ InTime(r, start, t)
  <2>1. [seq |-> q.seq, at |-> q.at] \in Samples
    BY DEF Samples
  <2> QED
    BY <1>1, <2>1 DEF InTime
<1>2. ASSUME NEW x, NEW t \in Samples, t.seq = x, InTime(r, start, t)
      PROVE  \E q \in rows : q.seq = x /\ start <= q.at /\ q.at < start + Width[r]
  BY <1>2 DEF Samples, InTime
<1> QED
  BY <1>1, <1>2 DEF InBucket

\* The sync thread changes nothing of a sample.
LEMMA SyncKeepsSamples ==
  ASSUME IInv, SyncThread \/ NoAnswer
  PROVE  Samples' = Samples /\ UNCHANGED <<time, last, processed, rollups, taken, late>>
<1>1. UNCHANGED <<time, last, processed, rollups, taken, late>>
  BY DEF SyncThread, NoAnswer, ReserveBatch, SendBatch, TakeAnswer, ReleaseBatch, MarkBatchSynced
<1>2. \A q \in rows : q \in Rows
  BY DEF IInv, TelemetryTypeOK
<1> DEFINE Alike(n, q) == n.seq = q.seq /\ n.at = q.at
<1>3. ASSUME NEW q \in rows, NEW b \in Nat, NEW f \in BOOLEAN
      PROVE  /\ Alike([q EXCEPT !.batch = b], q)
             /\ Alike([q EXCEPT !.error = f], q)
             /\ Alike([q EXCEPT !.synced = TRUE, !.error = FALSE], q)
             /\ Alike(q, q)
  <2>1. q \in Rows
    BY <1>2
  <2>2. /\ [q EXCEPT !.batch = b].at = q.at
        /\ [q EXCEPT !.error = f].at = q.at
        /\ [q EXCEPT !.synced = TRUE, !.error = FALSE].at = q.at
    BY <2>1 DEF Rows
  <2>3. /\ [q EXCEPT !.batch = b].seq = q.seq
        /\ [q EXCEPT !.error = f].seq = q.seq
        /\ [q EXCEPT !.synced = TRUE, !.error = FALSE].seq = q.seq
    BY <2>1 DEF Rows
  <2> QED
    BY <2>2, <2>3, Zenon
<1>4. ASSUME UNCHANGED rows
      PROVE  Samples' = Samples
  BY <1>4, Zenon DEF Samples
<1> HIDE DEF Alike
<1>0. ASSUME \A n \in rows' : \E q \in rows : Alike(n, q),
             \A q \in rows : \E n \in rows' : Alike(n, q)
      PROVE  Samples' = Samples
  <2>1. ASSUME NEW n, NEW q, Alike(n, q)
        PROVE  [seq |-> n.seq, at |-> n.at] = [seq |-> q.seq, at |-> q.at]
    BY <2>1 DEF Alike
  <2>2. Samples' \subseteq Samples
    BY <1>0, <2>1, Zenon DEF Samples
  <2>3. Samples \subseteq Samples'
    <3>1. ASSUME NEW q \in rows
          PROVE  [seq |-> q.seq, at |-> q.at] \in Samples'
      <4>1. PICK n \in rows' : Alike(n, q)
        BY <1>0
      <4>2. [seq |-> n.seq, at |-> n.at] \in Samples'
        BY DEF Samples
      <4> QED
        BY <2>1, <4>1, <4>2
    <3> QED
      BY <3>1 DEF Samples
  <2> QED
    BY <2>2, <2>3
<1>5. ASSUME NEW S, NEW b \in Nat, rows' = {IF q \in S THEN [q EXCEPT !.batch = b] ELSE q : q \in rows}
      PROVE  Samples' = Samples
  <2>1. ASSUME NEW n \in rows'
        PROVE  \E q \in rows : Alike(n, q)
    <3>1. PICK q \in rows : n = q \/ n = [q EXCEPT !.batch = b]
      BY <1>5
    <3>2. Alike(q, q) /\ Alike([q EXCEPT !.batch = b], q)
      BY <1>3
    <3> QED
      BY <3>1, <3>2
  <2>2. ASSUME NEW q \in rows
        PROVE  \E n \in rows' : Alike(n, q)
    <3>1. q \in rows' \/ [q EXCEPT !.batch = b] \in rows'
      BY <1>5
    <3>2. Alike(q, q) /\ Alike([q EXCEPT !.batch = b], q)
      BY <1>3
    <3> QED
      BY <3>1, <3>2
  <2> QED
    BY <1>0, <2>1, <2>2
<1>6. ASSUME NEW f \in BOOLEAN, rows' = Attempted(f)
      PROVE  Samples' = Samples
  <2>1. ASSUME NEW n \in rows'
        PROVE  \E q \in rows : Alike(n, q)
    <3>1. PICK q \in rows : n = q \/ n = [q EXCEPT !.error = f]
      BY <1>6 DEF Attempted
    <3>2. Alike(q, q) /\ Alike([q EXCEPT !.error = f], q)
      BY <1>3
    <3> QED
      BY <3>1, <3>2
  <2>2. ASSUME NEW q \in rows
        PROVE  \E n \in rows' : Alike(n, q)
    <3>1. q \in rows' \/ [q EXCEPT !.error = f] \in rows'
      BY <1>6 DEF Attempted
    <3>2. Alike(q, q) /\ Alike([q EXCEPT !.error = f], q)
      BY <1>3
    <3> QED
      BY <3>1, <3>2
  <2> QED
    BY <1>0, <2>1, <2>2
<1>7. ASSUME rows' = Marked
      PROVE  Samples' = Samples
  <2>1. ASSUME NEW n \in rows'
        PROVE  \E q \in rows : Alike(n, q)
    <3>1. PICK q \in rows : n = q \/ n = [q EXCEPT !.synced = TRUE, !.error = FALSE]
      BY <1>7 DEF Marked
    <3>2. Alike(q, q) /\ Alike([q EXCEPT !.synced = TRUE, !.error = FALSE], q)
      BY <1>3
    <3> QED
      BY <3>1, <3>2
  <2>2. ASSUME NEW q \in rows
        PROVE  \E n \in rows' : Alike(n, q)
    <3>1. q \in rows' \/ [q EXCEPT !.synced = TRUE, !.error = FALSE] \in rows'
      BY <1>7 DEF Marked
    <3>2. Alike(q, q) /\ Alike([q EXCEPT !.synced = TRUE, !.error = FALSE], q)
      BY <1>3
    <3> QED
      BY <3>1, <3>2
  <2> QED
    BY <1>0, <2>1, <2>2
<1>8. CASE ReserveBatch
  <2>1. batches + 1 \in Nat
    BY DEF IInv, TelemetryTypeOK
  <2>2. \/ UNCHANGED rows
        \/ rows' = {IF q \in NewBatch THEN [q EXCEPT !.batch = batches + 1] ELSE q : q \in rows}
    BY <1>8 DEF ReserveBatch
  <2> QED
    BY <1>1, <1>4, <1>5, <2>1, <2>2
<1>9. CASE SendBatch \/ TakeAnswer \/ NoAnswer
  <2>1. UNCHANGED rows \/ rows' = Attempted(TRUE) \/ rows' = Attempted(FALSE)
    BY <1>9 DEF SendBatch, TakeAnswer, NoAnswer, TooLarge
  <2> QED
    BY <1>1, <1>4, <1>6, <2>1
<1>10. CASE ReleaseBatch
  <2>1. rows' = {IF q \in OfBatch(sender.batch) THEN [q EXCEPT !.batch = 0] ELSE q : q \in rows}
    BY <1>10 DEF ReleaseBatch
  <2> QED
    BY <1>1, <1>5, <2>1
<1>11. CASE MarkBatchSynced
  BY <1>1, <1>7, <1>11 DEF MarkBatchSynced, Marked
<1> QED
  BY <1>8, <1>9, <1>10, <1>11 DEF SyncThread

LEMMA ExactIsExact ==
  ASSUME Recorded, Exact
  PROVE  RollupsExact
<1>1. ASSUME NEW r \in Resolutions, NEW b \in rollups[r]
      PROVE  /\ b.seqs \subseteq {t.seq : t \in taken}
             /\ {t.seq : t \in {x \in taken : b.start <= x.at /\ x.at < b.start + Width[r]}} \ late
                  = b.seqs \ late
  <2>1. CountsExactly(r, b)
    BY DEF Exact
  <2>2. b.seqs \subseteq {t.seq : t \in taken}
    BY <2>1 DEF CountsExactly
  <2>3. ASSUME NEW t \in taken, b.start <= t.at, t.at < b.start + Width[r], t.seq \notin late
        PROVE  t.seq \in b.seqs
    BY <2>1, <2>3 DEF CountsExactly, InTime
  <2>4. ASSUME NEW x \in b.seqs, x \notin late
        PROVE  \E t \in taken : t.seq = x /\ b.start <= t.at /\ t.at < b.start + Width[r]
    BY <2>1, <2>4 DEF CountsExactly, InTime
  <2> QED
    BY <2>2, <2>3, <2>4
<1> QED
  BY <1>1 DEF RollupsExact

LEMMA CountedLeavesNoHole ==
  ASSUME TelemetryTypeOK, Unpassed, Counted
  PROVE  NoSilentHole
<1>1. ASSUME NEW t \in taken, t.seq \notin late, NEW r \in Resolutions
      PROVE  \/ t.seq \in {q.seq : q \in rows}
             \/ \E b \in rollups[r] : t.seq \in b.seqs
             \/ processed[r] > t.at /\ Floor(t.at, Width[r]) + Keep[r] < peak
  <2>1. t.at \in Nat /\ processed[r] \in Nat
    BY RollTypes DEF Times
  <2>2. CASE t \in Samples
    BY <2>2 DEF Samples
  <2>3. CASE t \notin Samples
    <3>1. t.at < processed[r]
      BY <2>1, <2>3 DEF Unpassed
    <3> QED
      BY <1>1, <2>1, <3>1 DEF Counted, Outlived
  <2> QED
    BY <2>2, <2>3
<1> QED
  BY <1>1 DEF NoSilentHole

\* A step that leaves the samples and the rollups alone, while time may pass.
LEMMA TimePasses ==
  ASSUME TelemetryTypeOK, TelemetryTypeOK', RInv, clock' <= peak', peak <= peak', Samples' = Samples,
         UNCHANGED <<last, processed, rollups, taken, late>>
  PROVE  RInv'
<1>1. peak \in Nat /\ peak' \in Nat
  BY DEF TelemetryTypeOK
<1>2. Recorded'
  <2>1. \A t \in taken : t.at \in Nat
    BY RollTypes DEF Times
  <2> QED
    BY <1>1, <2>1 DEF RInv, Recorded
<1>3. Passed'
  BY <1>1, RollTypes DEF RInv, Passed
<1>4. Bucketed' /\ Exact' /\ Unpassed'
  BY DEF RInv, Bucketed, Exact, CountsExactly, InTime, Unpassed
<1>5. Counted'
  <2>1. ASSUME NEW r \in Resolutions, NEW t \in taken, Outlived(r, t)
        PROVE  Outlived(r, t)'
    <3>1. t.at \in Nat /\ Width[r] \in Nat \ {0} /\ Keep[r] \in Nat
      BY RollTypes DEF Times
    <3>2. Floor(t.at, Width[r]) \in Nat
      BY <3>1, FloorType
    <3> QED
      BY <1>1, <2>1, <3>1, <3>2 DEF Outlived
  <2> QED
    BY <2>1 DEF RInv, Counted
<1> QED
  BY <1>2, <1>3, <1>4, <1>5 DEF RInv

\* A sample that is not late is ahead of every pass.
LEMMA CaptureIsAhead ==
  ASSUME TelemetryTypeOK, Passed, NEW r \in Resolutions, ~(clock < Floor(peak, Width[r]))
  PROVE  processed[r] <= clock
<1>1. /\ clock \in Nat /\ peak \in Nat /\ processed[r] \in Nat /\ Width[r] \in Nat \ {0}
      /\ processed[r] % Width[r] = 0 /\ processed[r] <= peak
  BY RollTypes DEF Passed
<1>2. processed[r] <= Floor(peak, Width[r]) /\ Floor(peak, Width[r]) \in Nat
  BY <1>1, FloorIsLast, FloorType
<1> QED
  BY <1>1, <1>2

LEMMA CaptureRolls ==
  ASSUME IInv, RInv, Capture
  PROVE  RInv'
<1> DEFINE t0 == [seq |-> last + 1, at |-> clock]
<1>1. /\ UNCHANGED <<clock, peak, processed, rollups>>
      /\ clock \in Nat /\ peak \in Nat /\ last \in Nat /\ clock <= peak
      /\ TelemetryTypeOK
  BY DEF Capture, time, IInv, TelemetryTypeOK, RInv, Passed
<1>2. CASE UNCHANGED <<rows, last, taken, late>>
  <2>1. Samples' = Samples
    BY <1>2, Zenon DEF Samples
  <2>2. Recorded' /\ Passed' /\ Bucketed' /\ Unpassed'
    BY <1>1, <1>2, <2>1 DEF RInv, Recorded, Passed, Bucketed, Unpassed
  <2>3. Exact'
    BY <1>1, <1>2 DEF RInv, Exact, CountsExactly, InTime
  <2>4. Counted'
    BY <1>1, <1>2 DEF RInv, Counted, Outlived
  <2> QED
    BY <2>2, <2>3, <2>4 DEF RInv
<1>3. CASE ~UNCHANGED <<rows, last, taken, late>>
  <2>1. /\ last' = last + 1
        /\ rows' = rows \cup {[seq |-> last', at |-> clock, batch |-> 0,
                               synced |-> FALSE, error |-> FALSE]}
        /\ taken' = taken \cup {t0}
        /\ late' = IF \E r \in Resolutions : clock < Floor(peak, Width[r]) THEN late \cup {last'} ELSE late
    BY <1>3 DEF Capture
  <2>2. t0.seq = last + 1 /\ t0.at = clock
    OBVIOUS
  <2>3. Samples' = Samples \cup {t0}
    <3> DEFINE new == [seq |-> last', at |-> clock, batch |-> 0, synced |-> FALSE, error |-> FALSE]
    <3>1. rows' = rows \cup {new} /\ t0 = [seq |-> new.seq, at |-> new.at]
      BY <2>1
    <3> HIDE DEF new, t0
    <3> QED
      BY <3>1 DEF Samples
  <2> HIDE DEF t0
  <2>4. \A t \in taken : t.seq \in 1..last /\ t.seq # t0.seq
    BY <1>1, <2>2 DEF RInv, Recorded
  <2>5. late \subseteq late' /\ late' \subseteq late \cup {t0.seq} /\ last + 1 \notin late
    BY <1>1, <2>1, <2>2 DEF RInv, Recorded
  <2>6. ASSUME NEW r \in Resolutions, t0.seq \notin late'
        PROVE  processed[r] <= t0.at
    <3>1. ~(clock < Floor(peak, Width[r]))
      BY <2>1, <2>2, <2>6
    <3> QED
      BY <1>1, <2>2, <3>1, CaptureIsAhead DEF RInv
  <2>7. Recorded'
    <3>1. \A t \in taken' : t.seq \in 1..last' /\ t.at <= peak'
      BY <1>1, <2>1, <2>2 DEF RInv, Recorded
    <3>2. \A t, u \in taken' : t.seq = u.seq => t = u
      BY <2>1, <2>4 DEF RInv, Recorded
    <3>3. Samples' \subseteq taken' /\ late' \subseteq 1..last'
      BY <1>1, <2>1, <2>2, <2>3, <2>5 DEF RInv, Recorded
    <3> QED
      BY <3>1, <3>2, <3>3 DEF Recorded
  <2>8. Passed' /\ Bucketed'
    BY <1>1 DEF RInv, Passed, Bucketed
  <2>9. Exact'
    <3>1. ASSUME NEW r \in Resolutions, NEW b \in rollups[r]
          PROVE  CountsExactly(r, b)'
      <4>1. CountsExactly(r, b)
        BY DEF RInv, Exact
      <4>2. ASSUME NEW x \in b.seqs
            PROVE  \E t \in taken' : t.seq = x /\ InTime(r, b.start, t)
        BY <2>1, <4>1 DEF CountsExactly
      <4>3. ASSUME NEW t \in taken', t.seq \notin late', InTime(r, b.start, t)
            PROVE  t.seq \in b.seqs
        <5>1. CASE t \in taken
          BY <2>5, <4>1, <4>3, <5>1 DEF CountsExactly
        <5>2. CASE t = t0
          <6>1. processed[r] <= t0.at
            BY <2>6, <4>3, <5>2
          <6>2. b.start + Width[r] <= processed[r]
            BY DEF RInv, Bucketed
          <6>3. b.start \in Nat /\ Width[r] \in Nat /\ processed[r] \in Nat /\ t0.at \in Nat
            BY <1>1, <2>2, RollTypes
          <6> QED
            BY <4>3, <5>2, <6>1, <6>2, <6>3 DEF InTime
        <5> QED
          BY <2>1, <5>1, <5>2
      <4> QED
        BY <4>2, <4>3 DEF CountsExactly, InTime
    <3> QED
      BY <1>1, <3>1 DEF Exact
  <2>10. Unpassed'
    BY <1>1, <2>1, <2>3 DEF RInv, Unpassed
  <2>11. Counted'
    <3>1. ASSUME NEW r \in Resolutions, NEW t \in taken', t.seq \notin late', t.at < processed[r]
          PROVE  (\E b \in rollups[r] : t.seq \in b.seqs) \/ Outlived(r, t)
      <4>1. CASE t \in taken
        BY <2>5, <3>1, <4>1 DEF RInv, Counted
      <4>2. CASE t = t0
        <5>1. processed[r] <= t0.at /\ processed[r] \in Nat /\ t0.at \in Nat
          BY <1>1, <2>2, <2>6, <3>1, <4>2, RollTypes
        <5> QED
          BY <3>1, <4>2, <5>1
      <4> QED
        BY <2>1, <4>1, <4>2
    <3> QED
      BY <1>1, <3>1 DEF Counted, Outlived
  <2> QED
    BY <2>7, <2>8, <2>9, <2>10, <2>11 DEF RInv
<1> QED
  BY <1>2, <1>3

\* Where a pass begins: at a bucket, not ahead of a sample that it has to find.
LEMMA CursorType ==
  ASSUME TelemetryTypeOK, RInv, NEW r \in Resolutions, Due(r)
  PROVE  /\ Cursor(r) \in Nat /\ Cursor(r) % Width[r] = 0
         /\ processed[r] <= Cursor(r)
         /\ \A t \in Samples : processed[r] = 0 \/ processed[r] <= t.at => Cursor(r) <= t.at
<1>1. /\ processed[r] \in Nat /\ Width[r] \in Nat \ {0} /\ processed[r] % Width[r] = 0
      /\ Samples \subseteq Times
  BY RollTypes DEF RInv, Passed
<1>2. CASE processed[r] # 0
  BY <1>1, <1>2 DEF Cursor
<1>3. CASE processed[r] = 0
  <2> DEFINE ats == {q.at : q \in rows}
  <2>1. ats \subseteq Nat /\ ats # {}
    BY <1>3 DEF Due, TelemetryTypeOK, Rows
  <2>2. PICK x \in ats : \A y \in ats : x <= y
    BY <2>1, HasLeast
  <2>3. Least(ats) \in Nat /\ \A y \in ats : Least(ats) <= y
    BY <2>1, <2>2 DEF Least
  <2>4. /\ Floor(Least(ats), Width[r]) \in Nat
        /\ Floor(Least(ats), Width[r]) % Width[r] = 0
        /\ Floor(Least(ats), Width[r]) <= Least(ats)
    BY <1>1, <2>3, FloorIsBucket
  <2>5. \A t \in Samples : t.at \in ats
    BY DEF Samples
  <2>6. Cursor(r) = Floor(Least(ats), Width[r])
    BY <1>3 DEF Cursor
  <2> HIDE DEF ats
  <2>7. ASSUME NEW t \in Samples
        PROVE  Cursor(r) <= t.at
    <3>1. t.at \in Nat /\ Least(ats) <= t.at
      BY <1>1, <2>3, <2>5 DEF Times
    <3> QED
      BY <2>3, <2>4, <2>6, <3>1
  <2> QED
    BY <1>1, <1>3, <2>4, <2>6, <2>7
<1> QED
  BY <1>2, <1>3

LEMMA PassEndType ==
  ASSUME TelemetryTypeOK, RInv, NEW r \in Resolutions, Due(r)
  PROVE  /\ PassEnd(r) \in Nat /\ PassEnd(r) % Width[r] = 0
         /\ Cursor(r) < PassEnd(r) /\ PassEnd(r) <= clock
<1>1. /\ clock \in Nat /\ Width[r] \in Nat \ {0} /\ MaxBuckets \in Nat \ {0}
      /\ Cursor(r) \in Nat /\ Cursor(r) % Width[r] = 0
  BY RollTypes, CursorType, TelemetryAssumption
<1> DEFINE closed == Floor(clock, Width[r])
           most == Cursor(r) + MaxBuckets * Width[r]
<1>2. closed \in Nat /\ closed % Width[r] = 0 /\ closed <= clock
  BY <1>1, FloorIsBucket
<1>3. most % Width[r] = 0
  BY <1>1, MultipleAhead
<1>4. most \in Nat /\ Cursor(r) < most
  <2>1. MaxBuckets * Width[r] \in Nat \ {0}
    BY <1>1
  <2> QED
    BY <1>1, <2>1
<1>5. Cursor(r) < closed
  BY DEF Due
<1>6. PassEnd(r) = IF closed < most THEN closed ELSE most
  BY DEF PassEnd
<1> HIDE DEF closed, most
<1> QED
  BY <1>1, <1>2, <1>3, <1>4, <1>5, <1>6

LEMMA NewBucketMember ==
  ASSUME NEW r \in Resolutions
  PROVE  /\ \A b \in NewBuckets(r) :
              /\ b.start \in Cursor(r)..(PassEnd(r) - 1)
              /\ b.start % Width[r] = 0
              /\ b.seqs = InBucket(r, b.start)
         /\ \A x \in Cursor(r)..(PassEnd(r) - 1) :
              x % Width[r] = 0 /\ InBucket(r, x) # {} =>
                \/ \E old \in rollups[r] : old.start = x
                \/ \E b \in NewBuckets(r) : b.start = x /\ b.seqs = InBucket(r, x)
<1>1. ASSUME NEW b \in NewBuckets(r)
      PROVE  /\ b.start \in Cursor(r)..(PassEnd(r) - 1)
             /\ b.start % Width[r] = 0
             /\ b.seqs = InBucket(r, b.start)
  <2>1. PICK x \in Cursor(r)..(PassEnd(r) - 1) :
          x % Width[r] = 0 /\ b = [start |-> x, seqs |-> InBucket(r, x)]
    BY DEF NewBuckets
  <2>2. b.start = x /\ b.seqs = InBucket(r, x)
    BY <2>1
  <2> QED
    BY <2>1, <2>2
<1>2. ASSUME NEW x \in Cursor(r)..(PassEnd(r) - 1), x % Width[r] = 0, InBucket(r, x) # {},
             ~ \E old \in rollups[r] : old.start = x
      PROVE  \E b \in NewBuckets(r) : b.start = x /\ b.seqs = InBucket(r, x)
  <2>1. [start |-> x, seqs |-> InBucket(r, x)] \in NewBuckets(r)
    BY <1>2 DEF NewBuckets
  <2> QED
    BY <2>1
<1> QED
  BY <1>1, <1>2

LEMMA BuildRolls ==
  ASSUME IInv, RInv, BuildRollups
  PROVE  RInv'
<1>1. /\ UNCHANGED <<clock, peak, rows, last, taken, late>>
      /\ TelemetryTypeOK /\ clock \in Nat /\ peak \in Nat /\ clock <= peak
      /\ taken \subseteq Times
      /\ Samples' = Samples /\ Samples \subseteq taken
  BY RollTypes DEF BuildRollups, time, IInv, RInv, Passed, Recorded, Samples
<1>2. ASSUME NEW r \in Resolutions
      PROVE  /\ Due(r) => /\ rollups'[r] = rollups[r] \cup NewBuckets(r)
                          /\ processed'[r] = PassEnd(r)
             /\ ~Due(r) => rollups'[r] = rollups[r] /\ processed'[r] = processed[r]
  BY DEF BuildRollups
<1>3. ASSUME NEW r \in Resolutions
      PROVE  /\ Width[r] \in Nat \ {0} /\ processed[r] \in Nat /\ processed'[r] \in Nat
             /\ processed[r] <= processed'[r]
             /\ processed'[r] % Width[r] = 0 /\ processed'[r] <= peak
             /\ Due(r) => processed'[r] # 0
  <2>1. /\ Width[r] \in Nat \ {0} /\ processed[r] \in Nat
        /\ processed[r] % Width[r] = 0 /\ processed[r] <= peak
    BY <1>1, RollTypes DEF RInv, Passed
  <2>2. CASE Due(r)
    BY <1>1, <1>2, <2>1, <2>2, CursorType, PassEndType
  <2>3. CASE ~Due(r)
    BY <1>2, <2>1, <2>3
  <2> QED
    BY <2>2, <2>3
<1>4. Recorded'
  BY <1>1 DEF RInv, Recorded
<1>5. Passed'
  BY <1>1, <1>3 DEF Passed
<1>6. Bucketed'
  <2>1. ASSUME NEW r \in Resolutions, NEW b \in rollups'[r]
        PROVE  /\ b.start % Width[r] = 0 /\ b.start + Width[r] <= processed'[r]
               /\ Due(r) /\ b \in NewBuckets(r) => ~ \E old \in rollups[r] : old.start = b.start
    <3>1. CASE b \in rollups[r]
      <4>1. b.start % Width[r] = 0 /\ b.start + Width[r] <= processed[r] /\ b.start \in Nat
        BY <1>1, <3>1, RollTypes DEF RInv, Bucketed
      <4>2. Due(r) => processed[r] <= Cursor(r) /\ Cursor(r) \in Nat /\ PassEnd(r) \in Nat
        BY <1>1, CursorType, PassEndType
      <4>3. Due(r) => b \notin NewBuckets(r)
        BY <1>3, <4>1, <4>2, NewBucketMember
      <4> QED
        BY <1>3, <4>1, <4>3
    <3>2. CASE Due(r) /\ b \in NewBuckets(r)
      <4>1. b.start \in Cursor(r)..(PassEnd(r) - 1) /\ b.start % Width[r] = 0
        BY <3>2, NewBucketMember
      <4>2. /\ Cursor(r) \in Nat /\ PassEnd(r) \in Nat /\ PassEnd(r) % Width[r] = 0
            /\ processed'[r] = PassEnd(r)
        BY <1>1, <1>2, <3>2, CursorType, PassEndType
      <4>3. b.start \in Nat /\ b.start < PassEnd(r)
        BY <4>1, <4>2
      <4>4. b.start + Width[r] <= PassEnd(r)
        BY <1>3, <4>1, <4>2, <4>3, NextMultiple
      <4>5. ASSUME NEW old \in rollups[r]
            PROVE  old.start # b.start
        <5>1. old.start + Width[r] <= processed[r] /\ old.start \in Nat
          BY <1>1, RollTypes DEF RInv, Bucketed
        <5>2. processed[r] <= Cursor(r)
          BY <1>1, <3>2, CursorType
        <5> QED
          BY <1>3, <4>1, <4>2, <4>3, <5>1, <5>2
      <4> QED
        BY <4>1, <4>2, <4>4, <4>5
    <3> QED
      BY <1>2, <3>1, <3>2
  <2>2. ASSUME NEW r \in Resolutions, NEW b \in rollups'[r], NEW c \in rollups'[r], b.start = c.start
        PROVE  b = c
    <3>1. CASE b \in rollups[r] /\ c \in rollups[r]
      BY <2>2, <3>1 DEF RInv, Bucketed
    <3>2. CASE Due(r) /\ b \in NewBuckets(r) /\ c \in NewBuckets(r)
      BY <2>2, <3>2 DEF NewBuckets
    <3> QED
      BY <1>2, <2>1, <2>2, <3>1, <3>2
  <2> QED
    BY <2>1, <2>2 DEF Bucketed
<1>7. Exact'
  <2>1. ASSUME NEW r \in Resolutions, NEW b \in rollups'[r]
        PROVE  CountsExactly(r, b)
    <3>1. CASE b \in rollups[r]
      BY <3>1 DEF RInv, Exact
    <3>2. CASE Due(r) /\ b \in NewBuckets(r)
      <4>1. b.start \in Cursor(r)..(PassEnd(r) - 1) /\ b.seqs = InBucket(r, b.start)
        BY <3>2, NewBucketMember
      <4>2. Cursor(r) \in Nat /\ PassEnd(r) \in Nat /\ processed[r] <= Cursor(r)
        BY <1>1, <3>2, CursorType, PassEndType
      <4>3. \A x \in b.seqs : \E t \in taken : t.seq = x /\ InTime(r, b.start, t)
        BY <1>1, <4>1, BucketMember
      <4>4. ASSUME NEW t \in taken, InTime(r, b.start, t)
            PROVE  t.seq \in b.seqs
        <5>1. t.at \in Nat /\ processed[r] \in Nat /\ b.start \in Nat
          BY <1>1, <1>3, <4>1, <4>2 DEF Times
        <5>2. processed[r] <= t.at
          BY <4>1, <4>2, <4>4, <5>1 DEF InTime
        <5>3. t \in Samples
          BY <5>2 DEF RInv, Unpassed
        <5> QED
          BY <4>1, <4>4, <5>3, BucketMember
      <4> QED
        BY <4>3, <4>4 DEF CountsExactly
    <3> QED
      BY <1>2, <3>1, <3>2
  <2> QED
    BY <1>1, <2>1 DEF Exact, CountsExactly, InTime
<1>8. Unpassed'
  <2>1. ASSUME NEW r \in Resolutions, NEW t \in taken, processed'[r] = 0 \/ processed'[r] <= t.at
        PROVE  t \in Samples
    <3>1. t.at \in Nat
      BY <1>1 DEF Times
    <3>2. processed[r] = 0 \/ processed[r] <= t.at
      BY <1>3, <2>1, <3>1
    <3> QED
      BY <3>2 DEF RInv, Unpassed
  <2> QED
    BY <1>1, <2>1 DEF Unpassed
<1>9. Counted'
  <2>1. ASSUME NEW r \in Resolutions, NEW t \in taken, t.seq \notin late, t.at < processed'[r]
        PROVE  (\E b \in rollups'[r] : t.seq \in b.seqs) \/ Outlived(r, t)'
    <3>1. t.at \in Nat
      BY <1>1 DEF Times
    <3>2. CASE t.at < processed[r]
      <4>1. CASE \E b \in rollups[r] : t.seq \in b.seqs
        BY <1>2, <4>1
      <4>2. CASE Outlived(r, t)
        <5>1. ASSUME NEW b \in rollups'[r]
              PROVE  t.at < b.start
          <6>1. CASE b \in rollups[r]
            BY <4>2, <6>1 DEF Outlived
          <6>2. CASE Due(r) /\ b \in NewBuckets(r)
            <7>1. /\ b.start \in Cursor(r)..(PassEnd(r) - 1) /\ processed[r] <= Cursor(r)
                  /\ Cursor(r) \in Nat /\ PassEnd(r) \in Nat
              BY <1>1, <6>2, NewBucketMember, CursorType, PassEndType
            <7> QED
              BY <1>3, <3>1, <3>2, <7>1
          <6> QED
            BY <1>2, <6>1, <6>2
        <5> QED
          BY <1>1, <4>2, <5>1 DEF Outlived
      <4> QED
        BY <2>1, <3>2, <4>1, <4>2 DEF RInv, Counted
    <3>3. CASE ~(t.at < processed[r])
      <4>1. processed[r] <= t.at
        BY <1>3, <3>1, <3>3
      <4>2. Due(r)
        BY <1>2, <2>1, <3>3
      <4>3. t \in Samples
        BY <4>1 DEF RInv, Unpassed
      <4>4. /\ Cursor(r) \in Nat /\ Cursor(r) % Width[r] = 0 /\ Cursor(r) <= t.at
            /\ PassEnd(r) \in Nat /\ processed'[r] = PassEnd(r)
            /\ rollups'[r] = rollups[r] \cup NewBuckets(r)
        BY <1>1, <1>2, <4>1, <4>2, <4>3, CursorType, PassEndType
      <4> DEFINE x == Floor(t.at, Width[r])
      <4>5. x \in Nat /\ x % Width[r] = 0 /\ x <= t.at /\ t.at < x + Width[r] /\ Cursor(r) <= x
        BY <1>3, <3>1, <4>4, FloorIsBucket, FloorIsLast
      <4> HIDE DEF x
      <4>6. x \in Cursor(r)..(PassEnd(r) - 1)
        BY <2>1, <3>1, <4>4, <4>5
      <4>7. t.seq \in InBucket(r, x)
        BY <4>3, <4>5, BucketMember DEF InTime
      <4>8. ASSUME NEW old \in rollups[r], old.start = x
            PROVE  FALSE
        <5>1. x + Width[r] <= processed[r]
          BY <4>8 DEF RInv, Bucketed
        <5> QED
          BY <1>3, <3>1, <4>1, <4>5, <5>1
      <4>9. \E b \in NewBuckets(r) : b.start = x /\ b.seqs = InBucket(r, x)
        BY <4>5, <4>6, <4>7, <4>8, NewBucketMember
      <4> QED
        BY <4>4, <4>7, <4>9
    <3> QED
      BY <3>2, <3>3
  <2> QED
    BY <1>1, <2>1 DEF Counted
<1> QED
  BY <1>4, <1>5, <1>6, <1>7, <1>8, <1>9 DEF RInv

LEMMA PruneRolls ==
  ASSUME IInv, RInv, PruneHistory
  PROVE  RInv'
<1>1. /\ UNCHANGED <<clock, peak, last, processed, taken, late>>
      /\ TelemetryTypeOK /\ clock \in Nat /\ peak \in Nat /\ clock <= peak
      /\ taken \subseteq Times
  BY RollTypes DEF PruneHistory, time, IInv, RInv, Passed
<1>2. rows' = {q \in rows : ~Expired(q)}
  BY DEF PruneHistory
<1>3. \A r \in Resolutions : rollups'[r] = {b \in rollups[r] : b.start + Keep[r] >= clock}
  BY DEF PruneHistory
<1>4. Samples' \subseteq Samples
  BY <1>2 DEF Samples
<1>5. ASSUME NEW t \in Samples, NEW r \in Resolutions, processed[r] = 0 \/ processed[r] <= t.at
      PROVE  t \in Samples'
  <2>1. PICK q \in rows : t = [seq |-> q.seq, at |-> q.at]
    BY DEF Samples
  <2>2. t.at = q.at /\ t.at \in Nat /\ processed[r] \in Nat
    BY <1>1, <2>1, RollTypes DEF Times
  <2>3. ~(processed[r] # 0 /\ q.at < processed[r])
    BY <1>5, <2>2
  <2>4. q \in rows'
    BY <1>2, <2>3 DEF Expired
  <2> QED
    BY <2>1, <2>4 DEF Samples
<1>6. Recorded' /\ Passed'
  BY <1>1, <1>4 DEF RInv, Recorded, Passed
<1>7. Bucketed' /\ Exact'
  <2>1. \A r \in Resolutions : \A b \in rollups'[r] :
          /\ b.start % Width[r] = 0 /\ b.start + Width[r] <= processed[r] /\ CountsExactly(r, b)
          /\ \A c \in rollups'[r] : c.start = b.start => c = b
    BY <1>3 DEF RInv, Bucketed, Exact
  <2> QED
    BY <1>1, <2>1 DEF Bucketed, Exact, CountsExactly, InTime
<1>8. Unpassed'
  BY <1>1, <1>5 DEF RInv, Unpassed
<1>9. Counted'
  <2>1. ASSUME NEW r \in Resolutions, NEW t \in taken, t.seq \notin late, t.at < processed[r]
        PROVE  (\E b \in rollups'[r] : t.seq \in b.seqs) \/ Outlived(r, t)'
    <3>1. CASE Outlived(r, t)
      BY <1>1, <1>3, <3>1 DEF Outlived
    <3>2. ASSUME NEW b \in rollups[r], t.seq \in b.seqs, b \notin rollups'[r]
          PROVE  Outlived(r, t)'
      <4>1. /\ b.start \in Nat /\ Width[r] \in Nat \ {0} /\ Keep[r] \in Nat /\ t.at \in Nat
            /\ b.start % Width[r] = 0
        BY <1>1, RollTypes DEF Times, RInv, Bucketed
      <4>2. b.start + Keep[r] < clock
        BY <1>1, <1>3, <3>2, <4>1
      <4>3. PICK u \in taken : u.seq = t.seq /\ InTime(r, b.start, u)
        BY <3>2 DEF RInv, Exact, CountsExactly
      <4>4. u = t
        BY <4>3 DEF RInv, Recorded
      <4>5. b.start <= t.at /\ t.at < b.start + Width[r]
        BY <2>1, <4>3, <4>4 DEF InTime
      <4>6. Floor(t.at, Width[r]) = b.start
        BY <4>1, <4>5, FloorIsOnly
      <4>7. ASSUME NEW c \in rollups'[r]
            PROVE  t.at < c.start
        <5>1. c \in rollups[r] /\ c.start \in Nat /\ c.start % Width[r] = 0 /\ c.start + Keep[r] >= clock
          BY <1>1, <1>3, RollTypes DEF RInv, Bucketed
        <5>2. b.start < c.start
          BY <1>1, <4>1, <4>2, <5>1
        <5>3. b.start + Width[r] <= c.start
          BY <4>1, <5>1, <5>2, NextMultiple
        <5> QED
          BY <4>1, <4>5, <5>1, <5>3
      <4>8. Floor(t.at, Width[r]) + Keep[r] < peak'
        BY <1>1, <4>1, <4>2, <4>6
      <4> QED
        BY <4>7, <4>8 DEF Outlived
    <3> QED
      BY <2>1, <3>1, <3>2 DEF RInv, Counted
  <2> QED
    BY <1>1, <2>1 DEF Counted
<1> QED
  BY <1>6, <1>7, <1>8, <1>9 DEF RInv

LEMMA RollsStep ==
  ASSUME IInv, IInv', RInv, [TelemetryNext]_telemetryVars
  PROVE  RInv'
<1>1. TelemetryTypeOK /\ TelemetryTypeOK' /\ clock <= peak /\ clock \in Nat /\ peak \in Nat
  BY RollTypes DEF IInv, RInv, Passed
<1>2. peak <= peak
  BY <1>1
<1>3. CASE UNCHANGED <<time, database>>
  <2>1. Samples' = Samples
    BY <1>3, Zenon DEF database, Samples
  <2> QED
    BY <1>1, <1>2, <1>3, <2>1, TimePasses DEF time, database
<1>4. CASE Tick \/ StepBack
  <2>1. UNCHANGED database /\ peak <= peak' /\ clock' <= peak'
    BY <1>1, <1>4 DEF Tick, StepBack
  <2>2. Samples' = Samples
    BY <2>1, Zenon DEF database, Samples
  <2> QED
    BY <1>1, <2>1, <2>2, TimePasses DEF database
<1>5. CASE SyncThread \/ NoAnswer
  <2>1. Samples' = Samples /\ UNCHANGED <<clock, peak, last, processed, rollups, taken, late>>
    BY <1>5, SyncKeepsSamples DEF time
  <2> QED
    BY <1>1, <1>2, <2>1, TimePasses
<1>6. CASE MaintenanceFails \/ Bridge \/ (\E p \in posts : Refuse(p)) \/ Restart
  BY <1>3, <1>6 DEF MaintenanceFails, Bridge, Receive, Refuse, Restart
<1>7. CASE UNCHANGED telemetryVars
  BY <1>3, <1>7 DEF telemetryVars
<1> QED
  BY <1>4, <1>5, <1>6, <1>7, CaptureRolls, BuildRolls, PruneRolls DEF TelemetryNext, CaptureThread

LEMMA RollsStart ==
  ASSUME TelemetryInit
  PROVE  RInv
<1>1. \A r \in Resolutions : processed[r] = 0 /\ rollups[r] = {} /\ Width[r] \in Nat \ {0}
  BY TelemetryAssumption DEF TelemetryInit
<1>2. \A w \in Nat \ {0} : 0 % w = 0
  OBVIOUS
<1>3. Samples = {} /\ taken = {} /\ late = {} /\ clock = 0 /\ peak = 0
  BY DEF TelemetryInit, Samples
<1> QED
  BY <1>1, <1>2, <1>3 DEF RInv, Recorded, Passed, Bucketed, Exact, Unpassed, Counted

\* In every resolution a sample is there, or its bucket counts it, or the bucket has
\* outlived its retention; and a bucket counts nothing else.  For every set of
\* resolutions, width and retention, however many buckets a pass builds, whatever is
\* delivered, pruned, restarted, or set back in time.
THEOREM RollupsStayFaithful == TelemetrySpec => []RollupsFaithful
<1>1. TelemetryInit => RInv
  BY RollsStart
<1>2. IInv /\ IInv' /\ RInv /\ [TelemetryNext]_telemetryVars => RInv'
  BY RollsStep
<1>3. IInv /\ RInv => RollupsFaithful
  BY ExactIsExact, CountedLeavesNoHole DEF IInv, RInv, RollupsFaithful
<1> QED
  BY <1>1, <1>2, <1>3, Invariance, PTL DEF TelemetrySpec

------------------------------------------------------------------------------
(* The history *)

LEMMA HasGreatest ==
  ASSUME NEW S, S \subseteq Nat, S # {}, NEW n \in Nat, \A x \in S : x <= n
  PROVE  /\ Greatest(S) \in S
         /\ \A x \in S : x <= Greatest(S)
<1> DEFINE above == {u \in Nat : \A x \in S : x <= u}
<1>1. above \subseteq Nat /\ above # {}
  OBVIOUS
<1>2. PICK u \in above : \A v \in above : u <= v
  BY <1>1, HasLeast
<1>3. u \in Nat /\ \A x \in S : x <= u
  OBVIOUS
<1>4. u \in S
  <2>1. ASSUME u \notin S
        PROVE  FALSE
    <3>1. \A x \in S : x \in Nat /\ x < u
      BY <1>3, <2>1
    <3>2. PICK x \in S : x \in Nat /\ x < u
      BY <3>1
    <3>3. u - 1 \in Nat /\ \A y \in S : y <= u - 1
      BY <1>3, <3>1, <3>2
    <3>4. u - 1 \in above
      BY <3>3
    <3> HIDE DEF above
    <3> QED
      BY <1>2, <1>3, <3>4
  <2> QED
    BY <2>1
<1> HIDE DEF above
<1> QED
  BY <1>3, <1>4 DEF Greatest

\* As many as there are numbers for them.
LEMMA Numberable ==
  ASSUME NEW S, NEW f \in [S -> Int], NEW lo \in Int, NEW hi \in Int, lo <= hi + 1,
         \A x \in S : f[x] \in lo..hi,
         \A x, y \in S : f[x] = f[y] => x = y
  PROVE  IsFiniteSet(S) /\ Cardinality(S) \in Nat /\ Cardinality(S) <= hi - lo + 1
<1>1. f \in [S -> lo..hi]
  OBVIOUS
<1>2. f \in Injection(S, lo..hi)
  BY <1>1 DEF Injection, IsInjective
<1>3. IsFiniteSet(lo..hi) /\ Cardinality(lo..hi) <= hi - lo + 1 /\ Cardinality(lo..hi) \in Nat
  <2>1. IsFiniteSet(lo..hi) /\ Cardinality(lo..hi) = IF lo > hi THEN 0 ELSE hi - lo + 1
    BY FS_Interval
  <2> QED
    BY <2>1
<1>4. IsFiniteSet(S) /\ Cardinality(S) <= Cardinality(lo..hi)
  BY <1>2, <1>3, FS_Injection
<1>5. Cardinality(S) \in Nat
  BY <1>4, FS_CardinalityType
<1> QED
  BY <1>3, <1>4, <1>5

\* The two extra rows are enough: from the last bucket that begins before the range
\* there are fewer ahead than the limit.
LEMMA LimitIsEnough ==
  ASSUME NEW w \in Nat \ {0}, NEW start \in Nat, NEW end \in Nat, start <= end,
         NEW b \in Nat, b % w = 0, start < b + w, b <= end
  PROVE  /\ SourceLimit(w, start, end) \in Nat
         /\ end \div w - b \div w < SourceLimit(w, start, end)
<1> DEFINE e == end \div w
           i == b \div w
           x == (end - start) + w - 1
           d == x \div w
<1>1. e \in Nat /\ end >= w * e
  BY Division
<1>2. i \in Nat /\ b = w * i
  BY Division
<1>3. x \in Nat
  OBVIOUS
<1>4. d \in Nat /\ x < w * d + w
  BY <1>3, Division
<1>5. SourceLimit(w, start, end) = d + 2
  BY DEF SourceLimit
<1>6. x >= end - b
  OBVIOUS
<1> HIDE DEF e, i, x, d
<1>7. w * e < w * i + w * d + w
  <2>1. w * e \in Nat /\ w * i \in Nat /\ w * d \in Nat
    BY <1>1, <1>2, <1>4
  <2> QED
    BY <1>1, <1>2, <1>3, <1>4, <1>6, <2>1
<1>8. w * i + w * d + w = w * (i + d + 1)
  BY <1>2, <1>4
<1>9. e < i + d + 1
  BY <1>1, <1>2, <1>4, <1>7, <1>8
<1> QED
  BY <1>1, <1>2, <1>4, <1>5, <1>9 DEF e, i

LEMMA QuotientsApart ==
  ASSUME NEW w \in Nat \ {0}, NEW m \in Nat, NEW n \in Nat, m % w = 0, n % w = 0
  PROVE  /\ m \div w \in Nat
         /\ m \div w = n \div w => m = n
<1>1. m \div w \in Nat /\ m = w * (m \div w) + (m % w) /\ n = w * (n \div w) + (n % w)
  BY Division
<1>2. n \div w \in Nat
  BY Division
<1> DEFINE i == m \div w
           j == n \div w
<1>3. w * i \in Nat /\ w * j \in Nat
  BY <1>1, <1>2
<1> HIDE DEF i, j
<1>4. m = w * i /\ n = w * j
  BY <1>1, <1>3 DEF i, j
<1> QED
  BY <1>1, <1>4 DEF i, j

LEMMA QuotientsOrdered ==
  ASSUME NEW w \in Nat \ {0}, NEW m \in Nat, NEW n \in Nat, m <= n
  PROVE  /\ m \div w \in Nat /\ n \div w \in Nat /\ m \div w <= n \div w
         /\ m % w = 0 /\ n % w = 0 /\ m < n => m \div w < n \div w
<1> DEFINE i == m \div w
           j == n \div w
<1>1. i \in Nat /\ m = w * i + (m % w) /\ m % w \in 0..(w - 1)
  BY Division
<1>2. j \in Nat /\ n = w * j + (n % w) /\ n % w \in 0..(w - 1)
  BY Division
<1> HIDE DEF i, j
<1>3. w * i \in Nat /\ w * j \in Nat /\ w * j + w = w * (j + 1)
  BY <1>1, <1>2
<1>4. w * i < w * (j + 1)
  BY <1>1, <1>2, <1>3
<1>5. i < j + 1
  BY <1>1, <1>2, <1>4
<1>6. m % w = 0 /\ n % w = 0 /\ m < n => i # j
  BY <1>1, <1>2, <1>3
<1> QED
  BY <1>1, <1>2, <1>5, <1>6 DEF i, j

\* So the answer is all that was found.
LEMMA RollupAnswered ==
  ASSUME TelemetryTypeOK, Bucketed, NEW r \in Resolutions,
         NEW start \in Nat, NEW end \in Nat, start <= end,
         NEW b \in rollups[r], start < b.start + Width[r], b.start <= end
  PROVE  b \in Answer(r, start, end)
<1> DEFINE w == Width[r]
           found == {c \in rollups[r] : start < c.start + w /\ c.start <= end}
           key == [c \in found |-> c.start]
           ahead == {c \in found : key[b] < key[c]}
           limit == SourceLimit(w, start, end)
           f == [c \in ahead |-> c.start \div w]
           i == b.start \div w
           k == end \div w
<1>1. w \in Nat \ {0} /\ \A c \in rollups[r] : c.start \in Nat /\ c.start % w = 0
  BY RollTypes DEF Bucketed
<1>2. b \in found
  OBVIOUS
<1>3. Answer(r, start, end) = Newest(found, key, limit)
  BY HistoryAssumption DEF Answer, Query, QueryRollup
<1>4. \A c \in ahead : c \in rollups[r] /\ b.start < c.start /\ c.start <= end
  BY <1>2
<1>5. limit \in Nat /\ k - i < limit
  BY <1>1, LimitIsEnough
<1>6. \A c, e \in rollups[r] : c.start = e.start => c = e
  BY DEF Bucketed
<1>7. \A c \in ahead : f[c] = c.start \div w
  OBVIOUS
<1>8. f = [c \in ahead |-> c.start \div w]
  OBVIOUS
<1>9. b \in {c \in found : Cardinality({x \in found : key[c] < key[x]}) < limit}
         <=> Cardinality(ahead) < limit
  BY <1>2
<1> HIDE DEF w, ahead, f, found, key, limit
<1>10. i \in Nat /\ k \in Nat /\ i <= k
  BY <1>1, QuotientsOrdered
<1>11. ASSUME NEW c \in ahead
       PROVE  c.start \div w \in Nat /\ i < c.start \div w /\ c.start \div w <= k
  <2>1. /\ b.start \in Nat /\ c.start \in Nat /\ b.start % w = 0 /\ c.start % w = 0
        /\ b.start < c.start /\ b.start <= c.start /\ c.start <= end
    BY <1>1, <1>4
  <2>2. c.start \div w \in Nat /\ b.start \div w < c.start \div w
    BY <1>1, <2>1, QuotientsOrdered
  <2>3. c.start \div w <= end \div w
    BY <1>1, <2>1, QuotientsOrdered
  <2> QED
    BY <2>2, <2>3
<1> HIDE DEF i, k
<1>12. \A c \in ahead : f[c] \in (i + 1)..k
  BY <1>7, <1>10, <1>11
<1>13. f \in [ahead -> Int]
  BY <1>8, <1>11
<1>14. \A c, e \in ahead : f[c] = f[e] => c = e
  BY <1>1, <1>4, <1>6, <1>7, QuotientsApart
<1>15. Cardinality(ahead) \in Nat /\ Cardinality(ahead) <= k - (i + 1) + 1
  <2>1. i + 1 \in Int /\ k \in Int /\ i + 1 <= k + 1
    BY <1>10
  <2> QED
    BY <1>12, <1>13, <1>14, <2>1, Numberable
<1>16. Cardinality(ahead) < limit
  BY <1>5, <1>10, <1>15
<1> QED
  BY <1>3, <1>9, <1>16 DEF Newest

LEMMA PresetsFit == PresetsAnswered
<1>1. /\ Kept[5] \in Nat /\ Kept[60] \in Nat /\ Kept[900] \in Nat
      /\ Kept[5] >= 1 /\ Kept[60] >= 1 /\ Kept[900] >= 1095
      /\ Kept[3600] = 1825 /\ Kept[86400] = 3650
  BY HistoryAssumption DEF RetentionAccepted, StepSeconds, Day
<1>2. \A span \in {3600} : SourceLimit(AutoStep(span), 0, span) <= 2500 /\ Kept[AutoStep(span)] * Day >= span
  BY <1>1 DEF SourceLimit, AutoStep, Day
<1>3. \A span \in {86400} : SourceLimit(AutoStep(span), 0, span) <= 2500 /\ Kept[AutoStep(span)] * Day >= span
  BY <1>1 DEF SourceLimit, AutoStep, Day
<1>4. \A span \in {604800} : SourceLimit(AutoStep(span), 0, span) <= 2500 /\ Kept[AutoStep(span)] * Day >= span
  BY <1>1 DEF SourceLimit, AutoStep, Day
<1>5. \A span \in {2592000, 7776000} :
        SourceLimit(AutoStep(span), 0, span) <= 2500 /\ Kept[AutoStep(span)] * Day >= span
  BY <1>1 DEF SourceLimit, AutoStep, Day
<1>6. \A span \in {31536000} : SourceLimit(AutoStep(span), 0, span) <= 2500 /\ Kept[AutoStep(span)] * Day >= span
  BY <1>1 DEF SourceLimit, AutoStep, Day
<1>7. Presets = {3600, 86400, 604800, 2592000, 7776000, 31536000}
  BY DEF Presets, Day
<1> QED
  BY <1>2, <1>3, <1>4, <1>5, <1>6, <1>7 DEF PresetsAnswered

\* As long as nothing went wrong, one interval gives one sample.
Punctual ==
  /\ last <= MaxSamples
  /\ faults = 0 =>
       /\ \A t \in taken : t.at <= clock
       /\ \A t \in taken : t.at = clock /\ clock < MaxClock => thread # "capture"
       /\ \A t, u \in taken : t.at = u.at /\ t.at < MaxClock => t = u

LEMMA PunctualStep ==
  ASSUME TelemetryTypeOK, TelemetryTypeOK', Punctual, [TelemetryNext]_telemetryVars
  PROVE  Punctual'
<1>1. /\ clock \in Nat /\ last \in Nat /\ faults \in Nat /\ taken \subseteq Times
      /\ MaxClock \in Nat /\ MaxSamples \in Nat
  BY TelemetryAssumption, RollTypes DEF TelemetryTypeOK
<1>2. CASE UNCHANGED <<clock, last, taken, thread, faults>>
  BY <1>2 DEF Punctual
<1>3. CASE Tick
  <2>1. UNCHANGED <<last, taken, faults>> /\ clock' = IF clock < MaxClock THEN clock + 1 ELSE clock
    BY <1>3 DEF Tick, database
  <2>2. \A t \in taken : t.at \in Nat
    BY <1>1 DEF Times
  <2> QED
    BY <1>1, <2>1, <2>2 DEF Punctual
<1>4. CASE Capture
  <2>1. UNCHANGED <<clock, faults>> /\ thread' \in {"rollup", "wait"} /\ thread = "capture"
    BY <1>4 DEF Capture, time
  <2>2. CASE UNCHANGED <<last, taken>>
    BY <2>1, <2>2 DEF Punctual
  <2>3. CASE last < MaxSamples /\ last' = last + 1 /\ taken' = taken \cup {[seq |-> last', at |-> clock]}
    <3> DEFINE t0 == [seq |-> last', at |-> clock]
    <3>1. t0.at = clock /\ taken' = taken \cup {t0}
      BY <2>3
    <3> HIDE DEF t0
    <3> QED
      BY <1>1, <2>1, <2>3, <3>1 DEF Punctual
  <2> QED
    BY <1>4, <2>2, <2>3 DEF Capture
<1>5. CASE BuildRollups \/ PruneHistory
  <2>1. UNCHANGED <<clock, last, taken, faults>> /\ thread' # "capture"
    BY <1>5 DEF BuildRollups, PruneHistory, time
  <2> QED
    BY <2>1 DEF Punctual
<1>6. CASE StepBack \/ MaintenanceFails \/ NoAnswer \/ (\E p \in posts : Refuse(p)) \/ Restart
  <2>1. faults' = faults + 1 /\ last' = last
    BY <1>6 DEF StepBack, MaintenanceFails, NoAnswer, Refuse, Restart, Faulty, database
  <2> QED
    BY <1>1, <2>1 DEF Punctual
<1>7. CASE SyncThread \/ Bridge
  BY <1>2, <1>7 DEF SyncThread, ReserveBatch, SendBatch, TakeAnswer, ReleaseBatch, MarkBatchSynced,
                    Bridge, Receive, time, database
<1>8. CASE UNCHANGED telemetryVars
  BY <1>2, <1>8 DEF telemetryVars, time, database
<1> QED
  BY <1>3, <1>4, <1>5, <1>6, <1>7, <1>8 DEF TelemetryNext, CaptureThread

LEMMA PunctualStart ==
  ASSUME TelemetryInit
  PROVE  Punctual
  BY TelemetryAssumption DEF TelemetryInit, Punctual

\* Each row has its number for itself.
OneRowEach == \A p, q \in rows : p.seq = q.seq => p = q

\* A step that makes of each row one with its number.
LEMMA RewrittenRows ==
  ASSUME OneRowEach, NEW f,
         \A n \in rows' : \E q \in rows : n = f[q] /\ f[q].seq = q.seq
  PROVE  OneRowEach'
<1>1. ASSUME NEW m \in rows', NEW n \in rows', m.seq = n.seq
      PROVE  m = n
  <2>1. PICK p \in rows : m = f[p] /\ f[p].seq = p.seq
    OBVIOUS
  <2>2. PICK q \in rows : n = f[q] /\ f[q].seq = q.seq
    OBVIOUS
  <2>3. p = q
    BY <1>1, <2>1, <2>2 DEF OneRowEach
  <2> QED
    BY <2>1, <2>2, <2>3
<1> QED
  BY <1>1 DEF OneRowEach

LEMMA OneRowStep ==
  ASSUME TelemetryTypeOK, TelemetryTypeOK', Numbered, OneRowEach, [TelemetryNext]_telemetryVars
  PROVE  OneRowEach'
<1>1. \A q \in rows : q \in Rows /\ q.seq \in 1..last
  BY DEF TelemetryTypeOK, Numbered
<1>2. last \in Nat /\ batches \in Nat
  BY DEF TelemetryTypeOK
<1>3. CASE rows' \subseteq rows
  BY <1>3 DEF OneRowEach
<1>4. ASSUME NEW S, NEW b, rows' = {IF q \in S THEN [q EXCEPT !.batch = b] ELSE q : q \in rows}
      PROVE  OneRowEach'
  <2> DEFINE f == [q \in rows |-> IF q \in S THEN [q EXCEPT !.batch = b] ELSE q]
  <2>1. ASSUME NEW q \in rows
        PROVE  f[q].seq = q.seq
    <3>1. q \in Rows /\ f[q] = IF q \in S THEN [q EXCEPT !.batch = b] ELSE q
      BY <1>1
    <3>2. [q EXCEPT !.batch = b].seq = q.seq
      BY <3>1 DEF Rows
    <3> QED
      BY <3>1, <3>2
  <2>2. \A n \in rows' : \E q \in rows : n = f[q]
    BY <1>4
  <2> HIDE DEF f
  <2> QED
    BY <2>1, <2>2, RewrittenRows
<1>5. ASSUME NEW e \in BOOLEAN, rows' = Attempted(e)
      PROVE  OneRowEach'
  <2> DEFINE f == [q \in rows |-> IF q \in OfBatch(sender.batch) THEN [q EXCEPT !.error = e] ELSE q]
  <2>1. ASSUME NEW q \in rows
        PROVE  f[q].seq = q.seq
    <3>1. q \in Rows /\ f[q] = IF q \in OfBatch(sender.batch) THEN [q EXCEPT !.error = e] ELSE q
      BY <1>1
    <3>2. [q EXCEPT !.error = e].seq = q.seq
      BY <3>1 DEF Rows
    <3> QED
      BY <3>1, <3>2
  <2>2. \A n \in rows' : \E q \in rows : n = f[q]
    BY <1>5 DEF Attempted
  <2> HIDE DEF f
  <2> QED
    BY <2>1, <2>2, RewrittenRows
<1>6. ASSUME rows' = Marked
      PROVE  OneRowEach'
  <2> DEFINE f == [q \in rows |->
                     IF q \in OfBatch(sender.batch) THEN [q EXCEPT !.synced = TRUE, !.error = FALSE] ELSE q]
  <2>1. ASSUME NEW q \in rows
        PROVE  f[q].seq = q.seq
    <3>1. q \in Rows /\ f[q] = IF q \in OfBatch(sender.batch) THEN [q EXCEPT !.synced = TRUE, !.error = FALSE] ELSE q
      BY <1>1
    <3>2. [q EXCEPT !.synced = TRUE, !.error = FALSE].seq = q.seq
      BY <3>1 DEF Rows
    <3> QED
      BY <3>1, <3>2
  <2>2. \A n \in rows' : \E q \in rows : n = f[q]
    BY <1>6 DEF Marked
  <2> HIDE DEF f
  <2> QED
    BY <2>1, <2>2, RewrittenRows
<1>7. CASE Capture
  <2>1. CASE UNCHANGED rows
    BY <1>3, <2>1
  <2>2. CASE last' = last + 1 /\ rows' = rows \cup {[seq |-> last', at |-> clock, batch |-> 0,
                                                     synced |-> FALSE, error |-> FALSE]}
    <3> DEFINE new == [seq |-> last', at |-> clock, batch |-> 0, synced |-> FALSE, error |-> FALSE]
    <3>1. new.seq = last + 1 /\ rows' = rows \cup {new}
      BY <2>2
    <3> HIDE DEF new
    <3>2. \A q \in rows : q.seq # last + 1
      BY <1>1, <1>2
    <3> QED
      BY <3>1, <3>2 DEF OneRowEach
  <2> QED
    BY <1>7, <2>1, <2>2 DEF Capture
<1>8. CASE ReserveBatch
  <2>1. \/ UNCHANGED rows
        \/ rows' = {IF q \in NewBatch THEN [q EXCEPT !.batch = batches + 1] ELSE q : q \in rows}
    BY <1>8 DEF ReserveBatch
  <2>2. CASE UNCHANGED rows
    BY <1>3, <2>2
  <2>3. CASE rows' = {IF q \in NewBatch THEN [q EXCEPT !.batch = batches + 1] ELSE q : q \in rows}
    BY <1>4, <2>3
  <2> QED
    BY <2>1, <2>2, <2>3
<1>9. CASE SendBatch \/ TakeAnswer \/ NoAnswer
  <2>1. UNCHANGED rows \/ rows' = Attempted(TRUE) \/ rows' = Attempted(FALSE)
    BY <1>9 DEF SendBatch, TakeAnswer, NoAnswer, TooLarge
  <2> QED
    BY <1>3, <1>5, <2>1
<1>10. CASE ReleaseBatch
  <2>1. rows' = {IF q \in OfBatch(sender.batch) THEN [q EXCEPT !.batch = 0] ELSE q : q \in rows}
    BY <1>10 DEF ReleaseBatch
  <2> QED
    BY <1>4, <2>1
<1>11. CASE MarkBatchSynced
  BY <1>6, <1>11 DEF MarkBatchSynced, Marked
<1>12. CASE \/ Tick \/ StepBack \/ BuildRollups \/ PruneHistory \/ MaintenanceFails
            \/ Bridge \/ (\E p \in posts : Refuse(p)) \/ Restart \/ UNCHANGED telemetryVars
  <2>1. rows' \subseteq rows
    BY <1>12 DEF Tick, StepBack, BuildRollups, PruneHistory, MaintenanceFails, Bridge, Receive, Refuse,
                 Restart, telemetryVars, database
  <2> QED
    BY <1>3, <2>1
<1> QED
  BY <1>7, <1>8, <1>9, <1>10, <1>11, <1>12 DEF TelemetryNext, CaptureThread, SyncThread

\* Without faults there are no more samples in a range than moments.
LEMMA RawAnswered ==
  ASSUME TelemetryTypeOK, Recorded, OneRowEach, Punctual, faults = 0,
         NEW start \in Nat, NEW end \in Nat, start < end, end < MaxClock,
         NEW q \in rows, start <= q.at, q.at <= end
  PROVE  q \in Answer("raw", start, end)
<1> DEFINE found == {p \in rows : start <= p.at /\ p.at <= end}
           key == [p \in found |-> p.seq]
           ahead == {p \in found : key[q] < key[p]}
           limit == SourceLimit(1, start, end)
           f == [p \in ahead |-> p.at]
<1>1. Answer("raw", start, end) = Newest(found, key, limit)
  BY DEF Answer, Query, QueryRaw
<1>2. limit = (end - start) + 2
  BY DEF SourceLimit
<1>3. ASSUME NEW p \in rows, NEW x \in rows, p.at = x.at, p.at <= end
      PROVE  p = x
  <2>1. [seq |-> p.seq, at |-> p.at] \in taken /\ [seq |-> x.seq, at |-> x.at] \in taken
    BY DEF Recorded, Samples
  <2>2. p.at \in Nat /\ MaxClock \in Nat
    BY TelemetryAssumption DEF TelemetryTypeOK, Rows
  <2>3. [seq |-> p.seq, at |-> p.at] = [seq |-> x.seq, at |-> x.at]
    BY <1>3, <2>1, <2>2 DEF Punctual
  <2>4. p.seq = x.seq
    BY <2>3
  <2> QED
    BY <2>4 DEF OneRowEach
<1>4. \A p \in ahead : p \in rows /\ start <= p.at /\ p.at <= end /\ f[p] = p.at
  OBVIOUS
<1>5. \A p \in rows : p.at \in Nat
  BY DEF TelemetryTypeOK, Rows
<1>6. q \in {p \in found : Cardinality({x \in found : key[p] < key[x]}) < limit}
        <=> Cardinality(ahead) < limit
  OBVIOUS
<1>7. f = [p \in ahead |-> p.at]
  OBVIOUS
<1> HIDE DEF found, key, ahead, limit, f
<1>8. f \in [ahead -> Int] /\ \A p \in ahead : f[p] \in start..end
  BY <1>4, <1>5, <1>7
<1>9. \A p, x \in ahead : f[p] = f[x] => p = x
  BY <1>3, <1>4
<1>10. Cardinality(ahead) \in Nat /\ Cardinality(ahead) <= end - start + 1
  BY <1>8, <1>9, Numberable
<1>11. Cardinality(ahead) < limit
  BY <1>2, <1>10
<1> QED
  BY <1>1, <1>6, <1>11 DEF Newest

LEMMA AnswerFound ==
  ASSUME NEW start, NEW end
  PROVE  /\ Answer("raw", start, end) \subseteq {q \in rows : start <= q.at /\ q.at <= end}
         /\ \A r \in Resolutions : Answer(r, start, end) \subseteq rollups[r]
  BY HistoryAssumption DEF Answer, Query, QueryRaw, QueryRollup, Newest

LEMMA QueriesAnswered ==
  ASSUME TelemetryTypeOK, RInv, OneRowEach, Punctual
  PROVE  QueryComplete
<1>1. ASSUME NEW range \in Ranges
      PROVE  range[1] \in Nat /\ range[2] \in Nat /\ range[1] < range[2] /\ range[1] <= range[2]
  BY TelemetryAssumption DEF Ranges
<1>2. ASSUME NEW range \in Ranges, NEW r \in Resolutions, NEW b \in rollups[r],
             NEW t \in taken, t.seq \in b.seqs, range[1] <= t.at, t.at <= range[2]
      PROVE  b \in Answer(r, range[1], range[2])
  <2>1. PICK u \in taken : u.seq = t.seq /\ InTime(r, b.start, u)
    BY <1>2 DEF RInv, Exact, CountsExactly
  <2>2. u = t
    BY <2>1 DEF RInv, Recorded
  <2>3. b.start \in Nat /\ Width[r] \in Nat /\ t.at \in Nat
    BY RollTypes DEF Times
  <2>4. range[1] < b.start + Width[r] /\ b.start <= range[2]
    BY <1>1, <1>2, <2>1, <2>2, <2>3 DEF InTime
  <2>5. Bucketed
    BY DEF RInv
  <2> QED
    BY <1>1, <2>4, <2>5, RollupAnswered
<1>3. ASSUME NEW range \in Ranges, faults = 0, range[2] < MaxClock
      PROVE  {q \in rows : range[1] <= q.at /\ q.at <= range[2]} = Answer("raw", range[1], range[2])
  <2>1. \A q \in rows : range[1] <= q.at /\ q.at <= range[2] => q \in Answer("raw", range[1], range[2])
    BY <1>1, <1>3, RawAnswered DEF RInv
  <2> QED
    BY <2>1, AnswerFound
<1> QED
  BY <1>2, <1>3 DEF QueryComplete

LEMMA NothingInGaps ==
  ASSUME TelemetryTypeOK, RInv
  PROVE  GapsAreEmpty
<1> SUFFICES ASSUME NEW r \in Resolutions, NEW gap \in Gaps(Answer(r, 0, MaxClock), Width[r]),
                    NEW t \in taken, t.seq \notin late,
                    gap[1].start + Width[r] <= t.at, t.at < gap[2].start
             PROVE  FALSE
  BY DEF GapsAreEmpty
<1> DEFINE points == Answer(r, 0, MaxClock)
<1>1. /\ gap[1] \in points /\ gap[2] \in points
      /\ ~ \E p \in points : gap[1].start < p.start /\ p.start < gap[2].start
  BY DEF Gaps
<1>2. gap[1] \in rollups[r] /\ gap[2] \in rollups[r]
  BY <1>1, AnswerFound
<1>3. PICK x, y \in rollups[r] : x = gap[1] /\ y = gap[2]
  BY <1>2
<1>4. y.start <= MaxClock
  BY <1>1, <1>3, HistoryAssumption DEF Answer, Query, QueryRollup, Newest
<1> HIDE DEF points
<1>5. /\ x.start \in Nat /\ y.start \in Nat /\ Width[r] \in Nat \ {0} /\ t.at \in Nat /\ MaxClock \in Nat
      /\ processed[r] \in Nat /\ y.start + Width[r] <= processed[r]
  BY RollTypes, TelemetryAssumption DEF Times, RInv, Bucketed
<1>6. t.at < processed[r]
  BY <1>3, <1>5
<1>7. CASE Outlived(r, t)
  BY <1>3, <1>5, <1>7 DEF Outlived
<1>8. CASE \E b \in rollups[r] : t.seq \in b.seqs
  <2>1. PICK b \in rollups[r] : t.seq \in b.seqs
    BY <1>8
  <2>2. PICK u \in taken : u.seq = t.seq /\ InTime(r, b.start, u)
    BY <2>1 DEF RInv, Exact, CountsExactly
  <2>3. u = t
    BY <2>2 DEF RInv, Recorded
  <2>4. b.start <= t.at /\ t.at < b.start + Width[r] /\ b.start \in Nat
    BY <2>2, <2>3, RollTypes DEF InTime
  <2>5. x.start < b.start /\ b.start < y.start
    BY <1>3, <1>5, <2>4
  <2>6. b \in points
    <3>1. 0 < b.start + Width[r] /\ b.start <= MaxClock /\ 0 <= MaxClock /\ Bucketed
      BY <1>4, <1>5, <2>4, <2>5 DEF RInv
    <3> QED
      BY <1>5, <3>1, RollupAnswered DEF points
  <2> QED
    BY <1>1, <1>3, <2>5, <2>6
<1> QED
  BY <1>6, <1>7, <1>8 DEF RInv, Counted

KeptByNeighbours(S, v) == \A m, n \in S : Neighbours(S, m, n) => v[m] = v[n]
SameForAll(S, v) == \A m, n \in S : v[m] = v[n]

\* Of a finite set of numbers, what does not change between neighbours does not change.
LEMMA Steady ==
  ASSUME NEW S, NEW top \in Nat, S \subseteq 0..top, NEW v, KeptByNeighbours(S, v)
  PROVE  SameForAll(S, v)
<1>0. \A n \in S : n \in Nat /\ n <= top
  OBVIOUS
<1>1. ASSUME NEW x \in S, NEW y \in S, x < y
      PROVE  v[x] = v[y]
  <2> DEFINE other == {n \in S : x < n /\ v[n] # v[x]}
  <2>1. ASSUME other # {}
        PROVE  FALSE
    <3>1. other \subseteq Nat
      BY <1>0
    <3>2. PICK n \in other : \A k \in other : n <= k
      BY <2>1, <3>1, HasLeast
    <3>3. n \in S /\ x < n /\ v[n] # v[x]
      OBVIOUS
    <3> DEFINE before == {m \in S : m < n /\ v[m] = v[x]}
    <3>4. /\ x \in before /\ before \subseteq Nat /\ \A m \in before : m <= top
          /\ \A m \in before : m \in S /\ m < n /\ v[m] = v[x]
      <4> HIDE DEF other
      <4>1. x \in before
        BY <3>3
      <4>2. \A m \in before : m \in S /\ m < n /\ v[m] = v[x]
        OBVIOUS
      <4> HIDE DEF before
      <4>3. \A m \in before : m \in Nat /\ m <= top
        BY <1>0, <4>2
      <4> QED
        BY <4>1, <4>2, <4>3
    <3>5. Greatest(before) \in before /\ \A m \in before : m <= Greatest(before)
      BY <3>4, HasGreatest
    <3> DEFINE m == Greatest(before)
    <3>6. m \in S /\ m < n /\ v[m] = v[x] /\ x <= m
      <4> HIDE DEF before, other
      <4> QED
        BY <3>4, <3>5
    <3> HIDE DEF m
    <3>7. ASSUME NEW k \in S, m < k, k < n
          PROVE  FALSE
      <4>1. m \in Nat /\ k \in Nat /\ x \in Nat /\ n \in Nat
        BY <3>3, <3>6
      <4>2. x < k
        BY <3>6, <3>7, <4>1
      <4>3. CASE v[k] = v[x]
        <5>1. k \in before
          BY <3>7, <4>3
        <5>2. k <= m
          BY <3>5, <5>1 DEF m
        <5> QED
          BY <3>7, <4>1, <5>2
      <4>4. CASE v[k] # v[x]
        <5>1. k \in other
          BY <4>2, <4>4
        <5>2. n <= k
          BY <3>2, <5>1
        <5> QED
          BY <3>7, <4>1, <5>2
      <4> QED
        BY <4>3, <4>4
    <3>8. Neighbours(S, m, n) /\ v[m] # v[n]
      BY <3>3, <3>6, <3>7 DEF Neighbours
    <3> QED
      BY <3>3, <3>6, <3>8 DEF KeptByNeighbours
  <2> QED
    BY <1>1, <2>1
<1> QED
  BY <1>0, <1>1 DEF SameForAll

\* Finitely many numbers have a bound.
LEMMA BoundOfFew ==
  ASSUME NEW S, NEW top \in Nat, S \subseteq 1..top, NEW v, \A n \in S : v[n] \in Nat
  PROVE  \E u \in Nat : \A n \in S : v[n] <= u
<1> DEFINE Bound(k) == \E u \in Nat : \A n \in S : n <= k => v[n] <= u
           bad == {k \in Nat : ~Bound(k)}
<1>0. \A n \in S : n \in Nat /\ 1 <= n /\ n <= top
  OBVIOUS
<1>1. ASSUME bad # {}
      PROVE  FALSE
  <2>1. bad \subseteq Nat
    OBVIOUS
  <2>2. PICK k \in bad : \A j \in bad : k <= j
    BY <1>1, <2>1, HasLeast
  <2>3. k \in Nat /\ ~Bound(k)
    OBVIOUS
  <2>4. k # 0
    <3>1. \A n \in S : ~(n <= 0)
      BY <1>0
    <3>2. Bound(0)
      BY <3>1
    <3> QED
      BY <2>3, <3>2
  <2>5. k - 1 \in Nat /\ ~(k <= k - 1)
    BY <2>3, <2>4
  <2>6. Bound(k - 1)
    BY <2>2, <2>5
  <2>7. PICK u \in Nat : \A n \in S : n <= k - 1 => v[n] <= u
    BY <2>6
  <2>8. CASE k \in S
    <3> DEFINE w == IF u < v[k] THEN v[k] ELSE u
    <3>1. w \in Nat /\ u <= w /\ v[k] <= w
      BY <2>8
    <3> HIDE DEF w
    <3>2. ASSUME NEW n \in S, n <= k
          PROVE  v[n] <= w
      <4>1. n = k \/ n <= k - 1
        BY <1>0, <2>3, <3>2
      <4>2. v[n] \in Nat
        OBVIOUS
      <4> QED
        BY <2>7, <3>1, <4>1, <4>2
    <3> QED
      BY <2>3, <3>1, <3>2
  <2>9. CASE k \notin S
    <3>1. \A n \in S : n <= k => n <= k - 1
      BY <1>0, <2>3, <2>9
    <3> QED
      BY <2>3, <2>7, <3>1
  <2> QED
    BY <2>8, <2>9
<1>2. Bound(top)
  BY <1>1
<1> QED
  BY <1>0, <1>2

LEMMA DeviceTypes ==
  ASSUME NEW n \in Seqs
  PROVE  /\ DOMAIN Devices[n] \subseteq Nat
         /\ \A i \in DOMAIN Devices[n] : Devices[n][i].temp = NoValue \/ Devices[n][i].temp \in Nat
<1>1. Devices[n] \in Seq([role : Roles, temp : Nat \cup {NoValue}])
  BY HistoryAssumption
<1>2. \A i \in DOMAIN Devices[n] : Devices[n][i] \in [role : Roles, temp : Nat \cup {NoValue}]
  <2> DEFINE D == [role : Roles, temp : Nat \cup {NoValue}]
  <2>1. Devices[n] \in Seq(D)
    BY <1>1
  <2> HIDE DEF D
  <2>2. \A i \in DOMAIN Devices[n] : Devices[n][i] \in D
    BY <2>1
  <2> QED
    BY <2>2 DEF D
<1>3. DOMAIN Devices[n] \subseteq Nat
  BY <1>1
<1> QED
  BY <1>2, <1>3

\* At a place where nothing changes, all samples list the same role.
LEMMA PlaceIsSteady ==
  ASSUME NEW S, S \subseteq Seqs, NEW i, StateOf(S, i).changes = 0,
         NEW a \in Listing(S, i), NEW b \in Listing(S, i)
  PROVE  Devices[a][i].role = Devices[b][i].role
<1> DEFINE has == Listing(S, i)
           v == [n \in has |-> Devices[n][i].role]
           X == {n \in has : \E m \in has : Neighbours(has, m, n) /\ Devices[m][i].role # Devices[n][i].role}
<1>1. MaxSamples \in Nat /\ has \subseteq 1..MaxSamples
  BY TelemetryAssumption DEF Listing, Seqs
<1>2. IsFiniteSet(X)
  <2>1. IsFiniteSet(1..MaxSamples)
    BY <1>1, FS_Interval
  <2>2. X \in SUBSET (1..MaxSamples)
    BY <1>1
  <2> HIDE DEF X
  <2> QED
    BY <2>1, <2>2, FS_Subset
<1>3. StateOf(S, i).changes = Cardinality(X)
  BY DEF StateOf
<1>4. X = {}
  <2> HIDE DEF X
  <2> QED
    BY <1>2, <1>3, FS_EmptySet
<1>5. KeptByNeighbours(has, v)
  BY <1>4 DEF KeptByNeighbours
<1>6. has \subseteq 0..MaxSamples
  BY <1>1
<1>7. v[a] = Devices[a][i].role /\ v[b] = Devices[b][i].role
  OBVIOUS
<1> HIDE DEF has, v, X
<1>8. MaxSamples \in Nat
  BY <1>1
<1>9. SameForAll(has, v)
  BY <1>5, <1>6, <1>8, Steady
<1>10. v[a] = v[b]
  BY <1>9 DEF SameForAll, has
<1> QED
  BY <1>7, <1>10

\* A signal is made of the temperatures at its place.
LEMMA SignalIsMeasured ==
  ASSUME NEW S, S \subseteq Seqs, NEW i, Measured(S, i) # {}
  PROVE  /\ Signal(S, i).count # 0
         /\ {Signal(S, i).min, Signal(S, i).max, Signal(S, i).last} \subseteq Temps(S, i)
<1> DEFINE has == Measured(S, i)
           v == [n \in has |-> Devices[n][i].temp]
<1>1. MaxSamples \in Nat /\ has \subseteq 1..MaxSamples
  BY TelemetryAssumption DEF Measured, Listing, Seqs
<1>2. \A n \in has : v[n] = Devices[n][i].temp /\ v[n] \in Nat
  BY DeviceTypes DEF Measured, Listing
<1>3. Temps(S, i) = {v[n] : n \in has}
  BY DEF Temps
<1>4. /\ Signal(S, i).count = Cardinality(has)
      /\ Signal(S, i).min = Least(Temps(S, i))
      /\ Signal(S, i).max = Greatest(Temps(S, i))
      /\ Signal(S, i).last = Devices[Greatest(has)][i].temp
  BY DEF Signal
<1>5. has # {}
  OBVIOUS
<1> HIDE DEF has, v
<1>6. PICK u \in Nat : \A n \in has : v[n] <= u
  BY <1>1, <1>2, BoundOfFew
<1>7. Temps(S, i) \subseteq Nat /\ Temps(S, i) # {} /\ \A x \in Temps(S, i) : x <= u
  BY <1>2, <1>3, <1>5, <1>6
<1>8. Least(Temps(S, i)) \in Temps(S, i) /\ Greatest(Temps(S, i)) \in Temps(S, i)
  BY <1>7, LeastType, HasGreatest
<1>9. Greatest(has) \in has
  <2>1. has \subseteq Nat /\ \A n \in has : n <= MaxSamples
    BY <1>1
  <2> QED
    BY <1>1, <1>5, <2>1, HasGreatest
<1>10. Devices[Greatest(has)][i].temp \in Temps(S, i)
  BY <1>2, <1>3, <1>9
<1>11. Cardinality(has) # 0
  <2>1. IsFiniteSet(1..MaxSamples)
    BY <1>1, FS_Interval
  <2>2. IsFiniteSet(has)
    BY <1>1, <2>1, FS_Subset
  <2> QED
    BY <1>5, <2>2, FS_EmptySet
<1> QED
  BY <1>4, <1>8, <1>10, <1>11

\* What a role's series shows is what a sample gives for that role.
LEMMA SeriesIsOfTheRole ==
  ASSUME NEW b, b.seqs \subseteq Seqs, NEW role,
         \A n \in b.seqs : Cardinality(PlacesOf(n, role)) <= 1,
         \A i \in Places(b.seqs) : StateOf(b.seqs, i).changes = 0
  PROVE  IF RollupPoint(b, role).count = 0 THEN {RawValue(n, role) : n \in b.seqs} \ {NoValue} = {}
         ELSE {RollupPoint(b, role).min, RollupPoint(b, role).max, RollupPoint(b, role).last}
                \subseteq {RawValue(n, role) : n \in b.seqs} \ {NoValue}
<1> DEFINE S == b.seqs
           at == SignalPlaces(S, role)
<1>1. ASSUME NEW n \in S
      PROVE  PlacesOf(n, role) \subseteq Nat /\ PlacesOf(n, role) \subseteq Places(S)
  BY DeviceTypes DEF PlacesOf, Places
<1>2. ASSUME NEW i \in Places(S), NEW n \in Listing(S, i)
      PROVE  StateOf(S, i).last = Devices[n][i].role
  <2>1. Listing(S, i) \subseteq Nat /\ MaxSamples \in Nat /\ \A m \in Listing(S, i) : m <= MaxSamples
    BY TelemetryAssumption DEF Listing, Seqs
  <2>2. Greatest(Listing(S, i)) \in Listing(S, i)
    BY <2>1, HasGreatest
  <2>3. StateOf(S, i).last = Devices[Greatest(Listing(S, i))][i].role
    BY DEF StateOf
  <2> QED
    BY <2>2, <2>3, PlaceIsSteady
<1>3. CASE at = {}
  <2>1. RollupPoint(b, role).count = 0
    BY <1>3 DEF RollupPoint
  <2>2. ASSUME NEW n \in S, RawValue(n, role) # NoValue
        PROVE  FALSE
    <3> DEFINE j == Least(PlacesOf(n, role))
    <3>1. PlacesOf(n, role) # {} /\ RawValue(n, role) = Devices[n][j].temp
      BY <2>2 DEF RawValue
    <3>2. j \in PlacesOf(n, role)
      BY <1>1, <3>1, LeastType
    <3> HIDE DEF j
    <3>3. j \in DOMAIN Devices[n] /\ Devices[n][j].role = role /\ j \in Places(S)
      BY <1>1, <3>2 DEF PlacesOf
    <3>4. n \in Listing(S, j) /\ n \in Measured(S, j)
      BY <2>2, <3>1, <3>3 DEF Listing, Measured
    <3>5. StateOf(S, j).last = role
      BY <1>2, <3>3, <3>4
    <3> QED
      BY <1>3, <3>3, <3>4, <3>5 DEF SignalPlaces
  <2> QED
    BY <2>1, <2>2
<1>4. CASE at # {}
  <2> DEFINE i == Least(at)
  <2>1. at \subseteq Nat
    BY DeviceTypes DEF SignalPlaces, Places
  <2>2. i \in at
    BY <1>4, <2>1, LeastType
  <2>3. RollupPoint(b, role) = Signal(S, i)
    BY <1>4 DEF RollupPoint
  <2> HIDE DEF i
  <2>4. i \in Places(S) /\ StateOf(S, i).last = role /\ Measured(S, i) # {}
    BY <2>2 DEF SignalPlaces
  <2>5. /\ Signal(S, i).count # 0
        /\ {Signal(S, i).min, Signal(S, i).max, Signal(S, i).last} \subseteq Temps(S, i)
    BY <2>4, SignalIsMeasured
  <2>6. ASSUME NEW n \in Measured(S, i)
        PROVE  Devices[n][i].temp \in {RawValue(m, role) : m \in S} \ {NoValue}
    <3>1. n \in S /\ n \in Listing(S, i) /\ i \in DOMAIN Devices[n] /\ Devices[n][i].temp # NoValue
      BY DEF Measured, Listing
    <3>2. Devices[n][i].role = role
      BY <1>2, <2>4, <3>1
    <3>3. i \in PlacesOf(n, role)
      BY <3>1, <3>2 DEF PlacesOf
    <3>4. Least(PlacesOf(n, role)) \in PlacesOf(n, role)
      BY <1>1, <3>1, <3>3, LeastType
    <3>5. IsFiniteSet(PlacesOf(n, role))
      <4>1. Devices[n] \in Seq([role : Roles, temp : Nat \cup {NoValue}])
        BY <3>1, HistoryAssumption
      <4>2. Len(Devices[n]) \in Nat /\ DOMAIN Devices[n] = 1..Len(Devices[n])
        BY <4>1
      <4>3. IsFiniteSet(1..Len(Devices[n]))
        BY <4>2, FS_Interval
      <4>4. PlacesOf(n, role) \subseteq 1..Len(Devices[n])
        BY <4>2 DEF PlacesOf
      <4> QED
        BY <4>3, <4>4, FS_Subset
    <3>6. Least(PlacesOf(n, role)) = i
      <4>1. Cardinality(PlacesOf(n, role)) \in Nat /\ Cardinality(PlacesOf(n, role)) # 0
        BY <3>3, <3>5, FS_CardinalityType, FS_EmptySet
      <4>2. Cardinality(PlacesOf(n, role)) = 1
        BY <3>1, <4>1
      <4>3. PICK x : PlacesOf(n, role) = {x}
        BY <3>5, <4>2, FS_Singleton
      <4> QED
        BY <3>3, <3>4, <4>3
    <3>7. RawValue(n, role) = Devices[n][i].temp
      BY <3>3, <3>6 DEF RawValue
    <3> QED
      BY <3>1, <3>7
  <2>7. Temps(S, i) \subseteq {RawValue(m, role) : m \in S} \ {NoValue}
    BY <2>6 DEF Temps
  <2> QED
    BY <2>3, <2>5, <2>7
<1> QED
  BY <1>3, <1>4

LEMMA SeriesAreFaithful ==
  ASSUME TelemetryTypeOK, RInv, Punctual
  PROVE  RoleSeriesFaithful
<1>1. ASSUME NEW x \in Buckets
      PROVE  x.b.seqs \subseteq Seqs
  <2>1. PICK r \in Resolutions : \E b \in rollups[r] : x = [r |-> r, b |-> b]
    BY DEF Buckets
  <2>2. PICK b \in rollups[r] : x = [r |-> r, b |-> b]
    BY <2>1
  <2>3. x.b = b
    BY <2>2
  <2>4. \A s \in b.seqs : \E t \in taken : t.seq = s
    BY DEF RInv, Exact, CountsExactly
  <2>5. \A t \in taken : t.seq \in Seqs
    <3>1. last \in Nat /\ MaxSamples \in Nat /\ last <= MaxSamples
      BY TelemetryAssumption DEF TelemetryTypeOK, Punctual
    <3> QED
      BY <3>1 DEF RInv, Recorded, Seqs
  <2> QED
    BY <2>3, <2>4, <2>5
<1>2. ASSUME NEW x \in Buckets, NEW role \in Roles,
             \A n \in x.b.seqs : Cardinality(PlacesOf(n, role)) <= 1,
             \A i \in Places(x.b.seqs) : StateOf(x.b.seqs, i).changes = 0
      PROVE  IF RollupPoint(x.b, role).count = 0 THEN {RawValue(n, role) : n \in x.b.seqs} \ {NoValue} = {}
             ELSE {RollupPoint(x.b, role).min, RollupPoint(x.b, role).max, RollupPoint(x.b, role).last}
                    \subseteq {RawValue(n, role) : n \in x.b.seqs} \ {NoValue}
  BY <1>1, <1>2, SeriesIsOfTheRole
<1> QED
  BY <1>2, Zenon DEF RoleSeriesFaithful

\* The history shows all that was captured in a range, of the role it is asked for,
\* and its gaps are times without samples: for every width, retention, list of
\* devices and range, and whatever the agent went through before it is asked.
THEOREM HistoryStaysFaithful == TelemetrySpec => []HistoryFaithful
<1> DEFINE HInv == RInv /\ OneRowEach /\ Punctual
<1>1. TelemetryInit => HInv
  BY RollsStart, PunctualStart DEF TelemetryInit, OneRowEach
<1>2. IInv /\ IInv' /\ HInv /\ [TelemetryNext]_telemetryVars => HInv'
  <2>1. IInv => TelemetryTypeOK /\ Numbered
    BY DEF IInv
  <2>2. IInv' => TelemetryTypeOK'
    BY DEF IInv
  <2> QED
    BY <2>1, <2>2, RollsStep, OneRowStep, PunctualStep
<1>3. IInv /\ HInv => HistoryFaithful
  BY PresetsFit, QueriesAnswered, SeriesAreFaithful, NothingInGaps DEF IInv, HistoryFaithful
<1> QED
  BY <1>1, <1>2, <1>3, Invariance, PTL DEF TelemetrySpec
==============================================================================
