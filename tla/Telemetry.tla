------------------------------- MODULE Telemetry -------------------------------
(***************************************************************************)
(* The telemetry agent of the CM5 and its SQLite store.  One thread takes  *)
(* a sample of the core's state every interval, builds the rollups and     *)
(* prunes; another reserves batches, posts them to the AI Bridge and marks *)
(* them synced.  The two share nothing but the database, where every       *)
(* operation of the store is a transaction.                                *)
(*                                                                         *)
(* A sample is its sequence number.  Time counts capture intervals.  A     *)
(* request that was posted stays in posts: the bridge may act on it at     *)
(* once, after the agent has given up waiting, or again.                   *)
(***************************************************************************)
EXTENDS Naturals, FiniteSets

CONSTANTS
  Resolutions,  \* the rollup tables
  Width,        \* the length of a bucket of each
  Keep,         \* how long the buckets of each are kept
  RawKeep,      \* how long the samples are kept
  MaxBuckets,   \* the buckets built in one pass
  BatchSize,    \* the configured batch size
  BodyLimit,    \* the samples that fit one request
  MaxSamples,   \* bound: samples taken
  MaxClock,     \* bound: the clock
  MaxFaults     \* bound: faults of any kind

ASSUME TelemetryAssumption ==
  /\ Width \in [Resolutions -> Nat \ {0}]
  /\ Keep \in [Resolutions -> Nat]
  /\ RawKeep \in Nat
  /\ MaxBuckets \in Nat \ {0}
  /\ BatchSize \in Nat \ {0}
  /\ BodyLimit \in Nat
  /\ MaxSamples \in Nat /\ MaxClock \in Nat /\ MaxFaults \in Nat

VARIABLES
  clock,      \* the wall clock
  rows,       \* telemetry_samples
  last,       \* the last sequence number given
  processed,  \* processed_until of each resolution; 0 before the first pass
  rollups,    \* the buckets of each resolution: where each starts, what it counts
  taken,      \* history: when each sample was captured
  late,       \* history: the samples captured after their bucket's time was over
  peak,       \* history: the latest time the clock has shown
  thread,     \* what the capture thread does next
  sender,     \* the sync thread: where it is, and the batch it holds
  reply,      \* what the bridge has answered to the request that is waited for
  batchSize,  \* the agent's batch size, halved when a request was too large
  batches,    \* how many batch identifiers were made up
  posts,      \* the requests the agent has ever sent
  sink,       \* the samples the bridge has stored
  faults      \* how many faults there have been

database == <<rows, last, processed, rollups, taken, late>>
syncing == <<sender, reply, batchSize, batches, posts, sink>>
time == <<clock, peak>>
telemetryVars == <<time, database, thread, syncing, faults>>

Seqs == 1..MaxSamples
Rows == [seq : Nat, at : Nat, batch : Nat, synced : BOOLEAN, error : BOOLEAN]
Posts == [batch : Nat, seqs : SUBSET Nat]
Answers == {"none", "accepted", "refused", "too_large"}
Idle == [pc |-> "idle", batch |-> 0, seqs |-> {}]

TelemetryTypeOK ==
  /\ clock \in Nat /\ peak \in Nat
  /\ rows \in SUBSET Rows
  /\ last \in Nat
  /\ processed \in [Resolutions -> Nat]
  /\ rollups \in [Resolutions -> SUBSET [start : Nat, seqs : SUBSET Nat]]
  /\ taken \in SUBSET [seq : Nat, at : Nat]
  /\ late \in SUBSET Nat
  /\ thread \in {"wait", "capture", "rollup", "prune"}
  /\ sender \in [pc : {"idle", "send", "await", "release", "mark"}, batch : Nat, seqs : SUBSET Nat]
  /\ reply \in Answers
  /\ batchSize \in Nat \ {0}
  /\ batches \in Nat
  /\ posts \in SUBSET Posts
  /\ sink \in SUBSET Nat
  /\ faults \in Nat

TelemetryInit ==
  /\ clock = 0 /\ peak = 0
  /\ rows = {} /\ last = 0 /\ taken = {} /\ late = {}
  /\ processed = [r \in Resolutions |-> 0]
  /\ rollups = [r \in Resolutions |-> {}]
  /\ thread = "capture"
  /\ sender = Idle /\ reply = "none" /\ batchSize = BatchSize
  /\ batches = 0 /\ posts = {} /\ sink = {}
  /\ faults = 0

Faulty == faults < MaxFaults /\ faults' = faults + 1

------------------------------------------------------------------------------
(* The capture thread *)

\* The interval passes, and the wall clock with it, up to its bound.
Tick ==
  /\ clock' = IF clock < MaxClock THEN clock + 1 ELSE clock
  /\ peak' = IF peak < clock' THEN clock' ELSE peak
  /\ thread' = IF thread = "wait" THEN "capture" ELSE thread
  /\ UNCHANGED <<database, syncing, faults>>

\* The wall clock is set back while the agent runs.
StepBack ==
  /\ clock > 0
  /\ Faulty
  /\ clock' = clock - 1
  /\ UNCHANGED <<peak, database, thread, syncing>>

\* floor_utc
Floor(t, w) == t - (t % w)

\* append_snapshot, if the core answered; then maintenance, when it is due.
Capture ==
  /\ thread = "capture"
  /\ \/ /\ last < MaxSamples
        /\ last' = last + 1
        /\ rows' = rows \cup {[seq |-> last', at |-> clock, batch |-> 0,
                               synced |-> FALSE, error |-> FALSE]}
        /\ taken' = taken \cup {[seq |-> last', at |-> clock]}
        /\ late' = IF \E r \in Resolutions : clock < Floor(peak, Width[r]) THEN late \cup {last'} ELSE late
     \/ UNCHANGED <<rows, last, taken, late>>
  /\ thread' \in {"rollup", "wait"}
  /\ UNCHANGED <<time, processed, rollups, syncing, faults>>

Least(S) == CHOOSE x \in S : \A y \in S : x <= y

\* Where a pass begins: behind the last one, or at the first sample there is.
Cursor(r) ==
  IF processed[r] # 0 THEN processed[r]
  ELSE Floor(Least({q.at : q \in rows}), Width[r])

\* Where it ends: with the last bucket that is closed, or after MaxBuckets.
PassEnd(r) ==
  LET closed == Floor(clock, Width[r])
      most == Cursor(r) + MaxBuckets * Width[r]
  IN  IF closed < most THEN closed ELSE most

\* A pass has buckets to process.
Due(r) ==
  /\ processed[r] = 0 => rows # {}
  /\ Cursor(r) < Floor(clock, Width[r])

\* The samples of the bucket that starts at b, and the buckets of a pass: one
\* that exists already is left as it is, one without samples is not made.
InBucket(r, b) == {q.seq : q \in {x \in rows : b <= x.at /\ x.at < b + Width[r]}}

NewBuckets(r) ==
  {[start |-> b, seqs |-> InBucket(r, b)] :
     b \in {x \in Cursor(r)..(PassEnd(r) - 1) :
              /\ x % Width[r] = 0
              /\ InBucket(r, x) # {}
              /\ ~ \E old \in rollups[r] : old.start = x}}

BuildRollups ==
  /\ thread = "rollup"
  /\ thread' = "prune"
  /\ rollups' = [r \in Resolutions |-> IF Due(r) THEN rollups[r] \cup NewBuckets(r) ELSE rollups[r]]
  /\ processed' = [r \in Resolutions |-> IF Due(r) THEN PassEnd(r) ELSE processed[r]]
  /\ UNCHANGED <<time, rows, last, taken, late, syncing, faults>>

ExpiredByAge(q) == q.synced /\ q.at + RawKeep < clock

\* A synced sample goes once it is old enough and every resolution is past it; a
\* bucket goes by its age alone.
Expired(q) ==
  /\ q.synced
  /\ q.at + RawKeep < clock
  /\ \A r \in Resolutions : processed[r] # 0 /\ q.at < processed[r]

PruneHistory ==
  /\ thread = "prune"
  /\ thread' = "wait"
  /\ rows' = {q \in rows : ~Expired(q)}
  /\ rollups' = [r \in Resolutions |-> {b \in rollups[r] : b.start + Keep[r] >= clock}]
  /\ UNCHANGED <<time, last, processed, taken, late, syncing, faults>>

\* A transaction of the maintenance fails: it is rolled back, the rest is left.
MaintenanceFails ==
  /\ thread \in {"rollup", "prune"}
  /\ Faulty
  /\ thread' = "wait"
  /\ UNCHANGED <<time, database, syncing>>

------------------------------------------------------------------------------
(* The sync thread *)

Pending == {q \in rows : ~q.synced}
Open == {q \in Pending : q.batch # 0}
Free == {q \in Pending : q.batch = 0}
OfBatch(b) == {q \in Pending : q.batch = b}
First(S) == CHOOSE q \in S : \A x \in S : q.seq <= x.seq

\* The samples of a new batch: the oldest that are in none.
NewBatch == {q \in Free : Cardinality({x \in Free : x.seq < q.seq}) < batchSize}

\* Mutant of ReserveBatch: a batch that was not acknowledged is filled up.
ReserveBatchRefilled ==
  /\ sender.pc = "idle"
  /\ Pending # {}
  /\ reply' = "none"
  /\ batches' = IF Open = {} THEN batches + 1 ELSE batches
  /\ LET b == IF Open = {} THEN batches' ELSE First(Open).batch
         more == {q \in Free : Cardinality({x \in Pending : x.seq < q.seq}) < batchSize}
     IN  /\ rows' = {IF q \in more THEN [q EXCEPT !.batch = b] ELSE q : q \in rows}
         /\ sender' = [pc |-> "send", batch |-> b, seqs |-> {q.seq : q \in OfBatch(b) \cup more}]
  /\ UNCHANGED <<time, last, processed, rollups, taken, late, thread, batchSize, posts, sink, faults>>

\* Mutant of ReserveBatch: a batch that was not acknowledged is not taken up again.
ReserveBatchAnew ==
  /\ sender.pc = "idle"
  /\ Free # {}
  /\ reply' = "none"
  /\ batches' = batches + 1
  /\ rows' = {IF q \in NewBatch THEN [q EXCEPT !.batch = batches'] ELSE q : q \in rows}
  /\ sender' = [pc |-> "send", batch |-> batches', seqs |-> {q.seq : q \in NewBatch}]
  /\ UNCHANGED <<time, last, processed, rollups, taken, late, thread, batchSize, posts, sink, faults>>

\* reserve_batch: a batch that was not acknowledged is taken up again as it is.
ReserveBatch ==
  /\ sender.pc = "idle"
  /\ Pending # {}
  /\ reply' = "none"
  /\ \/ /\ Open # {}
        /\ LET b == First(Open).batch
           IN  sender' = [pc |-> "send", batch |-> b, seqs |-> {q.seq : q \in OfBatch(b)}]
        /\ UNCHANGED <<rows, batches>>
     \/ /\ Open = {}
        /\ batches' = batches + 1
        /\ rows' = {IF q \in NewBatch THEN [q EXCEPT !.batch = batches'] ELSE q : q \in rows}
        /\ sender' = [pc |-> "send", batch |-> batches', seqs |-> {q.seq : q \in NewBatch}]
  /\ UNCHANGED <<time, last, processed, rollups, taken, late, thread, batchSize, posts, sink, faults>>

\* record_attempt
Attempted(failed) ==
  {IF q \in OfBatch(sender.batch) THEN [q EXCEPT !.error = failed] ELSE q : q \in rows}

\* A request that is too large is split, unless it is a single sample.
TooLarge ==
  /\ rows' = Attempted(TRUE)
  /\ sender' = IF Cardinality(sender.seqs) <= 1 THEN Idle ELSE [sender EXCEPT !.pc = "release"]

\* send_batch: the client refuses what is too large before it sends it.
SendBatch ==
  /\ sender.pc = "send"
  /\ \/ /\ Cardinality(sender.seqs) > BodyLimit
        /\ TooLarge
        /\ UNCHANGED posts
     \/ /\ Cardinality(sender.seqs) <= BodyLimit
        /\ sender' = [sender EXCEPT !.pc = "await"]
        /\ posts' = posts \cup {[batch |-> sender.batch, seqs |-> sender.seqs]}
        /\ UNCHANGED rows
  /\ UNCHANGED <<time, last, processed, rollups, taken, late, thread,
                 reply, batchSize, batches, sink, faults>>

\* The bridge: it stores what it does not have yet, and answers.
Waited(p) == sender.pc = "await" /\ sender.batch = p.batch /\ reply = "none"

Receive(p) ==
  /\ \/ Waited(p)
     \/ ~(p.seqs \subseteq sink)
  /\ sink' = sink \cup p.seqs
  /\ reply' = IF Waited(p) THEN "accepted" ELSE reply
  /\ UNCHANGED <<time, database, thread, sender, batchSize, batches, posts, faults>>

\* The bridge refuses some of the samples, or the whole request.
Refuse(p) ==
  /\ Waited(p)
  /\ Faulty
  /\ \/ /\ reply' = "refused"
        /\ \E S \in SUBSET p.seqs : S # p.seqs /\ sink' = sink \cup S
     \/ /\ reply' = "too_large"
        /\ UNCHANGED sink
  /\ UNCHANGED <<time, database, thread, sender, batchSize, batches, posts>>

\* Mutant of TakeAnswer: refused samples are not looked for.
TakeAnyAnswer ==
  /\ sender.pc = "await"
  /\ \/ /\ reply \in {"accepted", "refused"}
        /\ rows' = Attempted(FALSE)
        /\ sender' = [sender EXCEPT !.pc = "mark"]
     \/ /\ reply = "too_large"
        /\ TooLarge
  /\ reply' = "none"
  /\ UNCHANGED <<time, last, processed, rollups, taken, late, thread,
                 batchSize, batches, posts, sink, faults>>

\* _validate_ack decides whether the answer counts as a delivery.
TakeAnswer ==
  /\ sender.pc = "await"
  /\ \/ /\ reply = "accepted"
        /\ rows' = Attempted(FALSE)
        /\ sender' = [sender EXCEPT !.pc = "mark"]
     \/ /\ reply = "refused"
        /\ rows' = Attempted(TRUE)
        /\ sender' = Idle
     \/ /\ reply = "too_large"
        /\ TooLarge
  /\ reply' = "none"
  /\ UNCHANGED <<time, last, processed, rollups, taken, late, thread,
                 batchSize, batches, posts, sink, faults>>

\* No answer in time, or the connection is lost.
NoAnswer ==
  /\ sender.pc = "await"
  /\ Faulty
  /\ rows' = Attempted(TRUE)
  /\ sender' = Idle
  /\ reply' = "none"
  /\ UNCHANGED <<time, last, processed, rollups, taken, late, thread,
                 batchSize, batches, posts, sink>>

\* Mutant of ReleaseBatch: the size goes down by what was too large.
ReleaseBatchSubtracting ==
  /\ sender.pc = "release"
  /\ rows' = {IF q \in OfBatch(sender.batch) THEN [q EXCEPT !.batch = 0] ELSE q : q \in rows}
  /\ batchSize' = batchSize - Cardinality(sender.seqs)
  /\ sender' = Idle
  /\ UNCHANGED <<time, last, processed, rollups, taken, late, thread,
                 reply, batches, posts, sink, faults>>

\* release_batch, and half the size from here on.
ReleaseBatch ==
  /\ sender.pc = "release"
  /\ rows' = {IF q \in OfBatch(sender.batch) THEN [q EXCEPT !.batch = 0] ELSE q : q \in rows}
  /\ LET half == Cardinality(sender.seqs) \div 2
         least == IF half < batchSize THEN half ELSE batchSize
     IN  batchSize' = IF least < 1 THEN 1 ELSE least
  /\ sender' = Idle
  /\ UNCHANGED <<time, last, processed, rollups, taken, late, thread,
                 reply, batches, posts, sink, faults>>

MarkBatchSynced ==
  /\ sender.pc = "mark"
  /\ rows' = {IF q \in OfBatch(sender.batch) THEN [q EXCEPT !.synced = TRUE, !.error = FALSE] ELSE q :
                q \in rows}
  /\ sender' = Idle
  /\ UNCHANGED <<time, last, processed, rollups, taken, late, thread,
                 reply, batchSize, batches, posts, sink, faults>>

\* The process is killed and started again: what it had in memory is gone.
Restart ==
  /\ Faulty
  /\ thread' = "capture"
  /\ sender' = Idle
  /\ reply' = "none"
  /\ batchSize' = BatchSize
  /\ UNCHANGED <<time, database, batches, posts, sink>>

------------------------------------------------------------------------------
CaptureThread == Capture \/ BuildRollups \/ PruneHistory
SyncThread == ReserveBatch \/ SendBatch \/ TakeAnswer \/ ReleaseBatch \/ MarkBatchSynced
Bridge == \E p \in posts : Receive(p)

TelemetryNext ==
  \/ Tick \/ StepBack
  \/ CaptureThread \/ MaintenanceFails
  \/ SyncThread \/ NoAnswer
  \/ Bridge \/ \E p \in posts : Refuse(p)
  \/ Restart

TelemetrySpec == TelemetryInit /\ [][TelemetryNext]_telemetryVars

\* The sync thread runs on and the bridge answers in the end.
TelemetryFairness == WF_telemetryVars(SyncThread) /\ WF_telemetryVars(Bridge)

------------------------------------------------------------------------------
(* Properties *)

\* The store implements the outbox: a row is marked, and pruned, only after the
\* bridge has its sample (agent.sync_once, store.prune_history).
Outbox == INSTANCE Outbox WITH captured <- last, owed <- {q.seq : q \in Pending}, delivered <- sink
DeliversBeforeForgetting == Outbox!Spec

\* The bridge tells a repeated batch from a new one by its identifier, so one
\* identifier never names two sets of samples, whatever was released, resent or
\* restarted in between (store.reserve_batch, store.release_batch).
OneBatchOneContent == \A p, q \in posts : p.batch = q.batch => p.seqs = q.seqs

\* The rows that are about to be marked or released are those that were sent: the
\* counts sync_once compares with the batch's length agree.
HeldBatchIsWhole ==
  sender.pc # "idle" => {q.seq : q \in OfBatch(sender.batch)} = sender.seqs

\* Together: what the bridge has seen of a batch and what the store holds of it agree.
BatchesAreStable == OneBatchOneContent /\ HeldBatchIsWhole

\* At most one batch is open.
OneOpenBatch == \A p, q \in Open : p.batch = q.batch

\* A bucket counts every sample captured in its time, but those that came after it
\* was closed, because the clock was set back.
RollupsExact ==
  \A r \in Resolutions : \A b \in rollups[r] :
    /\ b.seqs \subseteq {t.seq : t \in taken}
    /\ {t.seq : t \in {x \in taken : b.start <= x.at /\ x.at < b.start + Width[r]}} \ late = b.seqs \ late

\* "adding long-range history cannot silently create holes": in every resolution a
\* sample is there, or it is counted, or its bucket has outlived its retention.
NoSilentHole ==
  \A t \in taken : t.seq \notin late =>
    \A r \in Resolutions :
      \/ t.seq \in {q.seq : q \in rows}
      \/ \E b \in rollups[r] : t.seq \in b.seqs
      \/ processed[r] > t.at /\ Floor(t.at, Width[r]) + Keep[r] < peak

\* Together: the rollups hide nothing and invent nothing.
RollupsFaithful == RollupsExact /\ NoSilentHole

\* Every captured sample reaches the bridge and is marked, if a single sample fits
\* a request.
EverySampleSynced == \A s \in Seqs : last >= s ~> ~ \E q \in Pending : q.seq = s
==============================================================================
