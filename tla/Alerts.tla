-------------------------------- MODULE Alerts --------------------------------
(***************************************************************************)
(* The alerts of the core: AlertingVentilationService, whose health        *)
(* monitor and clients' commands each turn the state they saw into signals *)
(* and reconcile the alerts with them afterwards, AlertRegistry with its   *)
(* lock and its cache of the latest counts, and SqliteAlertStore, which    *)
(* commits every record by itself and outlives the core.                   *)
(*                                                                         *)
(* The registry works through a reconciliation one record at a time, so    *)
(* that a failing write or a crash falls between any two. A record is its  *)
(* key and its persisted count; a change of its wording, which makes the   *)
(* registry write it early, may happen at any time. Acknowledgements,      *)
(* which nothing here depends on, and cleared records are not kept.        *)
(***************************************************************************)
EXTENDS Integers

CONSTANTS
  Keys,           \* the conditions alerts are about
  CoreKeys,       \* those the service knows of as soon as it is constructed
  Clients,        \* threads that carry out clients' commands
  Health,         \* the health monitor's thread, which also starts the core
  Step,           \* occurrence_persist_step
  MaxCount,       \* bound: how far each condition's count goes, 1 if it has none
  MaxStoreFaults  \* bound: accesses to the store that fail

ASSUME AlertsAssumption ==
  /\ CoreKeys \subseteq Keys
  /\ Health \notin Clients
  /\ Step \in Nat \ {0}
  /\ MaxCount \in [Keys -> Nat \ {0}]
  /\ MaxStoreFaults \in Nat

VARIABLES
  corePhase,   \* the core: down, boot, up
  cond,        \* how often each condition has been seen, 0 when it does not hold
  thr,         \* the threads: where each is, its signals, the records it read
  latest,      \* AlertRegistry._latest_occurrences, 0 for a key it does not hold
  open,        \* the store's active records
  storeFaults  \* failed accesses so far

alertsVars == <<corePhase, cond, thr, latest, open, storeFaults>>

------------------------------------------------------------------------------

Threads == Clients \cup {Health}

Counts == UNION {0..MaxCount[k] : k \in Keys}

Records == [key : Keys, occ : Counts]

Nothing == [k \in Keys |-> 0]

Idle == [pc |-> "idle", sig |-> Nothing, active |-> {}, todo |-> {}]

Larger(a, b) == IF a >= b THEN a ELSE b

Signalled(sig) == {k \in Keys : sig[k] > 0}

\* The registry's lock is free: nobody is in the middle of a reconciliation.
Free == \A t \in Threads : thr[t].pc \in {"idle", "looked"}

\* Mutant of Noted: a signal's count replaces the cached one.
NotedAsSignalled(t, k) == thr[t].sig[k]

\* Mutant of Noted: a signal's count is added to the cached one.
NotedInTotal(t, k) == latest[k] + thr[t].sig[k]

\* The count a signal leaves in the cache; it never goes down.
Noted(t, k) == Larger(latest[k], thr[t].sig[k])

\* A count that has grown by Step is written.
Due(r, n) == n >= r.occ + Step

\* update_active writes the row that is still active.
Rewritten(r, n) ==
  {IF s.key = r.key THEN [s EXCEPT !.occ = Larger(r.occ, n)] ELSE s : s \in open}

Without(k) == {s \in open : s.key # k}

------------------------------------------------------------------------------
(* A reconciliation *)

\* A command or a health check is over; the service's state is read, and what
\* it says of the alerts is worked out.
Look(t) ==
  /\ corePhase = "up"
  /\ thr[t].pc = "idle"
  /\ thr' = [thr EXCEPT ![t].pc = "looked", ![t].sig = cond]
  /\ UNCHANGED <<corePhase, cond, latest, open, storeFaults>>

\* Mutant of Begin: the registry has no lock.
BeginWithoutLock(t) ==
  /\ thr[t].pc = "looked"
  /\ thr' = [thr EXCEPT ![t].pc = "raise", ![t].active = open,
                        ![t].todo = Signalled(thr[t].sig)]
  /\ UNCHANGED <<corePhase, cond, latest, open, storeFaults>>

\* reconcile takes the lock and lists the active records.
Begin(t) ==
  /\ thr[t].pc = "looked"
  /\ Free
  /\ thr' = [thr EXCEPT ![t].pc = "raise", ![t].active = open,
                        ![t].todo = Signalled(thr[t].sig)]
  /\ UNCHANGED <<corePhase, cond, latest, open, storeFaults>>

\* What the write for the signal k would make of the store; when the wording
\* has changed the record is written whatever its count.
Raised(t, k) ==
  LET n == Noted(t, k)
      mine == {r \in thr[t].active : r.key = k}
  IN  IF mine = {} THEN {open \cup {[key |-> k, occ |-> n]}}
      ELSE {Rewritten(r, n) : r \in mine}

\* The signal's record needs no write.
Current(t, k) ==
  \E r \in thr[t].active : r.key = k /\ ~Due(r, Noted(t, k))

\* One signal, of reconcile or of activate.
RaiseKey(t, k) ==
  /\ thr[t].pc \in {"raise", "activate"}
  /\ k \in thr[t].todo
  /\ latest' = [latest EXCEPT ![k] = Noted(t, k)]
  /\ \/ open' \in Raised(t, k)
     \/ Current(t, k) /\ UNCHANGED open
  /\ thr' = [thr EXCEPT ![t].todo = @ \ {k}]
  /\ UNCHANGED <<corePhase, cond, storeFaults>>

\* Mutant of Over: no alert is ever cleared.
NoneOver(t) == {}

\* The records whose condition is not among the signals.
Over(t) == {r.key : r \in thr[t].active} \ Signalled(thr[t].sig)

\* All signals are dealt with; the other active records are to be cleared.
Turn(t) ==
  /\ thr[t].pc = "raise"
  /\ thr[t].todo = {}
  /\ thr' = [thr EXCEPT ![t].pc = "clear", ![t].todo = Over(t)]
  /\ UNCHANGED <<corePhase, cond, latest, open, storeFaults>>

\* Mutant of ClearKey: the cache keeps the count of a cleared record.
ClearKeyOnly(t, k) ==
  /\ thr[t].pc = "clear"
  /\ k \in thr[t].todo
  /\ open' = Without(k)
  /\ thr' = [thr EXCEPT ![t].todo = @ \ {k}]
  /\ UNCHANGED <<corePhase, cond, latest, storeFaults>>

\* One record is cleared, with the cached count, which the cache forgets.
ClearKey(t, k) ==
  /\ thr[t].pc = "clear"
  /\ k \in thr[t].todo
  /\ latest' = [latest EXCEPT ![k] = 0]
  /\ open' = Without(k)
  /\ thr' = [thr EXCEPT ![t].todo = @ \ {k}]
  /\ UNCHANGED <<corePhase, cond, storeFaults>>

\* reconcile returns and releases the lock.
Return(t) ==
  /\ thr[t].pc = "clear"
  /\ thr[t].todo = {}
  /\ thr' = [thr EXCEPT ![t] = Idle]
  /\ UNCHANGED <<corePhase, cond, latest, open, storeFaults>>

------------------------------------------------------------------------------
(* What goes wrong, and the life of the core *)

\* The store cannot be listed, or a write raises, whether it was committed or
\* not; the cache has been changed by then. The rest of the reconciliation is
\* given up, and so is the start of the core.
StoreFails(t) ==
  /\ storeFaults < MaxStoreFaults
  /\ storeFaults' = storeFaults + 1
  /\ \/ /\ thr[t].pc = "looked"
        /\ Free
        /\ UNCHANGED <<latest, open>>
     \/ /\ thr[t].pc \in {"raise", "activate"}
        /\ \E k \in thr[t].todo :
             /\ latest' = [latest EXCEPT ![k] = Noted(t, k)]
             /\ open' \in {open} \cup Raised(t, k)
     \/ /\ thr[t].pc = "clear"
        /\ \E k \in thr[t].todo :
             /\ latest' = [latest EXCEPT ![k] = 0]
             /\ open' \in {open, Without(k)}
  /\ thr' = [thr EXCEPT ![t] = Idle]
  /\ corePhase' = IF corePhase = "boot" THEN "down" ELSE corePhase
  /\ UNCHANGED cond

\* A condition begins or is seen once more.
Worsens(k) ==
  /\ corePhase = "up"
  /\ cond[k] < MaxCount[k]
  /\ cond' = [cond EXCEPT ![k] = @ + 1]
  /\ UNCHANGED <<corePhase, thr, latest, open, storeFaults>>

Ceases(k) ==
  /\ corePhase = "up"
  /\ cond[k] > 0
  /\ cond' = [cond EXCEPT ![k] = 0]
  /\ UNCHANGED <<corePhase, thr, latest, open, storeFaults>>

\* The core dies at any point, or is shut down.
Crash ==
  /\ corePhase # "down"
  /\ corePhase' = "down"
  /\ thr' = [t \in Threads |-> Idle]
  /\ UNCHANGED <<cond, latest, open, storeFaults>>

\* The counts of active records are loaded into the cache; the core's counters
\* start anew, and the service activates what it finds at construction.
Boot ==
  /\ corePhase = "down"
  /\ corePhase' = "boot"
  /\ latest' \in {n \in [Keys -> Counts] :
       \A k \in Keys : IF \E r \in open : r.key = k
                       THEN \E r \in open : r.key = k /\ n[k] = r.occ
                       ELSE n[k] = 0}
  /\ cond' \in {c \in [Keys -> {0, 1}] : Signalled(c) \subseteq CoreKeys}
  /\ thr' = [thr EXCEPT ![Health] =
       [pc |-> "activate", sig |-> cond', active |-> open, todo |-> Signalled(cond')]]
  /\ UNCHANGED <<open, storeFaults>>

Serve ==
  /\ thr[Health].pc = "activate"
  /\ thr[Health].todo = {}
  /\ corePhase' = "up"
  /\ thr' = [thr EXCEPT ![Health] = Idle]
  /\ UNCHANGED <<cond, latest, open, storeFaults>>

------------------------------------------------------------------------------

AlertsInit ==
  /\ corePhase = "down"
  /\ cond = Nothing
  /\ thr = [t \in Threads |-> Idle]
  /\ latest = Nothing
  /\ open = {}
  /\ storeFaults = 0

\* A thread that holds the registry's lock goes on.
Works(t) ==
  \/ \E k \in Keys : RaiseKey(t, k) \/ ClearKey(t, k)
  \/ Turn(t) \/ Return(t)

AlertsNext ==
  \/ \E t \in Threads : Look(t) \/ Begin(t) \/ Works(t) \/ StoreFails(t)
  \/ \E k \in Keys : Worsens(k) \/ Ceases(k)
  \/ Crash \/ Boot \/ Serve

\* The health monitor loops for ever and gets the lock among the clients, and
\* whoever holds the lock goes on; a client may stay where it is.
AlertsFairness ==
  /\ WF_alertsVars(Look(Health))
  /\ SF_alertsVars(Begin(Health))
  /\ \A t \in Threads : WF_alertsVars(Works(t))

AlertsSpec == AlertsInit /\ [][AlertsNext]_alertsVars

AlertsFairSpec == AlertsSpec /\ AlertsFairness

------------------------------------------------------------------------------
(* Properties *)

Reconciliations ==
  [pc : {"idle", "looked", "raise", "activate", "clear"}, sig : [Keys -> Counts],
   active : SUBSET Records, todo : SUBSET Keys]

\* Every variable has its type; no count exceeds what a condition reached.
AlertsTypeOK ==
  /\ corePhase \in {"down", "boot", "up"}
  /\ cond \in [Keys -> Counts]
  /\ thr \in [Threads -> Reconciliations]
  /\ latest \in [Keys -> Counts]
  /\ open \in SUBSET Records
  /\ storeFaults \in Nat

\* The store never holds two active records of one key, however the threads'
\* reconciliations, failed writes and restarts follow one another: its unique
\* index on active keys is never put to use.
OneActivePerKey == \A r, s \in open : r.key = s.key => r = s

\* The count clients are shown: with_latest_occurrences.
Shown(r) == Larger(r.occ, latest[r.key])

\* While the core runs and no access to the store has failed, before a
\* reconciliation, between its writes and after it, the cache and the store
\* agree: the cache holds a count for exactly the active records, and what it is
\* ahead of the store, all that a crash can lose, is less than Step.
CacheMatchesStore ==
  corePhase # "down" /\ storeFaults = 0 =>
    /\ \A r \in open : latest[r.key] \in r.occ..(r.occ + Step - 1)
    /\ \A k \in Keys : latest[k] > 0 => \E r \in open : r.key = k

\* The count clients are shown of an active alert never goes down while the core
\* runs, although threads reconcile it with counts they read long ago, in any
\* order; a failing access to the store excepted.
CountsNeverDrop ==
  [][corePhase = "up" /\ corePhase' = "up" /\ storeFaults' = storeFaults =>
       \A r \in open, s \in open' : r.key = s.key => Larger(s.occ, latest'[r.key]) >= Shown(r)]_alertsVars

\* In a core that stays up, a condition that lasts comes to have an active alert
\* for good, and one that is over for good comes to have none, whatever stale
\* signals clients still bring.
AlertsFollowConditions ==
  \A k \in Keys :
    /\ <>[](corePhase = "up" /\ cond[k] > 0) => <>[](\E r \in open : r.key = k)
    /\ <>[](corePhase = "up" /\ cond[k] = 0) => <>[](\A r \in open : r.key # k)
==============================================================================
