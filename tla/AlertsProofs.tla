----------------------------- MODULE AlertsProofs -----------------------------
(***************************************************************************)
(* What Alerts guarantees for every set of conditions and threads, every   *)
(* batch size, and any number of failed accesses and restarts.             *)
(***************************************************************************)
EXTENDS Alerts, TLAPS

------------------------------------------------------------------------------
(* Types *)

Points == {"idle", "looked", "raise", "activate", "clear"}

LEMMA CountTypes ==
  /\ \A n \in Counts : n \in Nat
  /\ \A k \in Keys : 0 \in Counts /\ 1 \in Counts /\ 0..MaxCount[k] \subseteq Counts
<1>1. ASSUME NEW n \in Counts
      PROVE  n \in Nat
  BY AlertsAssumption DEF Counts
<1>2. ASSUME NEW k \in Keys
      PROVE  0 \in Counts /\ 1 \in Counts /\ 0..MaxCount[k] \subseteq Counts
  <2>1. 0..MaxCount[k] \subseteq Counts
    BY DEF Counts
  <2>2. MaxCount[k] \in Nat \ {0}
    BY AlertsAssumption
  <2> QED
    BY <2>1, <2>2
<1> QED
  BY <1>1, <1>2

LEMMA LargerType ==
  ASSUME NEW a \in Counts, NEW b \in Counts
  PROVE  /\ Larger(a, b) \in Counts
         /\ Larger(a, b) >= a /\ Larger(a, b) >= b
         /\ Larger(a, b) = a \/ Larger(a, b) = b
  BY CountTypes DEF Larger

LEMMA IdleType == Nothing \in [Keys -> Counts] /\ Idle \in Reconciliations
  BY CountTypes DEF Nothing, Idle, Reconciliations

\* Moving a thread keeps its type.
LEMMA ThreadUpdates ==
  ASSUME NEW w \in Reconciliations, NEW pc \in Points, NEW todo \in SUBSET Keys
  PROVE  /\ [w EXCEPT !.pc = pc, !.todo = todo] \in Reconciliations
         /\ [w EXCEPT !.todo = todo] \in Reconciliations
         /\ \A s \in [Keys -> Counts] : [w EXCEPT !.pc = pc, !.sig = s] \in Reconciliations
         /\ \A a \in SUBSET Records :
              [w EXCEPT !.pc = pc, !.active = a, !.todo = todo] \in Reconciliations
  BY DEF Reconciliations, Points

\* The fields of a thread.
LEMMA ThreadFields ==
  ASSUME AlertsTypeOK, NEW t \in Threads
  PROVE  /\ thr[t] \in Reconciliations /\ thr[t].pc \in Points
         /\ thr[t].sig \in [Keys -> Counts] /\ thr[t].active \in SUBSET Records
         /\ thr[t].todo \in SUBSET Keys
  BY DEF AlertsTypeOK, Reconciliations, Points

LEMMA NotedType ==
  ASSUME AlertsTypeOK, NEW t \in Threads, NEW k \in Keys
  PROVE  Noted(t, k) \in Counts /\ Noted(t, k) >= latest[k] /\ Noted(t, k) >= thr[t].sig[k]
  BY ThreadFields, LargerType DEF AlertsTypeOK, Noted

\* What a write makes of the store.
LEMMA RewrittenType ==
  ASSUME AlertsTypeOK, NEW r \in Records, NEW n \in Counts
  PROVE  Rewritten(r, n) \in SUBSET Records
<1>1. \A s \in Records : [s EXCEPT !.occ = Larger(r.occ, n)] \in Records
  BY LargerType DEF Records
<1> QED
  BY <1>1 DEF AlertsTypeOK, Rewritten

LEMMA RaisedType ==
  ASSUME AlertsTypeOK, NEW t \in Threads, NEW k \in Keys
  PROVE  Raised(t, k) \subseteq SUBSET Records
<1>1. [key |-> k, occ |-> Noted(t, k)] \in Records
  BY NotedType DEF Records
<1>2. \A r \in thr[t].active : Rewritten(r, Noted(t, k)) \in SUBSET Records
  BY RewrittenType, NotedType, ThreadFields
<1> QED
  BY <1>1, <1>2 DEF Raised, AlertsTypeOK

LEMMA InitType == AlertsInit => AlertsTypeOK
  BY IdleType DEF AlertsInit, AlertsTypeOK

LEMMA StoreFailsType ==
  ASSUME AlertsTypeOK, NEW t \in Threads, StoreFails(t)
  PROVE  AlertsTypeOK'
<1>1. thr' \in [Threads -> Reconciliations] /\ storeFaults' \in Nat /\ cond' \in [Keys -> Counts]
      /\ corePhase' \in {"down", "boot", "up"}
  BY IdleType DEF StoreFails, AlertsTypeOK
<1>2. latest' \in [Keys -> Counts] /\ open' \in SUBSET Records
  <2>1. CASE UNCHANGED <<latest, open>>
    BY <2>1 DEF AlertsTypeOK
  <2>2. ASSUME NEW k \in thr[t].todo, latest' = [latest EXCEPT ![k] = Noted(t, k)],
               open' \in {open} \cup Raised(t, k)
        PROVE  latest' \in [Keys -> Counts] /\ open' \in SUBSET Records
    <3>1. k \in Keys
      BY ThreadFields
    <3> QED
      BY <2>2, <3>1, NotedType, RaisedType DEF AlertsTypeOK
  <2>3. ASSUME NEW k \in thr[t].todo, latest' = [latest EXCEPT ![k] = 0],
               open' \in {open, Without(k)}
        PROVE  latest' \in [Keys -> Counts] /\ open' \in SUBSET Records
    <3>1. k \in Keys
      BY ThreadFields
    <3> QED
      BY <2>3, <3>1, CountTypes DEF AlertsTypeOK, Without
  <2> QED
    BY <2>1, <2>2, <2>3 DEF StoreFails
<1> QED
  BY <1>1, <1>2 DEF AlertsTypeOK

LEMMA WorksType ==
  ASSUME AlertsTypeOK, NEW t \in Threads, Works(t)
  PROVE  AlertsTypeOK'
<1>1. ASSUME NEW k \in Keys, RaiseKey(t, k)
      PROVE  AlertsTypeOK'
  <2>1. thr' \in [Threads -> Reconciliations]
    <3>1. [thr[t] EXCEPT !.todo = thr[t].todo \ {k}] \in Reconciliations
      BY ThreadFields, ThreadUpdates
    <3> QED
      BY <1>1, <3>1 DEF RaiseKey, AlertsTypeOK
  <2>2. latest' \in [Keys -> Counts]
    BY <1>1, NotedType DEF RaiseKey, AlertsTypeOK
  <2>3. open' \in SUBSET Records
    BY <1>1, RaisedType DEF RaiseKey, AlertsTypeOK
  <2> QED
    BY <1>1, <2>1, <2>2, <2>3 DEF RaiseKey, AlertsTypeOK
<1>2. ASSUME NEW k \in Keys, ClearKey(t, k)
      PROVE  AlertsTypeOK'
  <2>1. thr' \in [Threads -> Reconciliations]
    <3>1. [thr[t] EXCEPT !.todo = thr[t].todo \ {k}] \in Reconciliations
      BY ThreadFields, ThreadUpdates
    <3> QED
      BY <1>2, <3>1 DEF ClearKey, AlertsTypeOK
  <2> QED
    BY <1>2, <2>1, CountTypes DEF ClearKey, Without, AlertsTypeOK
<1>3. CASE Turn(t)
  <2>1. Over(t) \in SUBSET Keys
    BY ThreadFields DEF Over, Records
  <2>2. [thr[t] EXCEPT !.pc = "clear", !.todo = Over(t)] \in Reconciliations
    BY <2>1, ThreadFields, ThreadUpdates DEF Points
  <2> QED
    BY <1>3, <2>2 DEF Turn, AlertsTypeOK
<1>4. CASE Return(t)
  BY <1>4, IdleType DEF Return, AlertsTypeOK
<1> QED
  BY <1>1, <1>2, <1>3, <1>4 DEF Works

LEMMA TypeStep == AlertsTypeOK /\ [AlertsNext]_alertsVars => AlertsTypeOK'
<1> SUFFICES ASSUME AlertsTypeOK, [AlertsNext]_alertsVars
             PROVE  AlertsTypeOK'
  OBVIOUS
<1>1. ASSUME NEW t \in Threads, Look(t)
      PROVE  AlertsTypeOK'
  <2>1. [thr[t] EXCEPT !.pc = "looked", !.sig = cond] \in Reconciliations
    BY ThreadFields, ThreadUpdates DEF AlertsTypeOK, Points
  <2> QED
    BY <1>1, <2>1 DEF Look, AlertsTypeOK
<1>2. ASSUME NEW t \in Threads, Begin(t)
      PROVE  AlertsTypeOK'
  <2>1. [thr[t] EXCEPT !.pc = "raise", !.active = open, !.todo = Signalled(thr[t].sig)]
          \in Reconciliations
    BY ThreadFields, ThreadUpdates DEF AlertsTypeOK, Points, Signalled
  <2> QED
    BY <1>2, <2>1 DEF Begin, AlertsTypeOK
<1>3. ASSUME NEW k \in Keys, Worsens(k)
      PROVE  AlertsTypeOK'
  <2>1. cond[k] \in Nat /\ MaxCount[k] \in Nat
    BY CountTypes, AlertsAssumption DEF AlertsTypeOK
  <2>2. cond[k] + 1 \in Counts
    BY <1>3, <2>1, CountTypes DEF Worsens
  <2> QED
    BY <1>3, <2>2 DEF Worsens, AlertsTypeOK
<1>4. ASSUME NEW k \in Keys, Ceases(k)
      PROVE  AlertsTypeOK'
  BY <1>4, CountTypes DEF Ceases, AlertsTypeOK
<1>5. CASE Crash
  BY <1>5, IdleType DEF Crash, AlertsTypeOK
<1>6. CASE Boot
  <2>1. cond' \in [Keys -> Counts]
    BY <1>6, CountTypes DEF Boot
  <2>2. [pc |-> "activate", sig |-> cond', active |-> open, todo |-> Signalled(cond')]
          \in Reconciliations
    BY <2>1 DEF Reconciliations, AlertsTypeOK, Signalled
  <2>3. latest' \in [Keys -> Counts]
    BY <1>6 DEF Boot
  <2> QED
    BY <1>6, <2>1, <2>2, <2>3 DEF Boot, AlertsTypeOK
<1>7. CASE Serve
  BY <1>7, IdleType DEF Serve, AlertsTypeOK
<1>8. CASE UNCHANGED alertsVars
  BY <1>8 DEF alertsVars, AlertsTypeOK
<1> QED
  BY <1>1, <1>2, <1>3, <1>4, <1>5, <1>6, <1>7, <1>8, StoreFailsType, WorksType DEF AlertsNext

\* Every variable keeps its type, and no count ever exceeds what some condition
\* can reach.
THEOREM TypesAreKept == AlertsSpec => []AlertsTypeOK
<1> QED
  BY InitType, TypeStep, PTL DEF AlertsSpec

------------------------------------------------------------------------------
(* The inductive invariant *)

Working(t) == thr[t].pc \in {"raise", "activate", "clear"}

\* The registry's lock: one thread at a time is in a reconciliation.
OneWorks == \A t, u \in Threads : Working(t) /\ Working(u) => t = u

\* Before the core serves, only the thread that constructs it does anything.
QuietUnlessUp ==
  corePhase # "up" => \A t \in Threads : thr[t].pc # "idle" => t = Health /\ corePhase = "boot"

\* What a thread has read of the store is still so for the signals ahead of it.
ReadingHolds ==
  \A t \in Threads : thr[t].pc \in {"raise", "activate"} =>
    \A k \in thr[t].todo, r \in Records : r.key = k => (r \in thr[t].active <=> r \in open)

IInv ==
  AlertsTypeOK /\ OneActivePerKey /\ CacheMatchesStore /\ OneWorks /\ QuietUnlessUp /\ ReadingHolds

\* What the write for a signal makes of the store: the records of other keys
\* stay, and the key has one record, whose count is the noted one, or was larger.
LEMMA RaisedShape ==
  ASSUME AlertsTypeOK, OneActivePerKey, ReadingHolds, NEW t \in Threads, NEW k \in thr[t].todo,
         thr[t].pc \in {"raise", "activate"}, NEW o \in Raised(t, k)
  PROVE  /\ \A r \in Records : r.key # k => (r \in o <=> r \in open)
         /\ \E s \in o : s.key = k
         /\ \A s \in o : s.key = k =>
              \/ s.occ = Noted(t, k) /\ \A r \in open : r.key # k
              \/ \E r \in open : r.key = k /\ s.occ = Larger(r.occ, Noted(t, k))
         /\ \A r, s \in o : r.key = s.key => r = s
<1> DEFINE n == Noted(t, k)
           mine == {r \in thr[t].active : r.key = k}
           new == [key |-> k, occ |-> n]
<1>1. k \in Keys /\ open \subseteq Records /\ thr[t].active \subseteq Records /\ n \in Counts
  BY ThreadFields, NotedType DEF AlertsTypeOK
<1>2. \A r \in Records : r.key = k => (r \in thr[t].active <=> r \in open)
  BY DEF ReadingHolds
<1>3. CASE mine = {}
  <2>1. o = open \cup {new}
    BY <1>3 DEF Raised
  <2>2. \A r \in open : r.key # k
    BY <1>1, <1>2, <1>3
  <2>3. new.key = k /\ new.occ = n
    OBVIOUS
  <2> QED
    BY <1>1, <2>1, <2>2, <2>3 DEF OneActivePerKey
<1>4. CASE mine # {}
  <2>1. PICK r \in mine : o = Rewritten(r, n)
    BY <1>4 DEF Raised
  <2> DEFINE new2 == [r EXCEPT !.occ = Larger(r.occ, n)]
  <2>2. r \in open /\ r.key = k /\ r \in Records
    BY <1>1, <1>2
  <2>3. \A s \in open : s.key = k => s = r
    BY <2>2 DEF OneActivePerKey
  <2>4. o = {IF s.key = k THEN [s EXCEPT !.occ = Larger(r.occ, n)] ELSE s : s \in open}
    BY <2>1, <2>2 DEF Rewritten
  <2>5. \A s \in o : s = new2 \/ (s \in open /\ s.key # k)
    BY <2>3, <2>4
  <2>6. new2 \in o /\ \A s \in open : s.key # k => s \in o
    BY <2>2, <2>4
  <2>7. new2.key = k /\ new2.occ = Larger(r.occ, n)
    BY <2>2 DEF Records
  <2> QED
    BY <1>1, <2>2, <2>5, <2>6, <2>7 DEF OneActivePerKey
<1> QED
  BY <1>3, <1>4

\* The threads that a step does not move stay where they are.
LEMMA OthersStay ==
  ASSUME AlertsTypeOK, NEW t \in Threads, NEW w, thr' = [thr EXCEPT ![t] = w]
  PROVE  thr'[t] = w /\ \A u \in Threads \ {t} : thr'[u] = thr[u]
  BY DEF AlertsTypeOK

\* The store after a step: as it was, with one signal's record written, or with
\* one key's record gone.
LEMMA StoreSteps ==
  ASSUME IInv, [AlertsNext]_alertsVars
  PROVE  \/ UNCHANGED open
         \/ \E t \in Threads : \E k \in thr[t].todo :
              thr[t].pc \in {"raise", "activate"} /\ open' \in Raised(t, k)
         \/ \E k \in Keys : open' = Without(k)
<1>1. ASSUME NEW t \in Threads, StoreFails(t), open' # open
      PROVE  \/ \E k \in thr[t].todo :
                  thr[t].pc \in {"raise", "activate"} /\ open' \in Raised(t, k)
             \/ \E k \in Keys : open' = Without(k)
  BY <1>1, ThreadFields DEF StoreFails, IInv
<1>2. ASSUME NEW t \in Threads, Works(t), open' # open
      PROVE  \/ \E k \in thr[t].todo :
                  thr[t].pc \in {"raise", "activate"} /\ open' \in Raised(t, k)
             \/ \E k \in Keys : open' = Without(k)
  BY <1>2 DEF Works, RaiseKey, ClearKey, Turn, Return
<1>3. ASSUME NEW t \in Threads, Look(t) \/ Begin(t)
      PROVE  UNCHANGED open
  BY <1>3 DEF Look, Begin
<1>4. ASSUME NEW k \in Keys, Worsens(k) \/ Ceases(k)
      PROVE  UNCHANGED open
  BY <1>4 DEF Worsens, Ceases
<1>5. ASSUME Crash \/ Boot \/ Serve \/ UNCHANGED alertsVars
      PROVE  UNCHANGED open
  BY <1>5 DEF Crash, Boot, Serve, alertsVars
<1> QED
  BY <1>1, <1>2, <1>3, <1>4, <1>5 DEF AlertsNext

LEMMA OneActiveStep == IInv /\ [AlertsNext]_alertsVars => OneActivePerKey'
<1> SUFFICES ASSUME IInv, [AlertsNext]_alertsVars
             PROVE  OneActivePerKey'
  OBVIOUS
<1>1. CASE UNCHANGED open
  BY <1>1 DEF IInv, OneActivePerKey
<1>2. ASSUME NEW t \in Threads, NEW k \in thr[t].todo, thr[t].pc \in {"raise", "activate"},
             open' \in Raised(t, k)
      PROVE  OneActivePerKey'
  BY <1>2, RaisedShape DEF IInv, OneActivePerKey
<1>3. ASSUME NEW k \in Keys, open' = Without(k)
      PROVE  OneActivePerKey'
  BY <1>3 DEF IInv, OneActivePerKey, Without
<1> QED
  BY <1>1, <1>2, <1>3, StoreSteps

\* What a thread's step does to the thread: it looks, begins, goes on or ends.
LEMMA ThreadSteps ==
  ASSUME IInv, NEW t \in Threads, Look(t) \/ Begin(t) \/ Works(t) \/ StoreFails(t)
  PROVE  /\ \A u \in Threads \ {t} : thr'[u] = thr[u]
         /\ \/ /\ thr[t].pc = "idle" /\ thr'[t].pc = "looked"
               /\ corePhase = "up" /\ UNCHANGED <<corePhase, open>>
            \/ /\ thr[t].pc = "looked" /\ thr'[t].pc = "raise" /\ Free
               /\ thr'[t].active = open /\ UNCHANGED <<corePhase, open>>
            \/ /\ Working(t) /\ thr'[t].pc \in {"raise", "activate", "clear"}
               /\ thr'[t].pc \in {"raise", "activate"} =>
                    /\ thr'[t].pc = thr[t].pc /\ thr'[t].active = thr[t].active
                    /\ \E k \in thr[t].todo : thr'[t].todo = thr[t].todo \ {k}
                                             /\ open' \in {open} \cup Raised(t, k)
               /\ UNCHANGED corePhase
            \/ /\ thr[t].pc # "idle" /\ thr'[t].pc = "idle"
               /\ corePhase' = IF corePhase = "boot" THEN "down" ELSE corePhase
               /\ UNCHANGED open \/ Working(t)
            \/ thr[t].pc = "clear" /\ thr'[t].pc = "idle" /\ UNCHANGED <<corePhase, open>>
<1> USE DEF IInv
<1>1. thr \in [Threads -> Reconciliations] /\ thr[t] \in Reconciliations
  BY ThreadFields DEF AlertsTypeOK
<1>2. CASE Look(t)
  BY <1>1, <1>2 DEF Look, Reconciliations
<1>3. CASE Begin(t)
  BY <1>1, <1>3 DEF Begin, Reconciliations
<1>4. ASSUME NEW k \in Keys, RaiseKey(t, k)
      PROVE  /\ \A u \in Threads \ {t} : thr'[u] = thr[u]
             /\ Working(t) /\ thr'[t].pc = thr[t].pc /\ thr'[t].active = thr[t].active
             /\ k \in thr[t].todo /\ thr'[t].todo = thr[t].todo \ {k}
             /\ open' \in {open} \cup Raised(t, k)
             /\ UNCHANGED corePhase
  BY <1>1, <1>4 DEF RaiseKey, Reconciliations, Working
<1>5. ASSUME NEW k \in Keys, ClearKey(t, k)
      PROVE  /\ \A u \in Threads \ {t} : thr'[u] = thr[u]
             /\ Working(t) /\ thr'[t].pc = "clear" /\ UNCHANGED corePhase
  BY <1>1, <1>5 DEF ClearKey, Reconciliations, Working
<1>6. CASE Turn(t)
  <2>1. thr'[t].pc = "clear"
    BY <1>1, <1>6 DEF Turn, Reconciliations
  <2> QED
    BY <1>1, <1>6, <2>1 DEF Turn, Working
<1>7. CASE Return(t)
  BY <1>1, <1>7 DEF Return, Idle
<1>8. CASE StoreFails(t)
  <2>1. thr' = [thr EXCEPT ![t] = Idle] /\ corePhase' = (IF corePhase = "boot" THEN "down" ELSE corePhase)
    BY <1>8 DEF StoreFails
  <2>2. thr[t].pc # "idle" /\ (UNCHANGED open \/ Working(t))
    BY <1>8 DEF StoreFails, Working
  <2> QED
    BY <1>1, <2>1, <2>2 DEF Idle
<1>9. CASE Works(t)
  <2>1. ASSUME NEW k \in Keys, RaiseKey(t, k)
        PROVE  thr[t].pc \in {"raise", "activate", "clear"}
    BY <2>1 DEF RaiseKey
  <2> QED
    BY <1>4, <1>5, <1>6, <1>7, <1>9 DEF Works, Working
<1> QED
  BY <1>2, <1>3, <1>8, <1>9

LEMMA OneWorksStep == IInv /\ [AlertsNext]_alertsVars => OneWorks'
<1> SUFFICES ASSUME IInv, [AlertsNext]_alertsVars
             PROVE  OneWorks'
  OBVIOUS
<1>1. ASSUME NEW t \in Threads, Look(t) \/ Begin(t) \/ Works(t) \/ StoreFails(t)
      PROVE  OneWorks'
  BY <1>1, ThreadSteps DEF IInv, OneWorks, Working, Free
<1>2. ASSUME NEW k \in Keys, Worsens(k) \/ Ceases(k)
      PROVE  OneWorks'
  BY <1>2 DEF Worsens, Ceases, IInv, OneWorks, Working
<1>3. CASE Crash
  BY <1>3 DEF Crash, Idle, OneWorks, Working
<1>4. CASE Boot
  <2>1. \A u \in Threads : thr[u].pc = "idle"
    BY <1>4 DEF Boot, IInv, QuietUnlessUp
  <2>2. \A u \in Threads \ {Health} : thr'[u] = thr[u]
    BY <1>4 DEF Boot, IInv, AlertsTypeOK
  <2> QED
    BY <2>1, <2>2 DEF OneWorks, Working
<1>5. CASE Serve
  <2>1. thr'[Health].pc = "idle" /\ \A u \in Threads \ {Health} : thr'[u] = thr[u]
    BY <1>5 DEF Serve, IInv, AlertsTypeOK, Idle, Threads
  <2> QED
    BY <2>1 DEF IInv, OneWorks, Working
<1>6. CASE UNCHANGED alertsVars
  BY <1>6 DEF alertsVars, IInv, OneWorks, Working
<1> QED
  BY <1>1, <1>2, <1>3, <1>4, <1>5, <1>6 DEF AlertsNext

LEMMA QuietStep == IInv /\ [AlertsNext]_alertsVars => QuietUnlessUp'
<1> SUFFICES ASSUME IInv, [AlertsNext]_alertsVars
             PROVE  QuietUnlessUp'
  OBVIOUS
<1>1. ASSUME NEW t \in Threads, Look(t) \/ Begin(t) \/ Works(t) \/ StoreFails(t)
      PROVE  QuietUnlessUp'
  BY <1>1, ThreadSteps DEF IInv, QuietUnlessUp, Working
<1>2. ASSUME NEW k \in Keys, Worsens(k) \/ Ceases(k)
      PROVE  QuietUnlessUp'
  BY <1>2 DEF Worsens, Ceases, IInv, QuietUnlessUp
<1>3. CASE Crash
  BY <1>3 DEF Crash, Idle, QuietUnlessUp
<1>4. CASE Boot
  <2>1. \A u \in Threads : thr[u].pc = "idle"
    BY <1>4 DEF Boot, IInv, QuietUnlessUp
  <2>2. corePhase' = "boot" /\ \A u \in Threads \ {Health} : thr'[u] = thr[u]
    BY <1>4 DEF Boot, IInv, AlertsTypeOK
  <2> QED
    BY <2>1, <2>2 DEF QuietUnlessUp
<1>5. CASE Serve
  BY <1>5 DEF Serve, QuietUnlessUp
<1>6. CASE UNCHANGED alertsVars
  BY <1>6 DEF alertsVars, IInv, QuietUnlessUp
<1> QED
  BY <1>1, <1>2, <1>3, <1>4, <1>5, <1>6 DEF AlertsNext

LEMMA ReadingStep == IInv /\ [AlertsNext]_alertsVars => ReadingHolds'
<1> SUFFICES ASSUME IInv, [AlertsNext]_alertsVars
             PROVE  ReadingHolds'
  OBVIOUS
<1>1. ASSUME NEW t \in Threads, Look(t) \/ Begin(t) \/ Works(t) \/ StoreFails(t)
      PROVE  ReadingHolds'
  <2> SUFFICES ASSUME NEW u \in Threads, thr'[u].pc \in {"raise", "activate"},
                      NEW k \in thr'[u].todo, NEW r \in Records, r.key = k
               PROVE  r \in thr'[u].active <=> r \in open'
    BY DEF ReadingHolds
  <2>1. CASE UNCHANGED open /\ u # t
    BY <1>1, <2>1, ThreadSteps DEF IInv, ReadingHolds
  <2>2. CASE ~UNCHANGED open /\ u # t
    <3>1. Working(t) /\ Working(u)
      BY <1>1, <2>2, ThreadSteps DEF Working
    <3> QED
      BY <2>2, <3>1 DEF IInv, OneWorks
  <2>3. CASE u = t /\ thr[t].pc = "looked"
    BY <1>1, <2>3, ThreadSteps DEF Working
  <2>4. CASE u = t /\ thr[t].pc # "looked"
    <3>1. /\ thr[t].pc \in {"raise", "activate"} /\ thr'[t].active = thr[t].active
          /\ \E q \in thr[t].todo : thr'[t].todo = thr[t].todo \ {q}
                                   /\ open' \in {open} \cup Raised(t, q)
      BY <1>1, <2>4, ThreadSteps
    <3>2. PICK q \in thr[t].todo : thr'[t].todo = thr[t].todo \ {q}
                                  /\ open' \in {open} \cup Raised(t, q)
      BY <3>1
    <3>3. k \in thr[t].todo /\ k # q
      BY <2>4, <3>2
    <3>4. r \in open' <=> r \in open
      BY <3>1, <3>2, <3>3, RaisedShape DEF IInv
    <3> QED
      BY <2>4, <3>1, <3>3, <3>4 DEF IInv, ReadingHolds
  <2> QED
    BY <2>1, <2>2, <2>3, <2>4
<1>2. ASSUME NEW k \in Keys, Worsens(k) \/ Ceases(k)
      PROVE  ReadingHolds'
  BY <1>2 DEF Worsens, Ceases, IInv, ReadingHolds
<1>3. CASE Crash
  BY <1>3 DEF Crash, Idle, ReadingHolds
<1>4. CASE Boot
  <2>1. \A u \in Threads : thr[u].pc = "idle"
    BY <1>4 DEF Boot, IInv, QuietUnlessUp
  <2>2. /\ \A u \in Threads \ {Health} : thr'[u] = thr[u]
        /\ thr'[Health].active = open /\ UNCHANGED open
    BY <1>4 DEF Boot, IInv, AlertsTypeOK, Threads
  <2> QED
    BY <2>1, <2>2 DEF ReadingHolds
<1>5. CASE Serve
  <2>1. /\ thr'[Health].pc = "idle" /\ UNCHANGED open
        /\ \A u \in Threads \ {Health} : thr'[u] = thr[u]
    BY <1>5 DEF Serve, IInv, AlertsTypeOK, Idle, Threads
  <2> QED
    BY <2>1 DEF IInv, ReadingHolds
<1>6. CASE UNCHANGED alertsVars
  BY <1>6 DEF alertsVars, IInv, ReadingHolds
<1> QED
  BY <1>1, <1>2, <1>3, <1>4, <1>5, <1>6 DEF AlertsNext

\* The count a record shows is the cached one, within a batch of the written one.
Close(r) == latest[r.key] \in r.occ..(r.occ + Step - 1)

LEMMA CacheStep == IInv /\ [AlertsNext]_alertsVars => CacheMatchesStore'
<1> SUFFICES ASSUME IInv, [AlertsNext]_alertsVars, corePhase' # "down", storeFaults' = 0
             PROVE  /\ \A r \in open' : latest'[r.key] \in r.occ..(r.occ + Step - 1)
                    /\ \A k \in Keys : latest'[k] > 0 => \E r \in open' : r.key = k
  BY DEF CacheMatchesStore
<1> USE DEF IInv
<1>0. /\ latest \in [Keys -> Counts] /\ open \subseteq Records /\ storeFaults \in Nat
      /\ \A r \in Records : r.key \in Keys /\ r.occ \in Nat
      /\ \A k \in Keys : latest[k] \in Nat
      /\ Step \in Nat \ {0}
  BY CountTypes, AlertsAssumption DEF AlertsTypeOK, Records
<1>1. ASSUME NEW t \in Threads, StoreFails(t)
      PROVE  FALSE
  BY <1>0, <1>1 DEF StoreFails
<1>2. ASSUME UNCHANGED <<latest, open, storeFaults>>, corePhase # "down"
      PROVE  /\ \A r \in open' : latest'[r.key] \in r.occ..(r.occ + Step - 1)
             /\ \A k \in Keys : latest'[k] > 0 => \E r \in open' : r.key = k
  BY <1>2 DEF CacheMatchesStore
<1>3. ASSUME NEW t \in Threads, NEW k \in Keys, RaiseKey(t, k)
      PROVE  /\ \A r \in open' : latest'[r.key] \in r.occ..(r.occ + Step - 1)
             /\ \A q \in Keys : latest'[q] > 0 => \E r \in open' : r.key = q
  <2> DEFINE n == Noted(t, k)
  <2>1. /\ n \in Nat /\ n >= latest[k]
        /\ latest'[k] = n /\ \A q \in Keys \ {k} : latest'[q] = latest[q]
    BY <1>0, <1>3, NotedType, CountTypes DEF RaiseKey
  <2>2. corePhase # "down" /\ storeFaults = 0 /\ k \in thr[t].todo /\ thr[t].pc \in {"raise", "activate"}
    BY <1>3 DEF RaiseKey
  <2>3. /\ \A r \in open : Close(r)
        /\ \A q \in Keys : latest[q] > 0 => \E r \in open : r.key = q
    BY <2>2 DEF CacheMatchesStore, Close
  <2>4. CASE open' \in Raised(t, k)
    <3>1. /\ \A r \in Records : r.key # k => (r \in open' <=> r \in open)
          /\ \E s \in open' : s.key = k
          /\ \A s \in open' : s.key = k =>
               \/ s.occ = n
               \/ \E r \in open : r.key = k /\ s.occ = Larger(r.occ, n)
      BY <2>2, <2>4, RaisedShape
    <3>2. open' \subseteq Records
      BY <1>3, TypeStep DEF AlertsTypeOK
    <3>3. \A r \in open : r.key = k => Larger(r.occ, n) = n
      BY <1>0, <2>1, <2>3 DEF Larger, Close
    <3>4. ASSUME NEW s \in open'
          PROVE  latest'[s.key] \in s.occ..(s.occ + Step - 1)
      <4>1. CASE s.key = k
        <5>1. s.occ = n
          BY <3>1, <3>3, <4>1
        <5> QED
          BY <1>0, <2>1, <4>1, <5>1
      <4>2. CASE s.key # k
        BY <1>0, <2>1, <2>3, <3>1, <3>2, <4>2 DEF Close
      <4> QED
        BY <4>1, <4>2
    <3>5. ASSUME NEW q \in Keys, latest'[q] > 0
          PROVE  \E r \in open' : r.key = q
      <4>1. CASE q # k
        <5>1. PICK r \in open : r.key = q
          BY <2>1, <2>3, <3>5, <4>1
        <5> QED
          BY <1>0, <3>1, <4>1, <5>1
      <4> QED
        BY <3>1, <4>1
    <3> QED
      BY <3>4, <3>5
  <2>5. CASE Current(t, k) /\ UNCHANGED open
    <3>1. PICK r \in thr[t].active : r.key = k /\ ~Due(r, n)
      BY <2>5 DEF Current
    <3>2. r \in open
      BY <2>2, <3>1, ThreadFields DEF ReadingHolds
    <3>3. n < r.occ + Step /\ r.occ <= n
      BY <1>0, <2>1, <2>3, <3>1, <3>2 DEF Due, Close
    <3>4. \A s \in open : s.key = k => s = r
      BY <3>1, <3>2 DEF OneActivePerKey
    <3>5. \A s \in open : latest'[s.key] \in s.occ..(s.occ + Step - 1)
      BY <1>0, <2>1, <2>3, <3>1, <3>2, <3>3, <3>4 DEF Close
    <3>6. \A q \in Keys : latest'[q] > 0 => \E s \in open : s.key = q
      BY <2>1, <2>3, <3>1, <3>2
    <3> QED
      BY <2>5, <3>5, <3>6
  <2> QED
    BY <1>3, <2>4, <2>5 DEF RaiseKey
<1>4. ASSUME NEW t \in Threads, NEW k \in Keys, ClearKey(t, k)
      PROVE  /\ \A r \in open' : latest'[r.key] \in r.occ..(r.occ + Step - 1)
             /\ \A q \in Keys : latest'[q] > 0 => \E r \in open' : r.key = q
  <2>1. /\ latest'[k] = 0 /\ \A q \in Keys \ {k} : latest'[q] = latest[q]
        /\ open' = {s \in open : s.key # k}
    BY <1>0, <1>4 DEF ClearKey, Without
  <2>2. /\ \A r \in open : Close(r)
        /\ \A q \in Keys : latest[q] > 0 => \E r \in open : r.key = q
    BY <1>4 DEF ClearKey, CacheMatchesStore, Close
  <2>3. \A r \in open' : latest'[r.key] \in r.occ..(r.occ + Step - 1)
    BY <1>0, <2>1, <2>2 DEF Close
  <2>4. \A q \in Keys : latest'[q] > 0 => \E r \in open' : r.key = q
    BY <1>0, <2>1, <2>2
  <2> QED
    BY <2>3, <2>4
<1>5. CASE Boot
  <2>1. /\ latest' \in [Keys -> Counts] /\ UNCHANGED open
        /\ \A k \in Keys : IF \E r \in open : r.key = k
                           THEN \E r \in open : r.key = k /\ latest'[k] = r.occ
                           ELSE latest'[k] = 0
    BY <1>5 DEF Boot
  <2>2. ASSUME NEW s \in open
        PROVE  latest'[s.key] = s.occ
    <3>1. PICK r \in open : r.key = s.key /\ latest'[s.key] = r.occ
      BY <1>0, <2>1
    <3> QED
      BY <3>1 DEF OneActivePerKey
  <2>3. \A r \in open' : latest'[r.key] \in r.occ..(r.occ + Step - 1)
    BY <1>0, <2>1, <2>2
  <2>4. \A k \in Keys : latest'[k] > 0 => \E r \in open' : r.key = k
    BY <2>1
  <2> QED
    BY <2>3, <2>4
<1>6. CASE Crash
  BY <1>6 DEF Crash
<1>7. ASSUME NEW t \in Threads, Look(t) \/ Begin(t) \/ Turn(t) \/ Return(t)
      PROVE  UNCHANGED <<latest, open, storeFaults>> /\ corePhase # "down"
  BY <1>7 DEF Look, Begin, Turn, Return
<1>8. ASSUME NEW k \in Keys, Worsens(k) \/ Ceases(k)
      PROVE  UNCHANGED <<latest, open, storeFaults>> /\ corePhase # "down"
  BY <1>8 DEF Worsens, Ceases
<1>9. CASE Serve
  <2>1. corePhase # "down"
    BY <1>9 DEF Serve, QuietUnlessUp, Threads
  <2> QED
    BY <1>2, <1>9, <2>1 DEF Serve
<1>10. CASE UNCHANGED alertsVars
  BY <1>2, <1>10 DEF alertsVars
<1> QED
  BY <1>1, <1>2, <1>3, <1>4, <1>5, <1>6, <1>7, <1>8, <1>9, <1>10 DEF AlertsNext, Works

LEMMA InitInv == AlertsInit => IInv
<1> SUFFICES ASSUME AlertsInit
             PROVE  IInv
  OBVIOUS
<1>1. \A t \in Threads : thr[t].pc = "idle"
  BY DEF AlertsInit, Idle
<1> QED
  BY <1>1, InitType DEF AlertsInit, IInv, OneActivePerKey, CacheMatchesStore, OneWorks, Working,
                        QuietUnlessUp, ReadingHolds

LEMMA InvStep == IInv /\ [AlertsNext]_alertsVars => IInv'
<1> SUFFICES ASSUME IInv, [AlertsNext]_alertsVars
             PROVE  IInv'
  OBVIOUS
<1>1. AlertsTypeOK'
  BY TypeStep DEF IInv
<1> QED
  BY <1>1, OneActiveStep, CacheStep, OneWorksStep, QuietStep, ReadingStep DEF IInv

\* The inductive invariant: one thread reconciles at a time, what it has read of
\* the store still holds for what it has yet to do, and cache and store agree.
THEOREM Invariance == AlertsSpec => []IInv
<1> QED
  BY InitInv, InvStep, PTL DEF AlertsSpec

\* The store never holds two active records of one key.
THEOREM OneActive == AlertsSpec => []OneActivePerKey
<1>1. IInv => OneActivePerKey
  BY DEF IInv
<1> QED
  BY <1>1, Invariance, PTL

\* As long as no access to the store fails, a crash loses less than one batch of
\* any count, and nothing is left in the cache of an alert that is over.
THEOREM CacheAgrees == AlertsSpec => []CacheMatchesStore
<1>1. IInv => CacheMatchesStore
  BY DEF IInv
<1> QED
  BY <1>1, Invariance, PTL

------------------------------------------------------------------------------
(* The shown count *)

LEMMA CountStep ==
  ASSUME IInv, [AlertsNext]_alertsVars, corePhase = "up", corePhase' = "up", storeFaults' = storeFaults,
         NEW r \in open, NEW s \in open', r.key = s.key
  PROVE  Larger(s.occ, latest'[r.key]) >= Shown(r)
<1> USE DEF IInv
<1>0. /\ latest \in [Keys -> Counts] /\ open \subseteq Records /\ storeFaults \in Nat
      /\ r.key \in Keys /\ r.occ \in Nat /\ latest[r.key] \in Nat
      /\ open' \subseteq Records /\ s.occ \in Nat
      /\ latest' \in [Keys -> Counts] /\ latest'[r.key] \in Nat
  BY TypeStep, CountTypes DEF AlertsTypeOK, Records
<1>1. ASSUME UNCHANGED <<latest, open>>
      PROVE  Larger(s.occ, latest'[r.key]) >= Shown(r)
  <2>1. s = r
    BY <1>1 DEF OneActivePerKey
  <2> QED
    BY <1>0, <1>1, <2>1 DEF Shown, Larger
<1>2. ASSUME NEW t \in Threads, NEW k \in Keys, RaiseKey(t, k)
      PROVE  Larger(s.occ, latest'[r.key]) >= Shown(r)
  <2>1. /\ Noted(t, k) \in Nat /\ Noted(t, k) >= latest[k]
        /\ latest'[k] = Noted(t, k) /\ \A q \in Keys \ {k} : latest'[q] = latest[q]
    BY <1>0, <1>2, NotedType, CountTypes DEF RaiseKey
  <2>2. s.occ >= r.occ
    <3>1. CASE UNCHANGED open
      BY <1>0, <3>1 DEF OneActivePerKey
    <3>2. CASE open' \in Raised(t, k) /\ r.key # k
      <4>1. s \in open
        BY <1>0, <1>2, <3>2, RaisedShape DEF RaiseKey
      <4> QED
        BY <1>0, <4>1 DEF OneActivePerKey
    <3>3. CASE open' \in Raised(t, k) /\ r.key = k
      <4>0. k \in thr[t].todo /\ thr[t].pc \in {"raise", "activate"}
        BY <1>2 DEF RaiseKey
      <4>1. PICK q \in open : q.key = k /\ s.occ = Larger(q.occ, Noted(t, k))
        <5>1. \A x \in open' : x.key = k =>
                \/ x.occ = Noted(t, k) /\ \A q \in open : q.key # k
                \/ \E q \in open : q.key = k /\ x.occ = Larger(q.occ, Noted(t, k))
          BY <3>3, <4>0, RaisedShape DEF IInv
        <5> QED
          BY <3>3, <5>1
      <4>2. q = r
        BY <3>3, <4>1 DEF OneActivePerKey
      <4> QED
        BY <1>0, <2>1, <4>1, <4>2 DEF Larger
    <3> QED
      BY <1>2, <3>1, <3>2, <3>3 DEF RaiseKey
  <2>3. latest'[r.key] >= latest[r.key]
    BY <1>0, <2>1
  <2> QED
    BY <1>0, <2>2, <2>3 DEF Shown, Larger
<1>3. ASSUME NEW t \in Threads, NEW k \in Keys, ClearKey(t, k)
      PROVE  Larger(s.occ, latest'[r.key]) >= Shown(r)
  <2>1. s \in open /\ s.key # k
    BY <1>3 DEF ClearKey, Without
  <2>2. s = r
    BY <2>1 DEF OneActivePerKey
  <2>3. latest'[r.key] = latest[r.key]
    BY <1>0, <1>3, <2>1 DEF ClearKey
  <2> QED
    BY <1>0, <2>2, <2>3 DEF Shown, Larger
<1>4. ASSUME NEW t \in Threads, StoreFails(t)
      PROVE  FALSE
  BY <1>0, <1>4 DEF StoreFails
<1>5. ASSUME NEW t \in Threads, Look(t) \/ Begin(t) \/ Turn(t) \/ Return(t)
      PROVE  UNCHANGED <<latest, open>>
  BY <1>5 DEF Look, Begin, Turn, Return
<1>6. ASSUME NEW k \in Keys, Worsens(k) \/ Ceases(k)
      PROVE  UNCHANGED <<latest, open>>
  BY <1>6 DEF Worsens, Ceases
<1>7. ASSUME Crash \/ Boot \/ Serve \/ UNCHANGED alertsVars
      PROVE  UNCHANGED <<latest, open>>
  BY <1>7 DEF Crash, Boot, Serve, alertsVars
<1> QED
  BY <1>1, <1>2, <1>3, <1>4, <1>5, <1>6, <1>7 DEF AlertsNext, Works

\* The count clients are shown of an active alert never goes down while the core
\* runs, except when an access to the store fails.
THEOREM CountsGrow == AlertsSpec => CountsNeverDrop
<1>1. IInv /\ [AlertsNext]_alertsVars =>
        [corePhase = "up" /\ corePhase' = "up" /\ storeFaults' = storeFaults =>
           \A r \in open, s \in open' : r.key = s.key =>
             Larger(s.occ, latest'[r.key]) >= Shown(r)]_alertsVars
  BY CountStep
<1> QED
  BY <1>1, Invariance, PTL DEF AlertsSpec, CountsNeverDrop

==============================================================================
