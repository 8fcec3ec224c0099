----------------------------- MODULE PagesProofs -----------------------------
(***************************************************************************)
(* Proofs about the pages of the web console, one section for each: for    *)
(* every number of workers, of rounds in flight, of changes at the control *)
(* plane and of calls that fail.  A page that is not mounted has no state, *)
(* so that pages may use the same names.                                   *)
(***************************************************************************)
EXTENDS MetricsPages, FiniteSetTheorems, TLAPS
-----------------------------------------------------------------------------
(* The pages that watch: HealthPage, PerformancePage, usePolling *)

\* The parts of a page are stored one after another, each once, and the required ones
\* are among them.
LEMMA WatchParts ==
  ASSUME PageAssumption
  PROVE  /\ Len(Part) \in Nat \ {0}
         /\ \A i \in 1..Len(Part) : Part[i] \in Parts
         /\ \A p \in Parts : \E i \in 1..Len(Part) : p = Part[i]
         /\ \A i, j \in 1..Len(Part) : Part[i] = Part[j] => i = j
         /\ Required \subseteq Parts
         /\ Page = "HealthPage" => "health" \in Required
  <1>1. CASE Page = "HealthPage"
    BY <1>1 DEF Part, Parts, Required
  <1>2. CASE Page = "PerformancePage"
    BY <1>2 DEF Part, Parts, Required
  <1>3. CASE Page = "usePolling"
    BY <1>3 DEF Part, Parts, Required
  <1> QED
    BY <1>1, <1>2, <1>3 DEF PageAssumption

\* Rounding a share of at most k wholes gives at most k.
LEMMA RoundedBound ==
  ASSUME NEW a \in Nat, NEW b \in Nat \ {0}, NEW k \in Nat, a <= k * b
  PROVE  Rounded(a, b) \in 0..k
  <1> DEFINE q == (2 * a + b) \div (2 * b)
  <1>1. q \in Nat /\ 2 * b * q <= 2 * a + b
    OBVIOUS
  <1>2. q <= k
    <2>1. SUFFICES ASSUME q >= k + 1 PROVE FALSE
      BY <1>1
    <2>2. 2 * b * q >= 2 * b * (k + 1)
      BY <1>1, <2>1
    <2>3. 2 * b * (k + 1) = 2 * (k * b) + 2 * b
      OBVIOUS
    <2> QED
      BY <1>1, <2>2, <2>3
  <1> QED
    BY <1>1, <1>2 DEF Rounded

\* Every endpoint answers with data of its kind, as new as the control plane, or with
\* a bad status.
LEMMA ServedIsSound ==
  ASSUME PageAssumption, WatchInv, NEW p \in Parts
  PROVE  Served(p) \in {NotOk} \cup Snapshots(p) /\ Sound(p, Served(p))
  <1>1. /\ clock \in 0..MaxChanges /\ MaxChanges \in Nat /\ etcdUp \in BOOLEAN /\ dataplane \in BOOLEAN
        /\ status \in [Worker -> {"NONE", "ACTIVE", "DEAD", "SUPERSEDED"}]
        /\ lag \in [Worker -> Seconds]
        /\ all \in 0..MaxChanges /\ committed \in 0..all /\ saves \in 0..MaxChanges
    BY DEF PageAssumption, WatchInv, TypeOK
  <1>2. p \in {"health", "workers", "lags", "metrics", "perf", "data"}
    BY DEF PageAssumption, Part, Parts
  <1>3. CASE p = "health"
    BY <1>1, <1>3 DEF Served, health_check, Snapshots, Values, Sound
  <1>4. CASE p = "workers"
    <2> DEFINE W == {v \in Worker : status[v] # "NONE"}
    <2>1. [w \in W |-> status[w]] \in [W -> {"ACTIVE", "DEAD", "SUPERSEDED"}] /\ W \in SUBSET Worker
      BY <1>1
    <2>2. Values("workers") = UNION {[V -> {"ACTIVE", "DEAD", "SUPERSEDED"}] : V \in SUBSET Worker}
      BY DEF Values
    <2> HIDE DEF W
    <2>3. [w \in W |-> status[w]] \in Values("workers")
      BY <2>1, <2>2, Zenon
    <2> QED
      BY <1>1, <1>4, <2>3 DEF Served, list_workers, Snapshots, Sound, W
  <1>5. CASE p = "lags"
    <2> DEFINE W == {x \in Worker : status[x] = "ACTIVE"}
    <2>1. [w \in W |-> lag[w]] \in [W -> Seconds] /\ W \in SUBSET Worker
      BY <1>1
    <2>2. Values("lags") = UNION {[V -> Seconds] : V \in SUBSET Worker}
      BY DEF Values
    <2> HIDE DEF W
    <2>3. [w \in W |-> lag[w]] \in Values("lags")
      BY <2>1, <2>2, Zenon
    <2> QED
      BY <1>1, <1>5, <2>3 DEF Served, heartbeat_lags, Snapshots, Sound, W
  <1>6. CASE p = "metrics"
    <2> DEFINE known == {w \in Worker : status[w] # "NONE"}
               active == {w \in Worker : status[w] = "ACTIVE"}
               rate == IF all > 0 THEN Rounded(10000 * committed, all) ELSE 0
    <2>1. IsFiniteSet(Worker) /\ known \subseteq Worker /\ active \subseteq known
      BY DEF PageAssumption
    <2>2. IsFiniteSet(known) /\ Cardinality(known) <= Cardinality(Worker)
      BY <2>1, FS_Subset
    <2>3. IsFiniteSet(active) /\ Cardinality(active) <= Cardinality(known)
      BY <2>1, <2>2, FS_Subset
    <2>4. Cardinality(active) \in Nat /\ Cardinality(known) \in Nat /\ Cardinality(Worker) \in Nat
      BY <2>1, <2>2, <2>3, FS_CardinalityType
    <2>5. rate \in 0..10000
      <3>1. CASE all > 0
        <4>1. all \in Nat \ {0} /\ 10000 * committed \in Nat /\ 10000 * committed <= 10000 * all
          BY <1>1, <3>1
        <4> DEFINE n == 10000 * committed
                   k == 10000
        <4>2. k \in Nat
          OBVIOUS
        <4> HIDE DEF n, k
        <4>3. n \in Nat /\ n <= k * all
          BY <4>1 DEF n, k
        <4>4. Rounded(n, all) \in 0..k
          BY <4>1, <4>2, <4>3, RoundedBound
        <4> QED
          BY <3>1, <4>4 DEF n, k
      <3> QED
        BY <3>1, <1>1
    <2> HIDE DEF known, active, rate
    <2>6. CASE etcdUp
      <3>1. Served(p) = [at |-> clock, value |-> [total_workers |-> Cardinality(known),
              active_workers |-> Cardinality(active), total_checkpoints |-> all, rate |-> rate]]
        BY <1>6, <2>6 DEF Served, metrics_summary, known, active, rate
      <3>2. Values(p) = Summary
        BY <1>6, Zenon DEF Values
      <3>3. Cardinality(known) \in 0..Cardinality(Worker) /\ Cardinality(active) \in 0..Cardinality(Worker)
        BY <2>2, <2>3, <2>4
      <3> QED
        <4> DEFINE v == [total_workers |-> Cardinality(known), active_workers |-> Cardinality(active),
                         total_checkpoints |-> all, rate |-> rate]
        <4>1. v \in Summary
          BY <1>1, <2>5, <3>3 DEF Summary
        <4>2. v.active_workers <= v.total_workers
          BY <2>3
        <4> HIDE DEF v
        <4>3. Served(p) = [at |-> clock, value |-> v]
          BY <3>1 DEF v
        <4>4. [at |-> clock, value |-> v] \in Snapshots(p)
          BY <1>1, <3>2, <4>1 DEF Snapshots
        <4> QED
          BY <1>1, <4>2, <4>3, <4>4 DEF Sound
    <2> QED
      BY <1>1, <1>6, <2>6 DEF Served, metrics_summary, Sound
  <1>7. CASE p = "perf"
    BY <1>1, <1>7 DEF Served, performance_metrics, Snapshots, Values, Sound
  <1>8. CASE p = "data"
    BY <1>1, <1>8 DEF Served, Snapshots, Values, Sound
  <1> QED
    BY <1>2, <1>3, <1>4, <1>5, <1>6, <1>7, <1>8

\* The banner of a mounted health page has a text as soon as the answer is stored.
LEMMA BannerHasText ==
  ASSUME PageAssumption, TypeOK, ~loading /\ ~error => \A p \in Required : shown[p] # None
  PROVE  NothingMissing
  <1>1. ASSUME Page = "HealthPage", shown["health"] # None PROVE HealthBanner # "none"
    <2>1. "health" \in Parts
      BY <1>1, WatchParts
    <2>2. shown["health"] \in Snapshots("health")
      BY <1>1, <2>1 DEF TypeOK
    <2>3. Values("health") = {"HEALTHY", "DEGRADED"}
      BY Zenon DEF Values
    <2> QED
      BY <1>1, <2>2, <2>3 DEF HealthBanner, Value, Snapshots
  <1> QED
    BY <1>1, WatchParts DEF NothingMissing

\* The same of the state after a step.
LEMMA BannerHasTextNext ==
  ASSUME PageAssumption, TypeOK', ~loading' /\ ~error' => \A p \in Required : shown'[p] # None
  PROVE  NothingMissing'
  <1>1. ASSUME Page = "HealthPage", shown'["health"] # None PROVE HealthBanner' # "none"
    <2>1. "health" \in Parts
      BY <1>1, WatchParts
    <2>2. shown'["health"] \in Snapshots("health")
      BY <1>1, <2>1 DEF TypeOK
    <2>3. Values("health") = {"HEALTHY", "DEGRADED"}
      BY Zenon DEF Values
    <2> QED
      BY <1>1, <2>2, <2>3 DEF HealthBanner, Value, Snapshots
  <1> QED
    BY <1>1, WatchParts DEF NothingMissing

\* A mounted page has no round in flight, and a spinner.
LEMMA WatchInit ==
  ASSUME PageAssumption, Init PROVE WatchInv
  <1>1. TypeOK
    <2>1. /\ {etcdUp, dataplane, loading, error} \subseteq BOOLEAN
          /\ status \in [Worker -> {"NONE", "ACTIVE", "DEAD", "SUPERSEDED"}]
          /\ DOMAIN shown = Parts /\ \A p \in Parts : shown[p] = None
          /\ DOMAIN rounds = Slot /\ \A s \in Slot : rounds[s] = None
      BY DEF Init
    <2>2. clock = 0 /\ all = 0 /\ committed = 0 /\ saves = 0 /\ faults = 0
      BY DEF Init
    <2>3. lag \in [Worker -> Seconds]
      BY DEF Init, Seconds
    <2> QED
      BY <2>1, <2>2, <2>3 DEF TypeOK, PageAssumption
  <1>2. NothingMissing
    BY DEF Init, NothingMissing
  <1>3. \A p \in Parts : Sound(p, shown[p])
    BY DEF Init, Sound
  <1> QED
    BY <1>1, <1>2, <1>3 DEF Init, WatchInv, StoredIsShown, PageAssumption

\* Data stays as sound as it was while the clock of the control plane goes on.
LEMMA SoundStays ==
  ASSUME PageAssumption, WatchInv, clock' \in Nat, clock' >= clock,
         NEW p \in Parts, NEW data, data \in Replies(p), Sound(p, data)
  PROVE  Sound(p, data)'
  <1>1. CASE data \in {None, NotOk, Rejected}
    BY <1>1 DEF Sound
  <1>2. CASE data \in Snapshots(p)
    <2>1. data.at \in 0..MaxChanges /\ clock \in 0..MaxChanges /\ MaxChanges \in Nat
      BY <1>2 DEF Snapshots, WatchInv, TypeOK, PageAssumption
    <2> QED
      BY <1>2, <2>1 DEF Sound
  <1> QED
    BY <1>1, <1>2 DEF Replies

\* The control plane changes: the page does not, and no answer becomes newer.
LEMMA WatchChange ==
  ASSUME PageAssumption, WatchInv, Change PROVE WatchInv'
  <1>1. /\ clock \in 0..MaxChanges /\ MaxChanges \in Nat /\ etcdUp \in BOOLEAN /\ dataplane \in BOOLEAN
        /\ status \in [Worker -> {"NONE", "ACTIVE", "DEAD", "SUPERSEDED"}]
        /\ lag \in [Worker -> Seconds]
        /\ all \in 0..MaxChanges /\ committed \in 0..all /\ saves \in 0..MaxChanges
        /\ all <= clock /\ saves <= clock
    BY DEF PageAssumption, WatchInv, TypeOK
  <1>2. clock' = clock + 1 /\ clock' \in 0..MaxChanges /\ UNCHANGED <<rounds, shown, loading, error, faults>>
    BY <1>1 DEF Change, page
  <1> DEFINE Server == /\ etcdUp' \in BOOLEAN /\ dataplane' \in BOOLEAN
                       /\ status' \in [Worker -> {"NONE", "ACTIVE", "DEAD", "SUPERSEDED"}]
                       /\ lag' \in [Worker -> Seconds]
                       /\ all' \in 0..clock' /\ committed' \in 0..all' /\ saves' \in 0..clock'
  <1>3. Server
    <2>1. CASE Flips
      <3>1. etcdUp' \in BOOLEAN /\ dataplane' \in BOOLEAN
        BY <1>1, <2>1 DEF Flips
      <3>2. UNCHANGED <<status, lag, all, committed, saves>>
        BY <2>1 DEF Flips
      <3> QED
        BY <1>1, <1>2, <3>1, <3>2
    <2>2. CASE TimePasses
      BY <1>1, <1>2, <2>2 DEF TimePasses
    <2>3. CASE Checkpoints
      BY <1>1, <1>2, <2>3 DEF Checkpoints
    <2>4. CASE Restarts
      BY <1>1, <1>2, <2>4 DEF Restarts
    <2>5. ASSUME NEW w \in Worker, Registers(w) PROVE Server
      BY <1>1, <1>2, <2>5 DEF Registers, Seconds
    <2>6. ASSUME NEW w \in Worker, Beats(w) PROVE Server
      BY <1>1, <1>2, <2>6 DEF Beats, Seconds
    <2>7. ASSUME NEW w \in Worker, Ends(w) PROVE Server
      BY <1>1, <1>2, <2>7 DEF Ends
    <2> HIDE DEF Server
    <2> QED
      BY <2>1, <2>2, <2>3, <2>4, <2>5, <2>6, <2>7 DEF Change
  <1>4. TypeOK'
    BY <1>1, <1>2, <1>3 DEF WatchInv, TypeOK, IsRound
  <1>5. ASSUME NEW p \in Parts, NEW data, data \in Replies(p), Sound(p, data) PROVE Sound(p, data)'
    BY <1>1, <1>2, <1>5, SoundStays
  <1>6. \A p \in Parts : Sound(p, shown[p])'
    <2> TAKE p \in Parts
    <2>1. shown[p] \in Replies(p) /\ Sound(p, shown[p])
      BY DEF WatchInv, TypeOK, Replies
    <2> QED
      BY <1>2, <1>5, <2>1 DEF Sound
  <1>7. ASSUME NEW s \in Slot, rounds'[s] # None, NEW p \in Parts PROVE Sound(p, rounds[s].answers[p])'
    <2>1. rounds[s].answers[p] \in Replies(p) /\ Sound(p, rounds[s].answers[p])
      BY <1>2, <1>7 DEF WatchInv, TypeOK, IsRound
    <2> QED
      BY <1>2, <1>5, <2>1 DEF Sound
  <1>8. \A s \in Slot : StoredIsShown(rounds[s])'
    BY <1>2 DEF WatchInv, StoredIsShown, Settled, Throws
  <1>9. NothingMissing'
    BY <1>2, <1>4, BannerHasTextNext DEF WatchInv, NothingMissing
  <1> QED
    BY <1>1, <1>2, <1>3, <1>4, <1>6, <1>7, <1>8, <1>9 DEF WatchInv

\* A step of the page that puts one round in order, and leaves the others, the control
\* plane and all that is shown already.
LEMMA WatchRound ==
  ASSUME PageAssumption, WatchInv, UNCHANGED server, NEW s \in Slot, NEW r,
         rounds' = [rounds EXCEPT ![s] = r],
         r = None \/ (IsRound(r) /\ \A p \in Parts : Sound(p, r.answers[p])),
         r = None \/ r.stored = 0 \/ Settled(r.answers),
         r = None \/ \A i \in 1..r.stored : Part[i] \in Required => shown'[Part[i]] # None,
         loading' \in BOOLEAN, error' \in BOOLEAN, faults' \in 0..MaxFaults,
         DOMAIN shown' = Parts,
         \A p \in Parts : /\ shown'[p] = None \/ shown'[p] \in Snapshots(p)
                          /\ Sound(p, shown'[p])
                          /\ shown[p] # None => shown'[p] # None,
         ~loading' /\ ~error' => \A p \in Required : shown'[p] # None
  PROVE  WatchInv'
  <1>1. /\ UNCHANGED <<clock, etcdUp, dataplane, status, lag, all, committed, saves>>
        /\ DOMAIN rounds = Slot /\ \A t \in Slot : rounds[t] = None \/ IsRound(rounds[t])
    BY DEF server, WatchInv, TypeOK
  <1>2. DOMAIN rounds' = Slot /\ rounds'[s] = r /\ \A t \in Slot : t # s => rounds'[t] = rounds[t]
    BY <1>1
  <1>3. \A t \in Slot : rounds'[t] = None \/ IsRound(rounds'[t])
    BY <1>1, <1>2
  <1>4. TypeOK'
    <2>1. {etcdUp', dataplane', loading', error'} \subseteq BOOLEAN
      BY <1>1 DEF WatchInv, TypeOK
    <2>2. \A t \in Slot : rounds'[t] = None \/ IsRound(rounds[t])'
      BY <1>3 DEF IsRound
    <2> QED
      BY <1>1, <1>2, <2>1, <2>2 DEF WatchInv, TypeOK
  <1>5. \A p \in Parts : Sound(p, shown[p])'
    BY <1>1 DEF Sound
  <1>6. ASSUME NEW t \in Slot, rounds'[t] # None, NEW p \in Parts PROVE Sound(p, rounds[t].answers[p])'
    <2>1. Sound(p, rounds'[t].answers[p])
      BY <1>2, <1>6 DEF WatchInv
    <2> QED
      BY <1>1, <2>1 DEF Sound
  <1>7. ASSUME NEW t \in Slot PROVE StoredIsShown(rounds[t])'
    <2>1. CASE t = s
      BY <1>2, <2>1 DEF StoredIsShown, Settled, Throws
    <2>2. CASE t # s
      <3>1. StoredIsShown(rounds[t]) /\ rounds'[t] = rounds[t]
        BY <1>2, <2>2 DEF WatchInv
      <3> QED
        BY <3>1, WatchParts DEF StoredIsShown, Settled, Throws
    <2> QED
      BY <2>1, <2>2
  <1>8. NothingMissing'
    BY <1>4, BannerHasTextNext
  <1> QED
    BY <1>1, <1>4, <1>5, <1>6, <1>7, <1>8 DEF WatchInv

\* A step that shows nothing new.
LEMMA WatchQuiet ==
  ASSUME PageAssumption, WatchInv, UNCHANGED <<server, shown>>, NEW s \in Slot, NEW r,
         rounds' = [rounds EXCEPT ![s] = r],
         r = None \/ (IsRound(r) /\ (\A p \in Parts : Sound(p, r.answers[p])) /\ StoredIsShown(r)),
         faults' \in 0..MaxFaults,
         UNCHANGED <<loading, error>> \/ (loading' \in BOOLEAN /\ error' = TRUE)
  PROVE  WatchInv'
  <1>1. loading' \in BOOLEAN /\ error' \in BOOLEAN
    BY DEF WatchInv, TypeOK
  <1>2. /\ DOMAIN shown' = Parts
        /\ \A p \in Parts : /\ shown'[p] = None \/ shown'[p] \in Snapshots(p)
                            /\ Sound(p, shown'[p])
                            /\ shown[p] # None => shown'[p] # None
    BY DEF WatchInv, TypeOK
  <1>3. ~loading' /\ ~error' => \A p \in Required : shown'[p] # None
    BY DEF WatchInv, NothingMissing
  <1>4. /\ r = None \/ (IsRound(r) /\ \A p \in Parts : Sound(p, r.answers[p]))
        /\ r = None \/ r.stored = 0 \/ Settled(r.answers)
        /\ r = None \/ \A i \in 1..r.stored : Part[i] \in Required => shown'[Part[i]] # None
    BY DEF StoredIsShown, IsRound
  <1>5. UNCHANGED server
    OBVIOUS
  <1> QED
    BY <1>1, <1>2, <1>3, <1>4, <1>5, WatchRound

\* The interval, the mount or refetch starts a round.
LEMMA WatchPoll ==
  ASSUME PageAssumption, WatchInv, NEW s \in Slot, Poll(s) PROVE WatchInv'
  <1>1. IsRound(Request)
    BY WatchParts DEF Request, IsRound, Replies
  <1>2. (\A p \in Parts : Sound(p, Request.answers[p])) /\ StoredIsShown(Request)
    BY DEF Request, Sound, StoredIsShown
  <1>3. faults \in 0..MaxFaults
    BY DEF WatchInv, TypeOK
  <1>4. /\ UNCHANGED <<server, shown>> /\ rounds' = [rounds EXCEPT ![s] = Request]
        /\ UNCHANGED <<loading, error>> /\ faults' \in 0..MaxFaults
    BY <1>3 DEF Poll
  <1> HIDE DEF Request
  <1> QED
    BY <1>1, <1>2, <1>4, WatchQuiet, Zenon

\* An answer comes in, or a call fails: nothing of the round can be stored yet.
LEMMA WatchAnswered ==
  ASSUME PageAssumption, WatchInv, NEW s \in Slot, NEW p \in Parts, NEW a,
         a \in Replies(p), Sound(p, a), Answered(s, p, a), faults' \in 0..MaxFaults
  PROVE  WatchInv'
  <1> DEFINE old == rounds[s]
             r == [old EXCEPT !.answers[p] = a]
  <1>1. old # None /\ IsRound(old) /\ old.answers[p] = None /\ DOMAIN rounds = Slot
    BY DEF Answered, WatchInv, TypeOK
  <1>2. rounds' = [rounds EXCEPT ![s] = r] /\ UNCHANGED <<server, shown, loading, error>>
    BY <1>1 DEF Answered
  <1>3. /\ r.stored = old.stored /\ r.answers[p] = a
        /\ \A q \in Parts : q # p => r.answers[q] = old.answers[q]
        /\ r = [answers |-> [q \in Parts |-> r.answers[q]], stored |-> r.stored]
    BY <1>1 DEF IsRound
  <1>4. old.stored = 0
    <2>1. StoredIsShown(old) /\ old.stored \in Nat
      BY <1>1, WatchParts DEF WatchInv, IsRound
    <2> QED
      BY <1>1, <2>1 DEF StoredIsShown, Settled
  <1>5. \A q \in Parts : Sound(q, old.answers[q]) /\ old.answers[q] \in Replies(q)
    BY <1>1 DEF WatchInv, IsRound
  <1> HIDE DEF r
  <1>6. IsRound(r)
    BY <1>1, <1>3, <1>5 DEF IsRound
  <1>7. (\A q \in Parts : Sound(q, r.answers[q])) /\ StoredIsShown(r)
    BY <1>3, <1>4, <1>5 DEF StoredIsShown
  <1>8. UNCHANGED <<server, shown>> /\ UNCHANGED <<loading, error>>
    BY <1>2
  <1> QED
    BY <1>2, <1>6, <1>7, <1>8, WatchQuiet, Zenon

\* A round that throws ends with the error on the page; what it stored stays.
LEMMA WatchCatch ==
  ASSUME PageAssumption, WatchInv, NEW s \in Slot, Catch(s) \/ BodyFails(s) PROVE WatchInv'
  <1>1. /\ UNCHANGED <<server, shown>> /\ rounds' = [rounds EXCEPT ![s] = None]
        /\ loading' \in BOOLEAN /\ error' = TRUE
    BY DEF Catch, Caught, BodyFails, RoundEnds
  <1>2. faults' \in 0..MaxFaults
    <2>1. faults \in 0..MaxFaults /\ MaxFaults \in Nat
      BY DEF WatchInv, TypeOK, PageAssumption
    <2>2. faults' = faults \/ (faults < MaxFaults /\ faults' = faults + 1)
      BY DEF Catch, Caught, BodyFails
    <2> QED
      BY <2>1, <2>2
  <1>3. ASSUME NEW r, r = None PROVE rounds' = [rounds EXCEPT ![s] = r]
    BY <1>1, <1>3
  <1> QED
    BY <1>1, <1>2, <1>3, WatchQuiet

\* What a settled round is about to store is data, or a bad status of a part that is
\* not required.
LEMMA StoresData ==
  ASSUME PageAssumption, WatchInv, NEW s \in Slot, rounds[s] # None, Settled(rounds[s].answers)
  PROVE  LET i == rounds[s].stored + 1
             a == rounds[s].answers[Part[i]]
         IN /\ IsRound(rounds[s]) /\ i \in 1..Len(Part) /\ Part[i] \in Parts
            /\ a \in {NotOk} \cup Snapshots(Part[i]) /\ Sound(Part[i], a)
            /\ a = NotOk => Part[i] \notin Required
  <1> DEFINE i == rounds[s].stored + 1
             a == rounds[s].answers[Part[i]]
  <1>1. IsRound(rounds[s])
    BY DEF WatchInv, TypeOK
  <1>2. i \in 1..Len(Part) /\ Part[i] \in Parts
    BY <1>1, WatchParts DEF IsRound
  <1> HIDE DEF i
  <1>3. a \in Replies(Part[i]) /\ Sound(Part[i], a)
    BY <1>1, <1>2 DEF IsRound, WatchInv
  <1>4. a # None /\ a # Rejected /\ (a = NotOk => Part[i] \notin Required)
    BY <1>2 DEF Settled, Throws
  <1> QED
    BY <1>1, <1>2, <1>3, <1>4 DEF Replies, i

\* One part of a round is stored, and the last one ends it: by then every required part
\* is on the page, whatever other rounds stored or failed to in between.
LEMMA WatchStore ==
  ASSUME PageAssumption, WatchInv, NEW s \in Slot, Store(s) PROVE WatchInv'
  <1> DEFINE old == rounds[s]
             i == old.stored + 1
             a == old.answers[Part[i]]
             r == [old EXCEPT !.stored = i]
  <1>1. /\ old # None /\ Settled(old.answers)
        /\ shown' = IF a = NotOk THEN shown ELSE [shown EXCEPT ![Part[i]] = a]
        /\ UNCHANGED <<server, faults>>
    BY DEF Store
  <1>2. /\ IsRound(old) /\ i \in 1..Len(Part) /\ Part[i] \in Parts
        /\ a \in {NotOk} \cup Snapshots(Part[i]) /\ Sound(Part[i], a)
        /\ a = NotOk => Part[i] \notin Required
    BY <1>1, StoresData
  <1>3. /\ DOMAIN shown = Parts /\ DOMAIN rounds = Slot /\ faults \in 0..MaxFaults
        /\ loading \in BOOLEAN /\ error \in BOOLEAN
        /\ \A p \in Parts : (shown[p] = None \/ shown[p] \in Snapshots(p)) /\ Sound(p, shown[p])
    BY DEF WatchInv, TypeOK
  <1>4. a # NotOk => a # None
    BY <1>2 DEF PageAssumption
  <1>5. /\ old.stored \in Nat /\ Len(Part) \in Nat
        /\ \A j \in 1..old.stored : Part[j] \in Required => shown[Part[j]] # None
    <2>1. old.stored \in Nat /\ Len(Part) \in Nat
      BY <1>2, WatchParts DEF IsRound
    <2> QED
      BY <1>1, <2>1 DEF WatchInv, StoredIsShown
  <1> HIDE DEF a, i
  <1>6. /\ DOMAIN shown' = Parts
        /\ \A p \in Parts : /\ shown'[p] = None \/ shown'[p] \in Snapshots(p)
                            /\ Sound(p, shown'[p])
                            /\ shown[p] # None => shown'[p] # None
    BY <1>1, <1>2, <1>3, <1>4
  <1>7. \A j \in 1..i : Part[j] \in Required => shown'[Part[j]] # None
    <2> SUFFICES ASSUME NEW j \in 1..i, Part[j] \in Required PROVE shown'[Part[j]] # None
      OBVIOUS
    <2>1. CASE j = i
      BY <1>1, <1>2, <1>3, <1>4, <2>1
    <2>2. CASE j # i
      <3>1. j \in 1..old.stored /\ Part[j] \in Parts
        BY <1>5, <2>2, WatchParts DEF i
      <3> QED
        BY <1>5, <1>6, <3>1
    <2> QED
      BY <2>1, <2>2
  <1>8. UNCHANGED server /\ faults' \in 0..MaxFaults
    BY <1>1, <1>3
  <1>9. CASE i >= Len(Part)
    <2>1. rounds' = [rounds EXCEPT ![s] = None] /\ loading' = FALSE /\ error' = FALSE
      BY <1>9 DEF Store, RoundEnds, i
    <2>2. \A p \in Required : shown'[p] # None
      <3> TAKE p \in Required
      <3>1. PICK j \in 1..Len(Part) : p = Part[j]
        BY WatchParts
      <3>2. j \in 1..i
        BY <1>2, <1>9
      <3> QED
        BY <1>7, <3>1, <3>2
    <2>3. loading' \in BOOLEAN /\ error' \in BOOLEAN
      BY <2>1
    <2>4. ASSUME NEW x, x = None PROVE rounds' = [rounds EXCEPT ![s] = x]
      BY <2>1, <2>4
    <2> QED
      BY <1>6, <1>8, <2>2, <2>3, <2>4, WatchRound
  <1>10. CASE ~(i >= Len(Part))
    <2>1. rounds' = [rounds EXCEPT ![s] = r] /\ UNCHANGED <<loading, error>>
      BY <1>10, <1>3 DEF Store, i
    <2>2. /\ r.stored = i /\ r.answers = old.answers
          /\ r = [answers |-> [p \in Parts |-> r.answers[p]], stored |-> r.stored]
      BY <1>2 DEF IsRound
    <2> HIDE DEF r
    <2>3. IsRound(r)
      <3>1. \A p \in Parts : r.answers[p] \in Replies(p)
        BY <1>2, <2>2 DEF IsRound
      <3>2. i \in 0..Len(Part) - 1
        BY <1>2, <1>5, <1>10
      <3> QED
        BY <2>2, <3>1, <3>2 DEF IsRound
    <2>4. \A p \in Parts : Sound(p, r.answers[p])
      BY <1>1, <2>2 DEF WatchInv
    <2>5. ~loading' /\ ~error' => \A p \in Required : shown'[p] # None
      BY <1>6, <2>1, WatchParts DEF WatchInv, NothingMissing
    <2>6. loading' \in BOOLEAN /\ error' \in BOOLEAN
      BY <1>3, <2>1
    <2>7. Settled(r.answers) /\ \A j \in 1..r.stored : Part[j] \in Required => shown'[Part[j]] # None
      BY <1>1, <1>7, <2>2
    <2> QED
      BY <1>6, <1>8, <2>1, <2>3, <2>4, <2>5, <2>6, <2>7, WatchRound
  <1> QED
    BY <1>9, <1>10

\* One step of the control plane or of the page keeps the invariant.
LEMMA WatchStep ==
  ASSUME PageAssumption, WatchInv, [Next]_vars PROVE WatchInv'
  <1>1. CASE Change
    BY <1>1, WatchChange
  <1>2. ASSUME NEW s \in Slot, Poll(s) \/ Catch(s) \/ Store(s) \/ BodyFails(s) PROVE WatchInv'
    BY <1>2, WatchPoll, WatchCatch, WatchStore
  <1>3. ASSUME NEW s \in Slot, NEW p \in Parts, Answer(s, p) PROVE WatchInv'
    <2>1. Served(p) \in Replies(p) /\ Sound(p, Served(p))
      BY ServedIsSound DEF Replies
    <2>2. Answered(s, p, Served(p)) /\ faults' \in 0..MaxFaults
      BY <1>3 DEF Answer, WatchInv, TypeOK
    <2> QED
      BY <2>1, <2>2, WatchAnswered
  <1>4. ASSUME NEW s \in Slot, NEW p \in Parts, CallFails(s, p) PROVE WatchInv'
    <2>1. PICK a \in {NotOk, Rejected} : Answered(s, p, a)
      BY <1>4 DEF CallFails
    <2>2. a \in Replies(p) /\ Sound(p, a)
      BY DEF Replies, Sound
    <2>3. faults' \in 0..MaxFaults
      <3>1. faults \in 0..MaxFaults /\ MaxFaults \in Nat
        BY DEF WatchInv, TypeOK, PageAssumption
      <3>2. faults < MaxFaults /\ faults' = faults + 1
        BY <1>4 DEF CallFails
      <3> QED
        BY <3>1, <3>2
    <2> QED
      BY <2>1, <2>2, <2>3, WatchAnswered
  <1>5. CASE UNCHANGED vars
    <2>1. UNCHANGED <<clock, etcdUp, dataplane, status, lag, all, committed, saves,
                      rounds, shown, loading, error, faults>>
      BY <1>5 DEF vars, server, page
    <2>2. TypeOK'
      BY <2>1 DEF WatchInv, TypeOK, IsRound
    <2>3. (\A p \in Parts : Sound(p, shown[p])') /\ NothingMissing'
      BY <2>1 DEF WatchInv, Sound, NothingMissing, HealthBanner, Value
    <2>4. \A s \in Slot : (rounds[s] # None => \A p \in Parts : Sound(p, rounds[s].answers[p]))'
      BY <2>1 DEF WatchInv, Sound
    <2>5. \A s \in Slot : StoredIsShown(rounds[s])'
      BY <2>1 DEF WatchInv, StoredIsShown, Settled, Throws
    <2> QED
      BY <2>1, <2>2, <2>3, <2>4, <2>5 DEF WatchInv
  <1> QED
    BY <1>1, <1>2, <1>3, <1>4, <1>5 DEF Next

\* The inductive invariant of the polled pages.
THEOREM WatchInvariant ==
  ASSUME PageAssumption PROVE Spec => []WatchInv
  <1>1. Init => WatchInv
    BY WatchInit
  <1>2. WatchInv /\ [Next]_vars => WatchInv'
    BY WatchStep
  <1> QED
    BY <1>1, <1>2, PTL DEF Spec

\* HealthPage, PerformancePage, usePolling: once the spinner is gone a page shows an error
\* or every part it requires, however many rounds overlap, fail or break off half-way.
THEOREM NothingIsMissing ==
  ASSUME PageAssumption PROVE Spec => []NothingMissing
  <1>1. WatchInv => NothingMissing
    BY DEF WatchInv
  <1> QED
    BY <1>1, WatchInvariant, PTL

\* The bars follow from the types and from counts that belong together.
LEMMA InvBars ==
  ASSUME PageAssumption, WatchInv PROVE BarsInRange
  <1>1. ASSUME Page = "PerformancePage" PROVE \A b \in Bars : b.pct \in 0..100
    <2>1. CASE shown["metrics"] = None
      BY <2>1 DEF Bars
    <2>2. CASE shown["metrics"] # None
      <3> DEFINE m == shown["metrics"].value
      <3>1. "metrics" \in Parts
        BY <1>1 DEF Part, Parts
      <3>2. shown["metrics"] \in Snapshots("metrics") /\ Sound("metrics", shown["metrics"])
        BY <1>1, <2>2, <3>1 DEF WatchInv, TypeOK
      <3>3. Values("metrics") = Summary
        BY Zenon DEF Values
      <3>4. m \in Summary
        BY <3>2, <3>3 DEF Snapshots
      <3>5. shown["metrics"] \notin {None, NotOk, Rejected}
        BY <3>1, <3>2 DEF PageAssumption
      <3>6. m.active_workers <= m.total_workers
        BY <3>2, <3>5 DEF Sound
      <3>7. m.active_workers \in Nat /\ m.total_workers \in Nat /\ m.rate \in 0..10000
        <4>1. Cardinality(Worker) \in Nat
          BY FS_CardinalityType DEF PageAssumption
        <4> HIDE DEF m
        <4>2. m.active_workers \in 0..Cardinality(Worker) /\ m.total_workers \in 0..Cardinality(Worker)
          BY <3>4 DEF Summary
        <4>3. m.rate \in 0..10000
          BY <3>4 DEF Summary
        <4> QED
          BY <4>1, <4>2, <4>3
      <3> HIDE DEF m
      <3>8. Percent(m.active_workers, m.total_workers) \in 0..100
        <4>1. CASE m.total_workers > 0
          <5> DEFINE n == 100 * m.active_workers
                     k == 100
          <5>1. n \in Nat /\ k \in Nat /\ n <= k * m.total_workers /\ m.total_workers \in Nat \ {0}
            BY <3>6, <3>7, <4>1
          <5> HIDE DEF n, k
          <5>2. Rounded(n, m.total_workers) \in 0..k
            BY <5>1, RoundedBound
          <5> QED
            BY <4>1, <5>2 DEF Percent, n, k
        <4> QED
          BY <3>7, <4>1 DEF Percent
      <3>9. Rounded(m.rate, 100) \in 0..100
        <4> DEFINE n == m.rate
                   k == 100
        <4>1. n \in 0..10000
          BY <3>7
        <4>2. k \in Nat \ {0} /\ k * k = 10000
          OBVIOUS
        <4> HIDE DEF n, k
        <4>3. n \in Nat /\ k \in Nat \ {0} /\ n <= k * k
          BY <4>1, <4>2
        <4>4. Rounded(n, k) \in 0..k
          BY <4>3, RoundedBound
        <4> QED
          BY <4>4 DEF n, k
      <3>10. Bars = {UtilBar(Percent(m.active_workers, m.total_workers)), UtilBar(Rounded(m.rate, 100))}
        BY <2>2 DEF Bars, Value, m
      <3>11. \A x : UtilBar(x).pct = x
        BY DEF UtilBar
      <3> QED
        BY <3>8, <3>9, <3>10, <3>11
    <2> QED
      BY <2>1, <2>2
  <1>2. ASSUME Page = "HealthPage" PROVE \A c \in WorkerCards : c.width \in 0..100
    <2>1. "lags" \in Parts
      BY <1>2 DEF Part, Parts
    <2>2. Values("lags") = UNION {[W -> Seconds] : W \in SUBSET Worker}
      BY Zenon DEF Values
    <2>3. \A w : LagOf(w) \in Nat
      <3> SUFFICES ASSUME NEW w, shown["lags"] # None, w \in DOMAIN Value("lags")
                   PROVE Value("lags")[w] \in Nat
        BY DEF LagOf
      <3>1. Value("lags") \in Values("lags")
        BY <1>2, <2>1 DEF WatchInv, TypeOK, Snapshots, Value
      <3>2. PICK W \in SUBSET Worker : Value("lags") \in [W -> Seconds]
        BY <2>2, <3>1
      <3> QED
        BY <3>2 DEF Seconds
    <2>4. \A l \in Nat : LagIndicator(l) \in 0..100
      BY DEF LagIndicator
    <2> QED
      BY <2>3, <2>4 DEF WorkerCards
  <1> QED
    BY <1>1, <1>2 DEF BarsInRange

\* The utilisation, success and lag bars stay within their track: for every number of
\* workers and records, whatever retention deletes or a restart forgets between the two
\* counts a bar compares.
THEOREM BarsStayInRange ==
  ASSUME PageAssumption PROVE Spec => []BarsInRange
  <1>1. WatchInv => BarsInRange
    BY InvBars
  <1> QED
    BY <1>1, WatchInvariant, PTL

\* An endpoint that answers with data answers with the present.
LEMMA ServedIsCurrent ==
  ASSUME PageAssumption, NEW p \in Parts, Served(p) # NotOk PROVE Served(p).at = clock
  <1>1. p \in {"health", "workers", "lags", "metrics", "perf", "data"}
    BY DEF PageAssumption, Part, Parts
  <1>2. CASE p = "health"
    BY <1>2 DEF Served, health_check
  <1>3. CASE p = "workers"
    BY <1>3 DEF Served, list_workers
  <1>4. CASE p = "lags"
    BY <1>4 DEF Served, heartbeat_lags
  <1>5. CASE p = "metrics"
    BY <1>5 DEF Served, metrics_summary
  <1>6. CASE p = "perf"
    BY <1>6 DEF Served, performance_metrics
  <1>7. CASE p = "data"
    BY <1>7 DEF Served
  <1> QED
    BY <1>1, <1>2, <1>3, <1>4, <1>5, <1>6, <1>7

\* Data has a time, and what is shown is no newer than the control plane.
LEMMA TimesAreKnown ==
  ASSUME PageAssumption, WatchInv, NEW p \in Parts
  PROVE  /\ clock \in Nat
         /\ shown[p] # None => shown[p].at \in Nat /\ shown[p].at <= clock
         /\ \A data \in Snapshots(p) : data.at \in Nat /\ data \notin {None, NotOk, Rejected}
  <1>1. clock \in Nat /\ MaxChanges \in Nat
    BY DEF WatchInv, TypeOK, PageAssumption
  <1>2. \A data \in Snapshots(p) : data.at \in Nat /\ data \notin {None, NotOk, Rejected}
    BY <1>1 DEF Snapshots, PageAssumption
  <1>3. ASSUME shown[p] # None PROVE shown[p].at \in Nat /\ shown[p].at <= clock
    <2>1. shown[p] \in Snapshots(p) /\ Sound(p, shown[p])
      BY <1>3 DEF WatchInv, TypeOK
    <2> QED
      BY <1>2, <2>1 DEF Sound
  <1> QED
    BY <1>1, <1>2, <1>3

\* With one round at a time, an answer is no older than what the page shows, and what the
\* round has stored is what the page shows.
LEMMA OneRoundStep ==
  ASSUME PageAssumption, WatchInv, OneRoundInv, \A s, t \in Slot : s = t, [Next]_vars
  PROVE  OneRoundInv'
  <1>1. CASE UNCHANGED <<rounds, shown>>
    BY <1>1 DEF OneRoundInv
  <1>2. ASSUME NEW s \in Slot, rounds' = [rounds EXCEPT ![s] = None] PROVE OneRoundInv'
    BY <1>2 DEF OneRoundInv, WatchInv, TypeOK
  <1>3. ASSUME NEW s \in Slot, Poll(s) PROVE OneRoundInv'
    <2>1. DOMAIN rounds = Slot
      BY DEF WatchInv, TypeOK
    <2>2. \A t \in Slot : rounds'[t] = Request
      BY <1>3, <2>1 DEF Poll
    <2> QED
      BY <2>2 DEF OneRoundInv, Request
  <1>4. ASSUME NEW s \in Slot, NEW p \in Parts, NEW a, Answered(s, p, a),
               a \in {NotOk, Rejected} \/ (a.at = clock)
        PROVE  OneRoundInv'
    <2>1. rounds[s] # None /\ IsRound(rounds[s]) /\ DOMAIN rounds = Slot /\ UNCHANGED shown
      BY <1>4 DEF Answered, WatchInv, TypeOK
    <2>2. rounds[s].stored = 0
      <3>1. StoredIsShown(rounds[s]) /\ rounds[s].stored \in Nat
        BY <2>1, WatchParts DEF WatchInv, IsRound
      <3> QED
        BY <1>4, <2>1, <3>1 DEF StoredIsShown, Settled, Answered
    <2>3. /\ rounds'[s].stored = 0 /\ rounds'[s].answers[p] = a
          /\ \A q \in Parts : q # p => rounds'[s].answers[q] = rounds[s].answers[q]
      BY <1>4, <2>1, <2>2 DEF Answered, IsRound
    <2>4. \A q \in Parts : shown[q] # None /\ rounds'[s].answers[q] \notin {None, NotOk, Rejected}
                           => rounds'[s].answers[q].at >= shown[q].at
      <3> SUFFICES ASSUME NEW q \in Parts, shown[q] # None, rounds'[s].answers[q] \notin {None, NotOk, Rejected}
                   PROVE  rounds'[s].answers[q].at >= shown[q].at
        OBVIOUS
      <3>1. CASE q = p
        <4>1. rounds'[s].answers[q].at = clock
          BY <1>4, <2>3, <3>1
        <4> QED
          BY <4>1, TimesAreKnown
      <3>2. CASE q # p
        BY <2>1, <2>3, <3>2 DEF OneRoundInv
      <3> QED
        BY <3>1, <3>2
    <2> QED
      BY <2>1, <2>3, <2>4 DEF OneRoundInv
  <1>5. ASSUME NEW s \in Slot, Store(s) PROVE OneRoundInv'
    <2> DEFINE old == rounds[s]
               i == old.stored + 1
               a == old.answers[Part[i]]
    <2>1. /\ old # None /\ Settled(old.answers) /\ DOMAIN shown = Parts /\ DOMAIN rounds = Slot
          /\ shown' = IF a = NotOk THEN shown ELSE [shown EXCEPT ![Part[i]] = a]
      BY <1>5 DEF Store, WatchInv, TypeOK
    <2>2. /\ IsRound(old) /\ i \in 1..Len(Part) /\ Part[i] \in Parts
          /\ a \in {NotOk} \cup Snapshots(Part[i]) /\ Sound(Part[i], a)
          /\ a = NotOk => Part[i] \notin Required
      BY <2>1, StoresData
    <2>3. rounds'[s] = None \/ (rounds'[s].stored = i /\ rounds'[s].answers = old.answers)
      BY <1>5, <2>1, <2>2 DEF Store, RoundEnds, IsRound
    <2>4. old.stored \in Nat /\ Len(Part) \in Nat
      BY <2>2, WatchParts DEF IsRound
    <2> HIDE DEF i, a
    <2>5. \A p \in Parts : shown'[p] # None /\ old.answers[p] \notin {None, NotOk, Rejected}
                           => old.answers[p].at >= shown'[p].at
      <3> SUFFICES ASSUME NEW p \in Parts, shown'[p] # None, old.answers[p] \notin {None, NotOk, Rejected}
                   PROVE  old.answers[p].at >= shown'[p].at
        OBVIOUS
      <3>1. CASE p = Part[i]
        <4>1. old.answers[p] = a /\ shown'[p] = a /\ a \in Snapshots(p)
          BY <2>1, <2>2, <3>1 DEF a
        <4> QED
          BY <4>1, TimesAreKnown
      <3>2. CASE p # Part[i]
        BY <2>1, <3>2 DEF OneRoundInv
      <3> QED
        BY <3>1, <3>2
    <2>6. \A j \in 1..i : Part[j] \in Required => shown'[Part[j]] = old.answers[Part[j]]
      <3> SUFFICES ASSUME NEW j \in 1..i, Part[j] \in Required
                   PROVE  shown'[Part[j]] = old.answers[Part[j]]
        OBVIOUS
      <3>1. CASE j = i
        BY <2>1, <2>2, <3>1 DEF a
      <3>2. CASE j # i
        <4>1. j \in 1..old.stored /\ j \in 1..Len(Part)
          BY <2>2, <2>4, <3>2 DEF i
        <4>2. Part[j] # Part[i]
          BY <2>2, <3>2, <4>1, WatchParts
        <4>3. shown[Part[j]] = old.answers[Part[j]]
          BY <2>1, <4>1 DEF OneRoundInv
        <4> QED
          BY <2>1, <4>1, <4>2, <4>3, WatchParts
      <3> QED
        BY <3>1, <3>2
    <2>7. \A t \in Slot : t = s
      OBVIOUS
    <2> QED
      BY <2>3, <2>5, <2>6, <2>7 DEF OneRoundInv
  <1>6. ASSUME NEW s \in Slot, NEW p \in Parts, Answer(s, p) PROVE OneRoundInv'
    <2>1. Answered(s, p, Served(p)) /\ (Served(p) \in {NotOk, Rejected} \/ Served(p).at = clock)
      BY <1>6, ServedIsCurrent DEF Answer
    <2> QED
      BY <1>4, <2>1
  <1>7. ASSUME NEW s \in Slot, NEW p \in Parts, CallFails(s, p) PROVE OneRoundInv'
    BY <1>4, <1>7 DEF CallFails
  <1>8. ASSUME NEW s \in Slot, Catch(s) \/ BodyFails(s) PROVE OneRoundInv'
    BY <1>2, <1>8 DEF Catch, Caught, BodyFails, RoundEnds
  <1>9. CASE Change
    BY <1>1, <1>9 DEF Change, page
  <1>10. CASE UNCHANGED vars
    BY <1>1, <1>10 DEF vars, page
  <1> QED
    BY <1>3, <1>5, <1>6, <1>7, <1>8, <1>9, <1>10 DEF Next

\* No round is in flight when the page is mounted.
LEMMA OneRoundInit == Init => OneRoundInv
  BY DEF Init, OneRoundInv

\* The invariant of a page whose rounds do not overlap.
THEOREM OneRoundInvariant ==
  ASSUME PageAssumption, \A s, t \in Slot : s = t PROVE Spec => []OneRoundInv
  <1>1. Init => OneRoundInv
    BY OneRoundInit
  <1>2. WatchInv /\ OneRoundInv /\ [Next]_vars => OneRoundInv'
    BY OneRoundStep
  <1> QED
    BY <1>1, <1>2, WatchInvariant, PTL DEF Spec

\* With one round at a time, a step shows nothing older.
LEMMA NeverOlderStep ==
  ASSUME PageAssumption, WatchInv, OneRoundInv, [Next]_vars PROVE NeverGoesBack
  <1>1. \A p \in Parts : shown[p] # None => shown[p].at \in Nat
    BY TimesAreKnown
  <1>2. CASE UNCHANGED shown
    BY <1>1, <1>2 DEF NeverGoesBack
  <1>3. ASSUME NEW s \in Slot, Store(s) PROVE NeverGoesBack
    <2> DEFINE i == rounds[s].stored + 1
               a == rounds[s].answers[Part[i]]
    <2>1. /\ rounds[s] # None /\ Settled(rounds[s].answers) /\ DOMAIN shown = Parts
          /\ shown' = IF a = NotOk THEN shown ELSE [shown EXCEPT ![Part[i]] = a]
      BY <1>3 DEF Store, WatchInv, TypeOK
    <2>2. Part[i] \in Parts /\ a \in {NotOk} \cup Snapshots(Part[i])
      BY <2>1, StoresData
    <2>3. a # NotOk => a \notin {None, NotOk, Rejected}
      BY <2>2, TimesAreKnown
    <2>4. a # NotOk /\ shown[Part[i]] # None => a.at >= shown[Part[i]].at
      BY <2>1, <2>2, <2>3 DEF OneRoundInv
    <2> HIDE DEF i, a
    <2> QED
      BY <1>1, <2>1, <2>2, <2>4 DEF NeverGoesBack
  <1> QED
    BY <1>2, <1>3 DEF Next, Change, Poll, Answer, CallFails, Answered, Catch, Caught, BodyFails, vars, page

\* Nothing a page shows is replaced by something older, as long as a round ends before
\* the next one begins: what is missing for "the latest data" is only that.
THEOREM NeverOlder ==
  ASSUME PageAssumption, \A s, t \in Slot : s = t PROVE Spec => [][NeverGoesBack]_vars
  <1>1. WatchInv /\ OneRoundInv /\ [Next]_vars => NeverGoesBack
    BY NeverOlderStep
  <1> QED
    BY <1>1, WatchInvariant, OneRoundInvariant, PTL DEF Spec

\* With one round at a time, the step that ends a round shows all of it.
LEMMA EndsStep ==
  ASSUME PageAssumption, WatchInv, OneRoundInv, \A s, t \in Slot : s = t, [Next]_vars
  PROVE  EndsAsOneRound
  <1>1. CASE UNCHANGED rounds
    BY <1>1 DEF EndsAsOneRound
  <1>2. ASSUME NEW s \in Slot, error' = TRUE PROVE EndsAsOneRound
    BY <1>2 DEF EndsAsOneRound
  <1>3. ASSUME NEW s \in Slot, Poll(s) PROVE EndsAsOneRound
    BY <1>3 DEF EndsAsOneRound, Poll
  <1>4. ASSUME NEW s \in Slot, NEW p \in Parts, Answer(s, p) \/ CallFails(s, p) PROVE EndsAsOneRound
    <2>1. PICK a : Answered(s, p, a) /\ a \in Replies(p)
      BY <1>4, ServedIsSound DEF Answer, CallFails, Replies
    <2>2. rounds[s] # None /\ IsRound(rounds[s]) /\ DOMAIN rounds = Slot
      BY <2>1 DEF Answered, WatchInv, TypeOK
    <2> DEFINE r == [rounds[s] EXCEPT !.answers[p] = a]
    <2>3. /\ rounds'[s] = r
          /\ r = [answers |-> [q \in Parts |-> IF q = p THEN a ELSE rounds[s].answers[q]],
                  stored |-> rounds[s].stored]
      BY <2>1, <2>2 DEF Answered, IsRound
    <2>4. \A q \in Parts : (IF q = p THEN a ELSE rounds[s].answers[q]) \in UNION {Replies(x) : x \in Parts}
      <3>1. \A q \in Parts : (IF q = p THEN a ELSE rounds[s].answers[q]) \in Replies(q)
        BY <2>1, <2>2 DEF IsRound
      <3> QED
        BY <3>1
    <2>5. r \in Round
      BY <2>2, <2>3, <2>4 DEF Round, IsRound
    <2>6. rounds'[s] # None
      BY <2>3, <2>5 DEF PageAssumption
    <2> QED
      BY <2>6 DEF EndsAsOneRound
  <1>5. ASSUME NEW s \in Slot, Store(s) PROVE EndsAsOneRound
    <2> SUFFICES ASSUME rounds[s] # None, rounds'[s] = None, NEW p \in Required
                 PROVE  shown'[p] = rounds[s].answers[p]
      BY DEF EndsAsOneRound
    <2> DEFINE i == rounds[s].stored + 1
               a == rounds[s].answers[Part[i]]
               r == [rounds[s] EXCEPT !.stored = i]
    <2>1. /\ Settled(rounds[s].answers) /\ DOMAIN shown = Parts /\ DOMAIN rounds = Slot
          /\ shown' = IF a = NotOk THEN shown ELSE [shown EXCEPT ![Part[i]] = a]
      BY <1>5 DEF Store, WatchInv, TypeOK
    <2>2. /\ IsRound(rounds[s]) /\ i \in 1..Len(Part) /\ Part[i] \in Parts
          /\ a = NotOk => Part[i] \notin Required
      BY <2>1, StoresData
    <2>3. rounds[s].stored \in Nat /\ Len(Part) \in Nat
      BY <2>2, WatchParts DEF IsRound
    <2>4. i >= Len(Part)
      <3> SUFFICES ASSUME ~(i >= Len(Part)) PROVE FALSE
        OBVIOUS
      <3>1. rounds'[s] = r
        BY <1>5, <2>1 DEF Store
      <3>2. /\ r = [answers |-> [q \in Parts |-> rounds[s].answers[q]], stored |-> i]
            /\ i \in 0..Len(Part) - 1
        BY <2>2, <2>3 DEF IsRound
      <3>3. \A q \in Parts : rounds[s].answers[q] \in UNION {Replies(x) : x \in Parts}
        BY <2>2 DEF IsRound
      <3>4. r \in Round
        BY <3>2, <3>3 DEF Round
      <3> QED
        BY <3>1, <3>4 DEF PageAssumption
    <2> HIDE DEF i, a
    <2>5. PICK j \in 1..Len(Part) : p = Part[j]
      BY WatchParts
    <2>6. CASE j = i
      BY <2>1, <2>2, <2>5, <2>6 DEF a
    <2>7. CASE j # i
      <3>1. j \in 1..rounds[s].stored
        BY <2>2, <2>3, <2>4, <2>7 DEF i
      <3>2. shown[p] = rounds[s].answers[p] /\ p # Part[i]
        BY <2>2, <2>5, <2>7, <3>1, WatchParts DEF OneRoundInv
      <3> QED
        BY <2>1, <3>2, WatchParts
    <2> QED
      BY <2>6, <2>7
  <1> QED
    BY <1>1, <1>2, <1>3, <1>4, <1>5
       DEF Next, Change, Catch, Caught, BodyFails, RoundEnds, vars, page

\* A round that ends without an error leaves the page showing that round and no other, as
\* long as rounds do not overlap.
THEOREM EndsAsItsRound ==
  ASSUME PageAssumption, \A s, t \in Slot : s = t PROVE Spec => [][EndsAsOneRound]_vars
  <1>1. WatchInv /\ OneRoundInv /\ [Next]_vars => EndsAsOneRound
    BY EndsStep
  <1> QED
    BY <1>1, WatchInvariant, OneRoundInvariant, PTL DEF Spec
=============================================================================
