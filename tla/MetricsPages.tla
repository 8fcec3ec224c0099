---------------------------- MODULE MetricsPages ----------------------------
(***************************************************************************)
(* The pages that only watch: HealthPage.tsx, PerformancePage.tsx and the  *)
(* panels built on the hook usePolling, against the metrics endpoints of   *)
(* the control plane.                                                      *)
(*                                                                         *)
(* A round asks for every part of the page at once, waits for all answers  *)
(* (Promise.all), then reads and stores the parts one after another, with  *)
(* an await before each.  The interval starts a round whether or not an    *)
(* earlier one has ended, and no round is cancelled: each slot holds one.  *)
(* A call may be rejected, answered by a bad status, or break off while    *)
(* its body is read.                                                       *)
(***************************************************************************)
EXTENDS Naturals, Sequences, FiniteSets

CONSTANTS
  Page,       \* "HealthPage", "PerformancePage" or "usePolling"
  Worker,     \* worker ids
  Slot,       \* rounds in flight: names, and the bound on their number
  None,       \* null
  NotOk,      \* an answer with !res.ok
  Rejected,   \* a call that throws
  MaxChanges, \* bound on the changes of the control plane
  MaxFaults   \* bound on the calls that fail

VARIABLES
  \* the control plane
  clock,      \* number of its changes: tells an old answer from a new one
  etcdUp,     \* etcd answers
  dataplane,  \* the data plane says it is healthy
  status,     \* status of each worker, "NONE" if unknown: in WorkerManager._workers
              \* (health page), or in the record in etcd (performance page)
  lag,        \* HeartbeatManager._leases: seconds since the last heartbeat
  all,        \* checkpoint records in etcd
  committed,  \* the ones that are COMMITTED
  saves,      \* len(_CHECKPOINT_DURATIONS)
  \* the page
  rounds, shown, loading, error,
  faults

server == <<clock, etcdUp, dataplane, status, lag, all, committed, saves>>
page == <<rounds, shown, loading, error>>
vars == <<server, page, faults>>

\* The parts of a page in the order they are stored, and those whose status is checked.
Part == CASE Page = "HealthPage" -> <<"health", "workers", "lags">>
          [] Page = "PerformancePage" -> <<"metrics", "perf">>
          [] OTHER -> <<"data">>
Required == IF Page = "PerformancePage" THEN {"metrics"} ELSE {Part[i] : i \in DOMAIN Part}
Parts == {Part[i] : i \in DOMAIN Part}

Request == [answers |-> [p \in Parts |-> None], stored |-> 0]

Init ==
  /\ clock = 0 /\ etcdUp = TRUE /\ dataplane \in BOOLEAN
  /\ status = [w \in Worker |-> "NONE"] /\ lag = [w \in Worker |-> 0]
  /\ all = 0 /\ committed = 0 /\ saves = 0
  /\ rounds = [s \in Slot |-> None] /\ shown = [p \in Parts |-> None]
  /\ loading = TRUE /\ error = FALSE /\ faults = 0
-----------------------------------------------------------------------------
\* The control plane changes.  Seconds of lag are taken on either side of the
\* thresholds of the page (5, 30) and of dead_threshold_seconds (60).
Seconds == {0, 10, 40, 70}
DEAD_THRESHOLD == 60

Registers(w) ==
  /\ etcdUp /\ status[w] = "NONE" /\ status' = [status EXCEPT ![w] = "ACTIVE"]
  /\ lag' = [lag EXCEPT ![w] = 0]
  /\ UNCHANGED <<etcdUp, dataplane, all, committed, saves>>
Beats(w) ==
  /\ etcdUp /\ status[w] = "ACTIVE" /\ lag[w] # 0 /\ lag' = [lag EXCEPT ![w] = 0]
  /\ UNCHANGED <<etcdUp, dataplane, status, all, committed, saves>>
TimePasses ==
  /\ \E w \in Worker : status[w] = "ACTIVE"
  /\ lag' \in {f \in [Worker -> Seconds] : \A w \in Worker : f[w] > lag[w]}
  /\ UNCHANGED <<etcdUp, dataplane, status, all, committed, saves>>
\* Declared dead by the monitor, superseded or deregistered: the lease is no
\* longer alive, the worker stays listed.  The monitor swallows the error of a
\* store that does not answer: the worker is DEAD in the index, not in its record.
Ends(w) ==
  /\ status[w] = "ACTIVE"
  /\ \/ lag[w] > DEAD_THRESHOLD /\ status' = [status EXCEPT ![w] = "DEAD"]
     \/ etcdUp /\ status' = [status EXCEPT ![w] = "SUPERSEDED"]
  /\ UNCHANGED <<etcdUp, dataplane, lag, all, committed, saves>>
Flips ==
  /\ \/ etcdUp' = ~etcdUp /\ UNCHANGED dataplane
     \/ dataplane' = ~dataplane /\ UNCHANGED etcdUp
  /\ UNCHANGED <<status, lag, all, committed, saves>>
\* A checkpoint record is made, committed, or deleted by retention.
Checkpoints ==
  /\ etcdUp /\ UNCHANGED <<etcdUp, dataplane, status, lag>>
  /\ \/ all' = all + 1 /\ UNCHANGED <<committed, saves>>
     \/ committed < all /\ committed' = committed + 1 /\ saves' = saves + 1 /\ UNCHANGED all
     \/ committed > 0 /\ committed' = committed - 1 /\ all' = all - 1 /\ UNCHANGED saves
\* The process restarts: durations are in memory only.
Restarts == saves > 0 /\ saves' = 0 /\ UNCHANGED <<etcdUp, dataplane, status, lag, all, committed>>

Change ==
  /\ clock < MaxChanges /\ clock' = clock + 1
  /\ \/ Flips
     \/ Page = "HealthPage" /\ (TimePasses \/ \E w \in Worker : Registers(w) \/ Beats(w) \/ Ends(w))
     \/ Page = "PerformancePage" /\ (TimePasses \/ Checkpoints \/ Restarts
                                      \/ \E w \in Worker : Registers(w) \/ Ends(w))
  /\ UNCHANGED <<page, faults>>
-----------------------------------------------------------------------------
\* What the endpoints answer.

health_check_Cached ==
  IF ~etcdUp THEN NotOk ELSE IF dataplane THEN [at |-> clock, value |-> "HEALTHY"] ELSE [at |-> 0, value |-> "DEGRADED"]
health_check ==
  IF ~etcdUp THEN NotOk
  ELSE [at |-> clock, value |-> IF dataplane THEN "HEALTHY" ELSE "DEGRADED"]

list_workers == [at |-> clock, value |-> [w \in {v \in Worker : status[v] # "NONE"} |-> status[w]]]

\* get_heartbeat_lags: the leases that are alive.
heartbeat_lags == [at |-> clock, value |-> [w \in {x \in Worker : status[x] = "ACTIVE"} |-> lag[w]]]

Rounded(a, b) == (2 * a + b) \div (2 * b)
\* success_rate is rounded to four digits: here in units of 1/10000.
metrics_summary ==
  IF ~etcdUp THEN NotOk
  ELSE [at |-> clock,
        value |-> [total_workers |-> Cardinality({w \in Worker : status[w] # "NONE"}),
                   active_workers |-> Cardinality({w \in Worker : status[w] = "ACTIVE"}),
                   total_checkpoints |-> all,
                   rate |-> IF all > 0 THEN Rounded(10000 * committed, all) ELSE 0]]

performance_metrics == IF ~etcdUp THEN NotOk ELSE [at |-> clock, value |-> saves]

Served(p) ==
  CASE p = "health" -> health_check
    [] p = "workers" -> list_workers
    [] p = "lags" -> heartbeat_lags
    [] p = "metrics" -> metrics_summary
    [] p = "perf" -> performance_metrics
    [] OTHER -> IF etcdUp THEN [at |-> clock, value |-> "data"] ELSE NotOk
-----------------------------------------------------------------------------
\* A round.  Mounting, the interval and refetch all start one.
Poll(s) ==
  /\ rounds[s] = None /\ rounds' = [rounds EXCEPT ![s] = Request]
  /\ UNCHANGED <<server, shown, loading, error, faults>>

Answered(s, p, a) ==
  /\ rounds[s] # None /\ rounds[s].answers[p] = None
  /\ rounds' = [rounds EXCEPT ![s].answers[p] = a]
  /\ UNCHANGED <<server, shown, loading, error>>
Answer(s, p) == Answered(s, p, Served(p)) /\ UNCHANGED faults
CallFails(s, p) ==
  /\ faults < MaxFaults /\ faults' = faults + 1
  /\ \E a \in {NotOk, Rejected} : Answered(s, p, a)

\* One rejected call rejects the Promise.all; a bad status is seen when all are in.
Throws(answers) ==
  \/ \E p \in Parts : answers[p] = Rejected
  \/ None \notin {answers[p] : p \in Parts} /\ \E p \in Required : answers[p] = NotOk
Settled(answers) == ~Throws(answers) /\ None \notin {answers[p] : p \in Parts}

RoundEnds(s, failed) ==
  /\ error' = failed /\ loading' = FALSE
  /\ rounds' = [rounds EXCEPT ![s] = None]

Caught(s, failed) ==
  /\ rounds[s] # None /\ Throws(rounds[s].answers) /\ RoundEnds(s, failed)
  /\ UNCHANGED <<server, shown, faults>>
Catch_Silently(s) == Caught(s, error)
\* The catch and finally blocks.
Catch(s) == Caught(s, TRUE)

\* await res.json() and the setter of one part; the last one ends the round.
Store(s) ==
  /\ rounds[s] # None /\ Settled(rounds[s].answers)
  /\ LET i == rounds[s].stored + 1
         a == rounds[s].answers[Part[i]]
     IN /\ shown' = IF a = NotOk THEN shown ELSE [shown EXCEPT ![Part[i]] = a]
        /\ IF i >= Len(Part) THEN RoundEnds(s, FALSE)
           ELSE rounds' = [rounds EXCEPT ![s].stored = i] /\ UNCHANGED <<loading, error>>
  /\ UNCHANGED <<server, faults>>

\* The body of the next part breaks off: the parts before it stay stored.
BodyFails(s) ==
  /\ rounds[s] # None /\ Settled(rounds[s].answers)
  /\ rounds[s].answers[Part[rounds[s].stored + 1]] # NotOk
  /\ faults < MaxFaults /\ faults' = faults + 1
  /\ RoundEnds(s, TRUE) /\ UNCHANGED <<server, shown>>
-----------------------------------------------------------------------------
Next ==
  \/ Change
  \/ \E s \in Slot : Poll(s) \/ Catch(s) \/ Store(s) \/ BodyFails(s)
  \/ \E s \in Slot, p \in Parts : Answer(s, p) \/ CallFails(s, p)

Spec == Init /\ [][Next]_vars
-----------------------------------------------------------------------------
\* What the pages show.
Value(p) == shown[p].value

lagColor(l) == CASE l < 5 -> "text-ok" [] l < 30 -> "text-warn" [] OTHER -> "text-err"
\* LagIndicator: the width of the bar, in percent.
LagIndicator(l) == IF l < 60 THEN (l * 100) \div 60 ELSE 100
LagOf(w) == IF shown["lags"] # None /\ w \in DOMAIN Value("lags") THEN Value("lags")[w] ELSE 0
WorkerCards == IF shown["workers"] = None THEN {} ELSE
  {[worker |-> w, active |-> Value("workers")[w] = "ACTIVE", lag |-> LagOf(w),
    color |-> lagColor(LagOf(w)), width |-> LagIndicator(LagOf(w))] : w \in DOMAIN Value("workers")}
HealthBanner == IF shown["health"] = None THEN "none" ELSE Value("health")

\* UtilBar: the colour depends on the width only; the success card has its own.
UtilBar(pct) == [pct |-> pct, color |-> CASE pct > 80 -> "bg-err" [] pct > 60 -> "bg-warn" [] OTHER -> "own"]
Percent(a, b) == IF b > 0 THEN Rounded(100 * a, b) ELSE 0
Bars == IF shown["metrics"] = None THEN {} ELSE LET m == Value("metrics") IN
  {UtilBar(Percent(m.active_workers, m.total_workers)), UtilBar(Rounded(m.rate, 100))}
Throughput == IF shown["perf"] = None \/ Value("perf") = 0 THEN "No throughput data yet" ELSE "completed"
\* The points of the latency chart: the last thirty saves, numbered from 0.
LatencyChart == {i \in 0..29 : shown["perf"] # None /\ i < Value("perf")}
-----------------------------------------------------------------------------
\* What each part may hold.
Summary == [total_workers : 0..Cardinality(Worker), active_workers : 0..Cardinality(Worker),
            total_checkpoints : 0..MaxChanges, rate : 0..10000]
Values(p) ==
  CASE p = "health" -> {"HEALTHY", "DEGRADED"}
    [] p = "workers" -> UNION {[W -> {"ACTIVE", "DEAD", "SUPERSEDED"}] : W \in SUBSET Worker}
    [] p = "lags" -> UNION {[W -> Seconds] : W \in SUBSET Worker}
    [] p = "metrics" -> Summary
    [] p = "perf" -> 0..MaxChanges
    [] OTHER -> {"data"}
Snapshots(p) == [at : 0..MaxChanges, value : Values(p)]
Replies(p) == {None, NotOk, Rejected} \cup Snapshots(p)
Round == [answers : [Parts -> UNION {Replies(p) : p \in Parts}], stored : 0..Len(Part) - 1]

IsRound(r) ==
  /\ r = [answers |-> [p \in Parts |-> r.answers[p]], stored |-> r.stored]
  /\ r.stored \in 0..Len(Part) - 1
  /\ \A p \in Parts : r.answers[p] \in Replies(p)

\* null, a bad status and an exception are no data, and not each other.
PageAssumption ==
  /\ Page \in {"HealthPage", "PerformancePage", "usePolling"}
  /\ IsFiniteSet(Worker) /\ MaxChanges \in Nat /\ MaxFaults \in Nat
  /\ None # NotOk /\ None # Rejected /\ NotOk # Rejected
  /\ \A p \in Parts : {None, NotOk, Rejected} \cap Snapshots(p) = {}
  /\ None \notin Round

\* Types; a page never shows a status HEALTH_CONFIG has no entry for.
TypeOK ==
  /\ clock \in 0..MaxChanges /\ {etcdUp, dataplane, loading, error} \subseteq BOOLEAN
  /\ status \in [Worker -> {"NONE", "ACTIVE", "DEAD", "SUPERSEDED"}]
  /\ lag \in [Worker -> Seconds]
  /\ all \in 0..MaxChanges /\ committed \in 0..all /\ saves \in 0..MaxChanges
  /\ DOMAIN shown = Parts /\ \A p \in Parts : shown[p] = None \/ shown[p] \in Snapshots(p)
  /\ DOMAIN rounds = Slot /\ \A s \in Slot : rounds[s] = None \/ IsRound(rounds[s])
  /\ faults \in 0..MaxFaults

\* Once the spinner is gone the page shows an error or every part it requires,
\* however rounds overlapped, failed or broke off half-way.
NothingMissing ==
  ~loading /\ ~error => /\ \A p \in Required : shown[p] # None
                        /\ Page = "HealthPage" => HealthBanner # "none"

\* Data is never newer than the control plane, and its counts belong together.
Sound(p, data) ==
  data \notin {None, NotOk, Rejected} =>
    data.at <= clock /\ (p = "metrics" => data.value.active_workers <= data.value.total_workers)
\* What a round has stored is on the page, and its answers leave nothing to throw.
StoredIsShown(r) ==
  r # None /\ r.stored > 0 => /\ Settled(r.answers)
                              /\ \A i \in 1..r.stored : Part[i] \in Required => shown[Part[i]] # None

\* Inductive: the types, with the two invariants of the pages and what they rest on.
WatchInv ==
  /\ TypeOK /\ all <= clock /\ saves <= clock
  /\ \A p \in Parts : Sound(p, shown[p])
  /\ \A s \in Slot : rounds[s] # None => \A p \in Parts : Sound(p, rounds[s].answers[p])
  /\ \A s \in Slot : StoredIsShown(rounds[s])
  /\ NothingMissing

\* Inductive for one round at a time: its answers are no older than the page, and those
\* it has stored are what the page shows.
OneRoundInv ==
  \A s \in Slot : rounds[s] # None =>
    /\ \A p \in Parts : shown[p] # None /\ rounds[s].answers[p] \notin {None, NotOk, Rejected}
                         => rounds[s].answers[p].at >= shown[p].at
    /\ \A i \in 1..rounds[s].stored : Part[i] \in Required
                                       => shown[Part[i]] = rounds[s].answers[Part[i]]

\* The bars of both pages stay within their track: retention may delete records
\* and the process may restart between the two counts a bar compares.
BarsInRange ==
  /\ Page = "PerformancePage" => \A b \in Bars : b.pct \in 0..100
  /\ Page = "HealthPage" => \A c \in WorkerCards : c.width \in 0..100

\* Nothing a page shows is replaced by something older.  It holds as long as a
\* round ends before the next begins.
NeverGoesBack == \A p \in Parts : shown[p] # None => shown'[p].at >= shown[p].at

\* A round that ends without an error leaves the page showing that round and no
\* other, as long as rounds do not overlap.
EndsAsOneRound ==
  \A s \in Slot : rounds[s] # None /\ rounds'[s] = None /\ ~error'
    => \A p \in Required : shown'[p] = rounds[s].answers[p]

\* If the control plane stops changing and calls stop failing, the page ends up
\* showing exactly what it answers, although older rounds may overwrite newer ones.
PageIsCurrent == \A p \in Parts :
  shown[p] # None /\ Served(p) # NotOk /\ shown[p].value = Served(p).value
-----------------------------------------------------------------------------
(* What the repository says of this code and the code does not keep: see README.md. *)

\* usePolling.ts:4 "Returns the latest data".
LatestData == [][NeverGoesBack]_vars

\* rest.py:33 "Heartbeat lag for all workers": no card of a worker that has been
\* silent for more than 30 s has a green lag, when the page shows one state of the
\* control plane.
LagForAllWorkers ==
  Page = "HealthPage" /\ ~loading /\ ~error /\ (\A p \in Parts : shown[p] # None /\ shown[p].at = clock)
    => \A c \in WorkerCards : lag[c.worker] > 30 => c.color # "text-ok"

\* PerformancePage.tsx:178 "No throughput data yet. Complete a checkpoint cycle to
\* see metrics.": only as long as no checkpoint cycle is completed.
NoDataMeansNoCheckpoint ==
  Page = "PerformancePage" /\ ~loading /\ ~error /\ (\A p \in Parts : shown[p] # None /\ shown[p].at = clock)
    => (Throughput = "No throughput data yet" \/ LatencyChart = {} => committed = 0)
=============================================================================
