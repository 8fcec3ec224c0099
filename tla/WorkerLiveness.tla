--------------------------- MODULE WorkerLiveness ---------------------------
(***************************************************************************)
(* How the workers of the supervised run are registered, watched, declared *)
(* dead and restarted as a group: WorkerManager, HeartbeatManager, the     *)
(* failure callbacks, the restart scheduler and the reconciliation task of *)
(* rest.py, and what a restart of the control plane rebuilds from the      *)
(* key-value store.                                                        *)
(*                                                                         *)
(* The granularity is that of CheckpointProtocol: a handler or background  *)
(* task runs alone on the loop until it awaits, `seg' is the rest of the   *)
(* segment now running, and one step makes at most one write to the store, *)
(* so that the process can die between any two.  The thread that runs      *)
(* `docker restart' is concurrent with all of it.  Writes to the store     *)
(* succeed; so the state machine of the run agrees with the stored state   *)
(* (CheckpointProtocol's FsmMatchesStore) and is not kept apart here.      *)
(*                                                                         *)
(* Time is abstract: a lease becomes stale, a restart attempt stops being  *)
(* recent and the host's uptime grows at any moment.                       *)
(***************************************************************************)
EXTENDS Naturals, FiniteSets

CONSTANTS
  Worker,      \* worker ids, one per registration
  NoWorker,    \* no worker
  MaxRank,     \* ranks are 0..MaxRank
  NumWorkers,  \* RunConfig.num_workers
  AutoRestart, \* AUTO_RESTART_WORKERS
  Crashes      \* the control plane may restart

ASSUME WorkerAssumption == NoWorker \notin Worker
ASSUME RankAssumption == MaxRank \in Nat
ASSUME NumAssumption == NumWorkers \in Nat
ASSUME OptionAssumption == AutoRestart \in BOOLEAN /\ Crashes \in BOOLEAN

VARIABLES
  \* key-value store
  runState,    \* RunStatus.state
  kvStatus,    \* WorkerInfo.status of each registration, "NONE" if there is none
  rank,        \* WorkerInfo.rank
  \* control-plane memory
  index,       \* WorkerManager._workers: the status it remembers
  members,     \* WorkerManager._run_workers[run]
  nextRank,    \* WorkerManager._rank_counters[run]
  lease,       \* HeartbeatManager._leases
  inFlight,    \* _WORKER_RESTART_IN_FLIGHT: no run, or this one
  lastAttempt, \* _WORKER_RESTART_LAST_ATTEMPT[run]
  threads,     \* restart threads that are running
  seg,         \* the segment that holds the loop
  \* environment
  uptime       \* "short" until time.monotonic() reaches _WORKER_RESTART_RETRY_SECONDS

registry == <<kvStatus, rank, index, members, nextRank, lease>>
restarting == <<inFlight, lastAttempt, threads>>
vars == <<runState, registry, restarting, seg, uptime>>

RL == INSTANCE RunLifecycle WITH runState <- runState

Ranks == 0..MaxRank
Statuses == {"NONE", "ACTIVE", "DEAD", "SUPERSEDED", "DEREGISTERED"}
\* No lease; alive and heard of within dead_threshold_seconds; alive but not
\* heard of for longer; declared dead and kept.
Leases == {"none", "fresh", "stale", "dead"}
SegPCs == {"idle", "supersede", "scan", "failed", "recover", "mark", "kill"}

TypeOK ==
  /\ runState \in RL!RunStates \cup {RL!NoRun}
  /\ kvStatus \in [Worker -> Statuses]
  /\ rank \in [Worker -> Ranks]
  /\ index \in [Worker -> Statuses]
  /\ members \subseteq Worker
  /\ nextRank \in 0..(MaxRank + 1)
  /\ lease \in [Worker -> Leases]
  /\ inFlight \in {"none", "run"}
  /\ lastAttempt \in {"none", "recent", "old"}
  /\ threads \in Nat
  /\ seg \in [pc : SegPCs, w : Worker \cup {NoWorker}, rank : Ranks,
              todo : SUBSET Worker, scan : SUBSET Worker]
  /\ uptime \in {"short", "long"}

-----------------------------------------------------------------------------
(* Helpers *)

SegAt(pc, w, r, todo, scan) ==
  [pc |-> pc, w |-> w, rank |-> r, todo |-> todo, scan |-> scan]
IdleSeg == SegAt("idle", NoWorker, 0, {}, {})
LoopIdle == seg.pc = "idle"
\* Back to the scan a failure callback was called from; an empty one just ends.
BackToScan(scan) == SegAt("scan", NoWorker, 0, {}, scan)

\* Coordinator.list_workers: the registrations that have a record, and the
\* ones whose record says ACTIVE.
Known == {w \in Worker : kvStatus[w] # "NONE"}
Active == {w \in Worker : kvStatus[w] = "ACTIVE"}
Alive == {w \in Worker : lease[w] \in {"fresh", "stale"}}

\* Coordinator.mark_worker_dead with its status argument.
mark_worker_dead(w, status) == kvStatus' = [kvStatus EXCEPT ![w] = status]
\* HeartbeatManager.unregister
unregister(w) == lease' = [lease EXCEPT ![w] = "none"]
remember(w, status) == index' = [index EXCEPT ![w] = status]

-----------------------------------------------------------------------------
(* POST /api/workers/register *)

\* Room for another registration: the bound on the number of worker ids.
IdsLeft == Worker \ Known # {}

\* Defect: earlier registrations of the rank are left alone.
RegisterRank_KeepsOld(r) ==
  /\ LoopIdle /\ IdsLeft
  /\ nextRank' = IF nextRank > r THEN nextRank ELSE r + 1
  /\ seg' = SegAt("supersede", NoWorker, r, {}, {})
  /\ UNCHANGED <<runState, kvStatus, rank, index, members, lease, restarting, uptime>>

\* register_worker with a rank: the registrations of that rank which the index
\* remembers as ACTIVE are to be retired first.
RegisterRank(r) ==
  /\ LoopIdle /\ IdsLeft
  /\ nextRank' = IF nextRank > r THEN nextRank ELSE r + 1
  /\ seg' = SegAt("supersede", NoWorker, r,
                  {w \in members : rank[w] = r /\ index[w] = "ACTIVE"}, {})
  /\ UNCHANGED <<runState, kvStatus, rank, index, members, lease, restarting, uptime>>

\* register_worker without one: _next_rank.
RegisterNextRank ==
  /\ LoopIdle /\ IdsLeft /\ nextRank \in Ranks
  /\ nextRank' = nextRank + 1
  /\ seg' = SegAt("supersede", NoWorker, nextRank, {}, {})
  /\ UNCHANGED <<runState, kvStatus, rank, index, members, lease, restarting, uptime>>

Supersede(w) ==
  /\ seg.pc = "supersede" /\ w \in seg.todo
  /\ remember(w, "SUPERSEDED") /\ mark_worker_dead(w, "SUPERSEDED") /\ unregister(w)
  /\ seg' = [seg EXCEPT !.todo = @ \ {w}]
  /\ UNCHANGED <<runState, rank, members, nextRank, restarting, uptime>>

\* Coordinator.register_worker under a fresh id, then the index and the lease.
RegisterWorker(w) ==
  /\ seg.pc = "supersede" /\ seg.todo = {} /\ w \notin Known
  /\ kvStatus' = [kvStatus EXCEPT ![w] = "ACTIVE"]
  /\ rank' = [rank EXCEPT ![w] = seg.rank]
  /\ remember(w, "ACTIVE")
  /\ members' = members \cup {w}
  /\ lease' = [lease EXCEPT ![w] = "fresh"]
  /\ seg' = IdleSeg
  /\ UNCHANGED <<runState, nextRank, restarting, uptime>>

-----------------------------------------------------------------------------
(* POST .../deregister and .../heartbeat *)

\* Defect: the record gets a status of its own that nobody knows.
Deregister_OtherStatus(w) ==
  /\ LoopIdle /\ index[w] # "NONE"
  /\ remember(w, "DEREGISTERED") /\ mark_worker_dead(w, "GONE") /\ unregister(w)
  /\ members' = members \ {w}
  /\ UNCHANGED <<runState, rank, nextRank, restarting, seg, uptime>>

Deregister(w) ==
  /\ LoopIdle /\ index[w] # "NONE"
  /\ remember(w, "DEREGISTERED") /\ mark_worker_dead(w, "DEREGISTERED") /\ unregister(w)
  /\ members' = members \ {w}
  /\ UNCHANGED <<runState, rank, nextRank, restarting, seg, uptime>>

\* Defect: a heartbeat is accepted from every worker the index knows.
Heartbeat_AnyStatus(w) ==
  /\ LoopIdle /\ index[w] # "NONE"
  /\ kvStatus' = [kvStatus EXCEPT ![w] = "ACTIVE"]
  /\ lease' = [lease EXCEPT ![w] = IF @ = "none" THEN @ ELSE "fresh"]
  /\ UNCHANGED <<runState, rank, index, members, nextRank, restarting, seg, uptime>>

\* update_worker_heartbeat: refused (404 or 409, nothing changes) unless the
\* index says ACTIVE; the record is written ACTIVE, then the lease is touched.
Heartbeat(w) ==
  /\ LoopIdle /\ index[w] = "ACTIVE"
  /\ kvStatus' = [kvStatus EXCEPT ![w] = "ACTIVE"]
  /\ lease' = [lease EXCEPT ![w] = IF @ = "none" THEN @ ELSE "fresh"]
  /\ UNCHANGED <<runState, rank, index, members, nextRank, restarting, seg, uptime>>

-----------------------------------------------------------------------------
(* HeartbeatManager._check_workers and the failure callbacks *)

\* Defect: the monitor only looks while the run is running.
BeginScan_OnlyRunning ==
  /\ LoopIdle /\ runState = "RUNNING" /\ \E w \in Worker : lease[w] = "stale"
  /\ seg' = BackToScan(Alive)
  /\ UNCHANGED <<runState, registry, restarting, uptime>>

\* A scan over a snapshot of the leases; one that finds nothing changes nothing.
BeginScan ==
  /\ LoopIdle /\ \E w \in Worker : lease[w] = "stale"
  /\ seg' = BackToScan(Alive)
  /\ UNCHANGED <<runState, registry, restarting, uptime>>

\* The next expired lease of the snapshot: declared dead, in memory and then in
\* the store.  A lease removed since the snapshot was taken is passed over.
DeclareDead(w) ==
  /\ seg.pc = "scan" /\ w \in seg.scan /\ lease[w] = "stale"
  /\ lease' = [lease EXCEPT ![w] = "dead"]
  /\ mark_worker_dead(w, "DEAD")
  /\ seg' = SegAt("failed", w, 0, {}, seg.scan \ {w})
  /\ UNCHANGED <<runState, rank, index, members, nextRank, restarting, uptime>>

EndScan ==
  /\ seg.pc = "scan" /\ \A w \in seg.scan : lease[w] # "stale"
  /\ seg' = IdleSeg
  /\ UNCHANGED <<runState, registry, restarting, uptime>>

\* The callbacks of WorkerManager and RecoveryManager: the index follows, and
\* the run is FAILED unless it is over, is so already, or may not be (CREATED).
\* Aborting its checkpoints is part of CheckpointProtocol.
FailureCallback ==
  /\ seg.pc = "failed"
  /\ remember(seg.w, "DEAD")
  /\ LET recover == IF AutoRestart THEN SegAt("recover", NoWorker, 0, {}, seg.scan)
                                   ELSE BackToScan(seg.scan)
     IN \/ /\ runState = "FAILED"
           /\ seg' = recover /\ runState' = runState
        \/ /\ runState \in RL!RunStates /\ RL!can_transition(runState, "FAILED")
           /\ seg' = recover /\ runState' = "FAILED"
        \/ /\ runState \in {RL!NoRun, "CREATED", "CANCELLED", "COMPLETED"}
           /\ seg' = BackToScan(seg.scan) /\ runState' = runState
  /\ UNCHANGED <<kvStatus, rank, members, nextRank, lease, restarting, uptime>>

-----------------------------------------------------------------------------
(* _schedule_worker_group_restart *)

\* The missing entry of a run never restarted counts as an attempt at time 0.
Throttled == lastAttempt = "recent" \/ (lastAttempt = "none" /\ uptime = "short")

\* Defect: only the time since the last attempt is looked at.
Refused_ThrottleOnly == Throttled

Refused == inFlight # "none" \/ Throttled

\* Claim the restart; every registration of the run is to be marked dead.
BeginRestart(scan) ==
  /\ inFlight' = "run" /\ lastAttempt' = "recent" /\ threads' = threads
  /\ seg' = SegAt("mark", NoWorker, 0, Known, scan)

\* RecoveryManager._attempt_recovery
AttemptRecovery ==
  /\ seg.pc = "recover"
  /\ RL!can_transition(runState, "RECOVERING")
  /\ runState' = "RECOVERING"
  /\ \/ ~Refused /\ BeginRestart(seg.scan)
     \/ Refused /\ seg' = BackToScan(seg.scan) /\ UNCHANGED restarting
  /\ UNCHANGED <<registry, uptime>>

\* _reconcile_worker_recovery, when it finds the group incomplete.
GroupIncomplete ==
  runState = "RECOVERING" /\ Known # {} /\ Cardinality(Active) < NumWorkers

Reconcile ==
  /\ LoopIdle /\ AutoRestart /\ GroupIncomplete
  /\ ~Refused /\ BeginRestart({})
  /\ UNCHANGED <<runState, registry, uptime>>

\* One registration: its record if it is ACTIVE, what the index remembers of
\* it whatever that is, and its lease.
MarkGroupDead(w) ==
  /\ seg.pc = "mark" /\ w \in seg.todo
  /\ IF w \in Active THEN mark_worker_dead(w, "DEAD") ELSE UNCHANGED kvStatus
  /\ remember(w, IF index[w] = "NONE" THEN "NONE" ELSE "DEAD")
  /\ unregister(w)
  /\ seg' = [seg EXCEPT !.todo = @ \ {w}]
  /\ UNCHANGED <<runState, rank, members, nextRank, restarting, uptime>>

StartThread ==
  /\ seg.pc = "mark" /\ seg.todo = {}
  /\ threads' = threads + 1
  /\ seg' = BackToScan(seg.scan)
  /\ UNCHANGED <<runState, registry, inFlight, lastAttempt, uptime>>

\* The thread cannot be started.
StartThreadFails ==
  /\ seg.pc = "mark" /\ seg.todo = {}
  /\ inFlight' = "none" /\ lastAttempt' = "none"
  /\ seg' = BackToScan(seg.scan)
  /\ UNCHANGED <<runState, registry, threads, uptime>>

\* One of at most three `docker restart' attempts succeeds ...
ThreadSucceeds ==
  /\ threads > 0
  /\ threads' = threads - 1 /\ inFlight' = "none"
  /\ UNCHANGED <<runState, registry, lastAttempt, seg, uptime>>

\* Defect: the thread that gives up leaves the restart in flight.
ThreadGivesUp_KeepsFlag ==
  /\ threads > 0
  /\ threads' = threads - 1 /\ lastAttempt' = "none"
  /\ UNCHANGED <<runState, registry, inFlight, seg, uptime>>

\* ... or all fail.
ThreadGivesUp ==
  /\ threads > 0
  /\ threads' = threads - 1 /\ inFlight' = "none" /\ lastAttempt' = "none"
  /\ UNCHANGED <<runState, registry, seg, uptime>>

-----------------------------------------------------------------------------
(* The run's other endpoints, and the demo's kill endpoint *)

\* Every other handler that creates or moves the run.
RunEndpoint ==
  /\ LoopIdle /\ RL!Next
  /\ UNCHANGED <<registry, restarting, seg, uptime>>

\* POST /resume when the run ends up RUNNING: the throttle is reset.
ResumeRun ==
  /\ LoopIdle
  /\ runState \in {"RUNNING", "RECOVERING", "COMMITTED", "CREATED", "CHECKPOINTING"}
  /\ runState' = "RUNNING" /\ lastAttempt' = "none"
  /\ UNCHANGED <<registry, inFlight, threads, seg, uptime>>

\* demo_kill_worker: the run is FAILED, what the index remembers as ACTIVE is
\* marked dead, and then every lease is dropped.
KillWorkers ==
  /\ LoopIdle /\ runState \in {"RUNNING", "CHECKPOINTING", "COMMITTED", "RECOVERING"}
  /\ runState' = "FAILED"
  /\ seg' = SegAt("kill", NoWorker, 0, {w \in Worker : index[w] = "ACTIVE"}, {})
  /\ UNCHANGED <<registry, restarting, uptime>>

KillMark(w) ==
  /\ seg.pc = "kill" /\ w \in seg.todo
  /\ remember(w, "DEAD") /\ mark_worker_dead(w, "DEAD")
  /\ seg' = [seg EXCEPT !.todo = @ \ {w}]
  /\ UNCHANGED <<runState, rank, members, nextRank, lease, restarting, uptime>>

KillLeases ==
  /\ seg.pc = "kill" /\ seg.todo = {}
  /\ lease' = [w \in Worker |-> "none"]
  /\ seg' = IdleSeg
  /\ UNCHANGED <<runState, kvStatus, rank, index, members, nextRank, restarting, uptime>>

-----------------------------------------------------------------------------
(* Time passes *)

LeaseExpires(w) ==
  /\ lease[w] = "fresh"
  /\ lease' = [lease EXCEPT ![w] = "stale"]
  /\ UNCHANGED <<runState, kvStatus, rank, index, members, nextRank, restarting, seg, uptime>>

AttemptAges ==
  /\ lastAttempt = "recent" /\ lastAttempt' = "old"
  /\ UNCHANGED <<runState, registry, inFlight, threads, seg, uptime>>

HostAges ==
  /\ uptime = "short" /\ uptime' = "long"
  /\ UNCHANGED <<runState, registry, restarting, seg>>

-----------------------------------------------------------------------------
(* The control plane dies and starts again *)

\* _rehydrate_workers' rank counter: one more than the largest stored rank.
IsRankCounter(n) ==
  /\ \A w \in Known : rank[w] < n
  /\ n = 0 \/ \E w \in Known : n = rank[w] + 1

\* Defect: rehydration forgets which workers belong to the run.
Restart_NoMembers ==
  /\ Crashes
  /\ index' = kvStatus /\ members' = {}
  /\ nextRank' \in {n \in 0..(MaxRank + 1) : IsRankCounter(n)}
  /\ lease' = [w \in Worker |-> IF w \in Active THEN "fresh" ELSE "none"]
  /\ inFlight' = "none" /\ lastAttempt' = "none" /\ threads' = 0
  /\ seg' = IdleSeg
  /\ UNCHANGED <<runState, kvStatus, rank, uptime>>

\* Defect: rehydration restores the index but no leases.
Restart_NoLeases ==
  /\ Crashes
  /\ index' = kvStatus /\ members' = Known
  /\ nextRank' \in {n \in 0..(MaxRank + 1) : IsRankCounter(n)}
  /\ lease' = [w \in Worker |-> "none"]
  /\ inFlight' = "none" /\ lastAttempt' = "none" /\ threads' = 0
  /\ seg' = IdleSeg
  /\ UNCHANGED <<runState, kvStatus, rank, uptime>>

Restart ==
  /\ Crashes
  /\ index' = kvStatus /\ members' = Known
  /\ nextRank' \in {n \in 0..(MaxRank + 1) : IsRankCounter(n)}
  /\ lease' = [w \in Worker |-> IF w \in Active THEN "fresh" ELSE "none"]
  /\ inFlight' = "none" /\ lastAttempt' = "none" /\ threads' = 0
  /\ seg' = IdleSeg
  /\ UNCHANGED <<runState, kvStatus, rank, uptime>>

Init ==
  /\ runState = RL!NoRun
  /\ kvStatus = [w \in Worker |-> "NONE"]
  /\ rank = [w \in Worker |-> 0]
  /\ index = [w \in Worker |-> "NONE"]
  /\ members = {}
  /\ nextRank = 0
  /\ lease = [w \in Worker |-> "none"]
  /\ inFlight = "none" /\ lastAttempt = "none" /\ threads = 0
  /\ seg = IdleSeg
  /\ uptime \in {"short", "long"}

\* A request arrives.
Request == \/ RegisterNextRank \/ (\E r \in Ranks : RegisterRank(r))
           \/ (\E w \in Worker : Deregister(w) \/ Heartbeat(w))
           \/ RunEndpoint \/ ResumeRun \/ KillWorkers

\* The running segment goes on.
LoopStep == \/ \E w \in Worker : \/ Supersede(w) \/ RegisterWorker(w) \/ DeclareDead(w)
                                 \/ MarkGroupDead(w) \/ KillMark(w)
            \/ EndScan \/ FailureCallback \/ AttemptRecovery \/ StartThread \/ KillLeases

\* The periodic tasks.
Periodic == BeginScan \/ Reconcile

Thread == ThreadSucceeds \/ ThreadGivesUp

Time == AttemptAges \/ HostAges \/ \E w \in Worker : LeaseExpires(w)

Fault == StartThreadFails \/ Restart

Next == Request \/ LoopStep \/ Periodic \/ Thread \/ Time \/ Fault

Spec == Init /\ [][Next]_vars

(***************************************************************************)
(* Fairness.  A segment runs on.  The two periodic tasks wake up again and *)
(* again and get the loop although requests compete for it (asyncio's      *)
(* queue is first-in first-out): strong fairness, because the loop is not  *)
(* always free.  Clocks advance.  Workers, clients, faults and the outcome *)
(* of a restart are not fair.                                              *)
(***************************************************************************)
Fairness ==
  /\ WF_vars(LoopStep)
  /\ SF_vars(BeginScan) /\ SF_vars(Reconcile)
  /\ WF_vars(AttemptAges) /\ WF_vars(HostAges)
FairSpec == Spec /\ Fairness

-----------------------------------------------------------------------------
(* Properties *)

\* At most one registration of a rank is stored ACTIVE, whatever workers
\* register again, are superseded, time out or leave, and wherever the control
\* plane dies (WorkerManager.register_worker, _rehydrate_workers).  The count
\* that reconciliation compares with num_workers depends on it.
OneActivePerRank == \A v, w \in Active : rank[v] = rank[w] => v = w

\* Every registration stored ACTIVE has a lease that the monitor checks and is
\* ACTIVE in the index: no worker counts as active that nobody would miss.  And
\* between segments only those are watched: none fails a second time.
ActiveIsWatched == /\ \A w \in Active : index[w] = "ACTIVE" /\ w \in Alive
                   /\ LoopIdle => Alive \subseteq Active

\* A registration that was retired never becomes ACTIVE again, although a late
\* heartbeat writes ACTIVE without looking at the record (Coordinator.heartbeat).
RetiredStaysRetired ==
  [][\A w \in Worker : w \in Known \ Active => kvStatus'[w] # "ACTIVE"]_vars

\* At most one `docker restart' of the group runs, although attempts last
\* longer than the throttle and the throttle is reset by a resume.
OneRestartAtATime == threads <= 1

\* _reconcile_worker_recovery: while a run is RECOVERING with fewer ACTIVE
\* workers than it needs, a restart of the group is started again.
RecoveryIsRetried == AutoRestart => (GroupIncomplete ~> (threads > 0 \/ ~GroupIncomplete))

\* A worker that falls silent is declared dead unless it is heard of again or
\* leaves (HeartbeatManager._monitor_loop).
SilenceIsNoticed == \A w \in Worker : lease[w] = "stale" ~> lease[w] # "stale"

(***************************************************************************)
(* The inductive invariant behind the safety properties.                   *)
(***************************************************************************)

\* What the index remembers is at most one failure callback ahead of the store.
IndexFollowsStore ==
  /\ \A w \in Worker : index[w] = "NONE" <=> kvStatus[w] = "NONE"
  /\ \A w \in Worker : index[w] = "ACTIVE" =>
       w \in Active \/ (seg.pc = "failed" /\ seg.w = w)
  /\ seg.pc = "failed" => seg.w \in Known \ Active

\* The monitor, the index and the members of the run cover the ACTIVE workers;
\* only the kill endpoint drops the leases after the records.
WatchInv == /\ ActiveIsWatched /\ Active \subseteq members
            /\ seg.pc # "kill" => Alive \subseteq Active

\* A rank is handed out once: the counter is beyond every stored rank, and a
\* registration in progress has retired its rank's workers or is about to.
RankInv ==
  /\ OneActivePerRank
  /\ \A w \in Known : rank[w] < nextRank
  /\ seg.pc = "supersede" =>
       /\ seg.rank < nextRank
       /\ {w \in Active : rank[w] = seg.rank} \subseteq seg.todo
       /\ seg.todo \subseteq Active
  /\ seg.pc = "kill" => Active \subseteq seg.todo /\ seg.todo \subseteq Active
  /\ seg.pc = "mark" => seg.todo \subseteq Known

\* The flag is up exactly while a restart is being prepared or runs.
FlagInv == /\ inFlight = "run" => (threads = 1 /\ seg.pc # "mark") \/ (threads = 0 /\ seg.pc = "mark")
           /\ inFlight = "none" => threads = 0 /\ seg.pc # "mark"

\* Only a FAILED run is about to be moved to RECOVERING.
RecoverInv == seg.pc = "recover" => runState = "FAILED"

WorkerInv == IndexFollowsStore /\ WatchInv /\ RankInv /\ FlagInv /\ RecoverInv

(* What the documents and tests say of the program, and the code does not keep *)

\* README.md, Failure Recovery: "Control plane marks the run as FAILED" once a
\* worker's heartbeats have stopped.
FailureIsReported ==
  \A w \in Worker : (seg.pc = "failed" /\ seg.w = w /\ runState = "RUNNING")
                       ~> runState # "RUNNING"

\* test_integration.py: "test_deregistered_worker_heartbeat_is_a_tombstone_conflict";
\* the heartbeat endpoint answers 409, not 404, while the index keeps the status.
TombstonesStay ==
  [][\A w \in Worker : index[w] \in {"SUPERSEDED", "DEREGISTERED"}
                         => index'[w] \in {"SUPERSEDED", "DEREGISTERED"}]_vars
=============================================================================
