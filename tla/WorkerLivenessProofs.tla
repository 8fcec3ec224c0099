------------------------ MODULE WorkerLivenessProofs ------------------------
(***************************************************************************)
(* Proofs about WorkerLiveness for every set of worker ids, every number   *)
(* of ranks and any number of restarts of the control plane.               *)
(***************************************************************************)
EXTENDS WorkerLiveness, TLAPS

\* Nothing is registered, watched or restarting in a fresh deployment.
LEMMA InitInv == Init => TypeOK /\ WorkerInv
  <1> SUFFICES ASSUME Init PROVE TypeOK /\ WorkerInv
    OBVIOUS
  <1> USE DEF Init, SegAt, IdleSeg
  <1>1. TypeOK
    BY WorkerAssumption, RankAssumption
    DEF TypeOK, Ranks, Statuses, Leases, SegPCs, RL!NoRun
  <1>2. WorkerInv
    BY DEF WorkerInv, IndexFollowsStore, WatchInv, ActiveIsWatched, RankInv,
           OneActivePerRank, FlagInv, RecoverInv, Active, Alive, Known
  <1> QED
    BY <1>1, <1>2

\* Every request, task, thread, clock and restart keeps the types.
LEMMA TypeNext == TypeOK /\ [Next]_vars => TypeOK'
  <1> SUFFICES ASSUME TypeOK, [Next]_vars PROVE TypeOK'
    OBVIOUS
  <1> USE WorkerAssumption, RankAssumption
      DEF TypeOK, SegAt, IdleSeg, BackToScan, remember, mark_worker_dead, unregister,
          Ranks, Statuses, Leases, SegPCs, registry, restarting, Known, Active, Alive
  <1>1. ASSUME NEW r \in Ranks, RegisterRank(r) PROVE TypeOK'
    BY <1>1 DEF RegisterRank
  <1>2. CASE RegisterNextRank
    BY <1>2 DEF RegisterNextRank
  <1>3. ASSUME NEW w \in Worker, Deregister(w) \/ Heartbeat(w) PROVE TypeOK'
    BY <1>3 DEF Deregister, Heartbeat
  <1>4. CASE RunEndpoint
    BY <1>4 DEF RunEndpoint, RL!Next, RL!Create, RL!Transition, RL!RunStates, RL!NoRun
  <1>5. CASE ResumeRun \/ KillWorkers
    BY <1>5 DEF ResumeRun, KillWorkers, RL!RunStates
  <1>6. ASSUME NEW w \in Worker, Supersede(w) \/ RegisterWorker(w) PROVE TypeOK'
    BY <1>6 DEF Supersede, RegisterWorker
  <1>7. ASSUME NEW w \in Worker, DeclareDead(w) \/ KillMark(w) PROVE TypeOK'
    BY <1>7 DEF DeclareDead, KillMark
  <1>8. ASSUME NEW w \in Worker, MarkGroupDead(w) PROVE TypeOK'
    BY <1>8 DEF MarkGroupDead
  <1>9. CASE EndScan \/ StartThread \/ KillLeases
    BY <1>9 DEF EndScan, StartThread, KillLeases
  <1>10. CASE FailureCallback
    <2>1. runState' \in {runState, "FAILED"}
      BY <1>10 DEF FailureCallback
    <2>2. seg' \in {SegAt("recover", NoWorker, 0, {}, seg.scan), BackToScan(seg.scan)}
      BY <1>10, Zenon DEF FailureCallback
    <2>3. index' = [index EXCEPT ![seg.w] = "DEAD"]
          /\ UNCHANGED <<kvStatus, rank, members, nextRank, lease, restarting, uptime>>
      BY <1>10 DEF FailureCallback
    <2>4. index' \in [Worker -> Statuses] /\ runState' \in RL!RunStates \cup {RL!NoRun}
      BY <2>1, <2>3 DEF RL!RunStates
    <2>5. seg' \in [pc : SegPCs, w : Worker \cup {NoWorker}, rank : Ranks,
                    todo : SUBSET Worker, scan : SUBSET Worker]
      BY <2>2
    <2> QED
      BY <2>3, <2>4, <2>5
  <1>11. CASE AttemptRecovery
    BY <1>11 DEF AttemptRecovery, BeginRestart, RL!RunStates
  <1>17. CASE Reconcile
    BY <1>17 DEF Reconcile, BeginRestart
  <1>12. CASE BeginScan
    BY <1>12 DEF BeginScan
  <1>18. CASE ThreadSucceeds
    BY <1>18 DEF ThreadSucceeds
  <1>19. CASE ThreadGivesUp
    BY <1>19 DEF ThreadGivesUp
  <1>13. CASE AttemptAges \/ HostAges
    BY <1>13 DEF AttemptAges, HostAges
  <1>14. ASSUME NEW w \in Worker, LeaseExpires(w) PROVE TypeOK'
    BY <1>14 DEF LeaseExpires
  <1>15. CASE StartThreadFails
    BY <1>15 DEF StartThreadFails
  <1>20. CASE Restart
    BY <1>20 DEF Restart
  <1>16. CASE UNCHANGED vars
    BY <1>16 DEF vars
  <1> QED
    BY <1>1, <1>2, <1>3, <1>4, <1>5, <1>6, <1>7, <1>8, <1>9, <1>10, <1>11, <1>12, <1>13,
       <1>14, <1>15, <1>16, <1>17, <1>18, <1>19, <1>20
    DEF Next, Request, LoopStep, Periodic, Thread, Time, Fault

\* Every reachable state of the worker registry, the leases and the restart
\* scheduler is well typed.
THEOREM WorkerTypes == Spec => []TypeOK
  BY InitInv, TypeNext, PTL DEF Spec

\* What the index remembers is ACTIVE only if the store says so too, but for the worker
\* whose failure callback is about to run (_check_workers, _on_worker_failure).
LEMMA IndexNext ==
  TypeOK /\ TypeOK' /\ IndexFollowsStore /\ WatchInv /\ RankInv /\ [Next]_vars => IndexFollowsStore'
  <1> SUFFICES ASSUME TypeOK, TypeOK', IndexFollowsStore, WatchInv, RankInv, [Next]_vars PROVE IndexFollowsStore'
    OBVIOUS
  <1> USE RankAssumption, WorkerAssumption
      DEF TypeOK, SegAt, IdleSeg, LoopIdle, BackToScan, remember, mark_worker_dead, unregister,
          Ranks, registry, restarting, Known, Active, Alive,
          IndexFollowsStore, WatchInv, RankInv
  <1>1. ASSUME NEW r \in Ranks, RegisterRank(r) PROVE IndexFollowsStore'
    BY <1>1 DEF RegisterRank
  <1>2. CASE RegisterNextRank
    BY <1>2 DEF RegisterNextRank
  <1>3. ASSUME NEW w \in Worker, Deregister(w) PROVE IndexFollowsStore'
    BY <1>3 DEF Deregister
  <1>4. ASSUME NEW w \in Worker, Heartbeat(w) PROVE IndexFollowsStore'
    BY <1>4 DEF Heartbeat
  <1>5. CASE KillWorkers
    BY <1>5 DEF KillWorkers
  <1>6. ASSUME NEW w \in Worker, Supersede(w) PROVE IndexFollowsStore'
    BY <1>6 DEF Supersede
  <1>7. ASSUME NEW w \in Worker, RegisterWorker(w) PROVE IndexFollowsStore'
    BY <1>7 DEF RegisterWorker
  <1>8. ASSUME NEW w \in Worker, DeclareDead(w) PROVE IndexFollowsStore'
    BY <1>8 DEF DeclareDead
  <1>9. ASSUME NEW w \in Worker, MarkGroupDead(w) PROVE IndexFollowsStore'
    BY <1>9 DEF MarkGroupDead
  <1>10. ASSUME NEW w \in Worker, KillMark(w) PROVE IndexFollowsStore'
    BY <1>10 DEF KillMark
  <1>11. CASE KillLeases
    BY <1>11 DEF KillLeases
  <1>12. CASE FailureCallback
    BY <1>12 DEF FailureCallback
  <1>13. CASE AttemptRecovery
    BY <1>13 DEF AttemptRecovery, BeginRestart
  <1>14. ASSUME NEW w \in Worker, LeaseExpires(w) PROVE IndexFollowsStore'
    BY <1>14 DEF LeaseExpires
  <1>15. CASE Restart
    BY <1>15 DEF Restart
  <1>16. CASE BeginScan \/ EndScan \/ Reconcile \/ StartThread \/ StartThreadFails
    BY <1>16 DEF BeginScan, EndScan, Reconcile, BeginRestart, StartThread, StartThreadFails
  <1>17. CASE RunEndpoint \/ ResumeRun \/ ThreadSucceeds \/ ThreadGivesUp
    BY <1>17 DEF RunEndpoint, ResumeRun, ThreadSucceeds, ThreadGivesUp
  <1>18. CASE AttemptAges \/ HostAges \/ UNCHANGED vars
    BY <1>18 DEF AttemptAges, HostAges, vars
  <1> QED
    BY <1>1, <1>2, <1>3, <1>4, <1>5, <1>6, <1>7, <1>8, <1>9, <1>10, <1>11, <1>12, <1>13,
       <1>14, <1>15, <1>16, <1>17, <1>18
    DEF Next, Request, LoopStep, Periodic, Thread, Time, Fault

\* Registration, rehydration and heartbeats give every ACTIVE worker a lease, and
\* whatever retires a worker takes the lease away or declares it dead.
LEMMA WatchNext ==
  TypeOK /\ TypeOK' /\ IndexFollowsStore /\ WatchInv /\ RankInv /\ [Next]_vars => WatchInv'
  <1> SUFFICES ASSUME TypeOK, TypeOK', IndexFollowsStore, WatchInv, RankInv, [Next]_vars PROVE WatchInv'
    OBVIOUS
  <1> USE RankAssumption, WorkerAssumption
      DEF TypeOK, SegAt, IdleSeg, LoopIdle, BackToScan, remember, mark_worker_dead, unregister,
          Ranks, registry, restarting, Known, Active, Alive,
          IndexFollowsStore, WatchInv, ActiveIsWatched, RankInv
  <1>1. ASSUME NEW r \in Ranks, RegisterRank(r) PROVE WatchInv'
    BY <1>1 DEF RegisterRank
  <1>2. CASE RegisterNextRank
    BY <1>2 DEF RegisterNextRank
  <1>3. ASSUME NEW w \in Worker, Deregister(w) PROVE WatchInv'
    BY <1>3 DEF Deregister
  <1>4. ASSUME NEW w \in Worker, Heartbeat(w) PROVE WatchInv'
    BY <1>4 DEF Heartbeat
  <1>5. CASE KillWorkers
    BY <1>5 DEF KillWorkers
  <1>6. ASSUME NEW w \in Worker, Supersede(w) PROVE WatchInv'
    BY <1>6 DEF Supersede
  <1>7. ASSUME NEW w \in Worker, RegisterWorker(w) PROVE WatchInv'
    BY <1>7 DEF RegisterWorker
  <1>8. ASSUME NEW w \in Worker, DeclareDead(w) PROVE WatchInv'
    BY <1>8 DEF DeclareDead
  <1>9. ASSUME NEW w \in Worker, MarkGroupDead(w) PROVE WatchInv'
    BY <1>9 DEF MarkGroupDead
  <1>10. ASSUME NEW w \in Worker, KillMark(w) PROVE WatchInv'
    BY <1>10 DEF KillMark
  <1>11. CASE KillLeases
    BY <1>11 DEF KillLeases
  <1>12. CASE FailureCallback
    BY <1>12 DEF FailureCallback
  <1>13. CASE AttemptRecovery
    BY <1>13 DEF AttemptRecovery, BeginRestart
  <1>14. ASSUME NEW w \in Worker, LeaseExpires(w) PROVE WatchInv'
    BY <1>14 DEF LeaseExpires
  <1>15. CASE Restart
    BY <1>15 DEF Restart
  <1>16. CASE BeginScan \/ EndScan \/ Reconcile \/ StartThread \/ StartThreadFails
    BY <1>16 DEF BeginScan, EndScan, Reconcile, BeginRestart, StartThread, StartThreadFails
  <1>17. CASE RunEndpoint \/ ResumeRun \/ ThreadSucceeds \/ ThreadGivesUp
    BY <1>17 DEF RunEndpoint, ResumeRun, ThreadSucceeds, ThreadGivesUp
  <1>18. CASE AttemptAges \/ HostAges \/ UNCHANGED vars
    BY <1>18 DEF AttemptAges, HostAges, vars
  <1> QED
    BY <1>1, <1>2, <1>3, <1>4, <1>5, <1>6, <1>7, <1>8, <1>9, <1>10, <1>11, <1>12, <1>13,
       <1>14, <1>15, <1>16, <1>17, <1>18
    DEF Next, Request, LoopStep, Periodic, Thread, Time, Fault

\* A registration retires every ACTIVE worker of its rank, because the index knows
\* them all, or takes a rank beyond the counter.
LEMMA RankNext ==
  TypeOK /\ TypeOK' /\ IndexFollowsStore /\ WatchInv /\ RankInv /\ [Next]_vars => RankInv'
  <1> SUFFICES ASSUME TypeOK, TypeOK', IndexFollowsStore, WatchInv, RankInv, [Next]_vars PROVE RankInv'
    OBVIOUS
  <1> USE RankAssumption, WorkerAssumption
      DEF TypeOK, SegAt, IdleSeg, LoopIdle, BackToScan, remember, mark_worker_dead, unregister,
          Ranks, registry, restarting, Known, Active, Alive,
          IndexFollowsStore, WatchInv, ActiveIsWatched, RankInv, OneActivePerRank
  <1>1. ASSUME NEW r \in Ranks, RegisterRank(r) PROVE RankInv'
    BY <1>1 DEF RegisterRank
  <1>2. CASE RegisterNextRank
    BY <1>2 DEF RegisterNextRank
  <1>3. ASSUME NEW w \in Worker, Deregister(w) PROVE RankInv'
    BY <1>3 DEF Deregister
  <1>4. ASSUME NEW w \in Worker, Heartbeat(w) PROVE RankInv'
    BY <1>4 DEF Heartbeat
  <1>5. CASE KillWorkers
    BY <1>5 DEF KillWorkers
  <1>6. ASSUME NEW w \in Worker, Supersede(w) PROVE RankInv'
    BY <1>6 DEF Supersede
  <1>7. ASSUME NEW w \in Worker, RegisterWorker(w) PROVE RankInv'
    BY <1>7 DEF RegisterWorker
  <1>8. ASSUME NEW w \in Worker, DeclareDead(w) PROVE RankInv'
    BY <1>8 DEF DeclareDead
  <1>9. ASSUME NEW w \in Worker, MarkGroupDead(w) PROVE RankInv'
    BY <1>9 DEF MarkGroupDead
  <1>10. ASSUME NEW w \in Worker, KillMark(w) PROVE RankInv'
    BY <1>10 DEF KillMark
  <1>11. CASE KillLeases
    BY <1>11 DEF KillLeases
  <1>12. CASE FailureCallback
    BY <1>12 DEF FailureCallback
  <1>13. CASE AttemptRecovery
    BY <1>13 DEF AttemptRecovery, BeginRestart
  <1>14. ASSUME NEW w \in Worker, LeaseExpires(w) PROVE RankInv'
    BY <1>14 DEF LeaseExpires
  <1>15. CASE Restart
    BY <1>15 DEF Restart, IsRankCounter
  <1>16. CASE BeginScan \/ EndScan \/ Reconcile \/ StartThread \/ StartThreadFails
    BY <1>16 DEF BeginScan, EndScan, Reconcile, BeginRestart, StartThread, StartThreadFails
  <1>17. CASE RunEndpoint \/ ResumeRun \/ ThreadSucceeds \/ ThreadGivesUp
    BY <1>17 DEF RunEndpoint, ResumeRun, ThreadSucceeds, ThreadGivesUp
  <1>18. CASE AttemptAges \/ HostAges \/ UNCHANGED vars
    BY <1>18 DEF AttemptAges, HostAges, vars
  <1> QED
    BY <1>1, <1>2, <1>3, <1>4, <1>5, <1>6, <1>7, <1>8, <1>9, <1>10, <1>11, <1>12, <1>13,
       <1>14, <1>15, <1>16, <1>17, <1>18
    DEF Next, Request, LoopStep, Periodic, Thread, Time, Fault

\* The in-flight flag is raised before the group is marked dead and lowered by the
\* thread, by a thread that does not start, or by the death of the process.
LEMMA FlagNext ==
  TypeOK /\ TypeOK' /\ FlagInv /\ [Next]_vars => FlagInv'
  <1> SUFFICES ASSUME TypeOK, TypeOK', FlagInv, [Next]_vars PROVE FlagInv'
    OBVIOUS
  <1> USE RankAssumption, WorkerAssumption
      DEF TypeOK, SegAt, IdleSeg, LoopIdle, BackToScan, remember, mark_worker_dead, unregister,
          Ranks, registry, restarting, Known, Active, Alive,
          FlagInv, Refused
  <1>1. CASE \/ RegisterNextRank \/ (\E r \in Ranks : RegisterRank(r))
             \/ (\E w \in Worker : Deregister(w) \/ Heartbeat(w))
    BY <1>1 DEF RegisterNextRank, RegisterRank, Deregister, Heartbeat
  <1>2. CASE RunEndpoint \/ ResumeRun \/ KillWorkers
    BY <1>2 DEF RunEndpoint, ResumeRun, KillWorkers
  <1>3. CASE \E w \in Worker : Supersede(w) \/ RegisterWorker(w) \/ MarkGroupDead(w) \/ KillMark(w)
    BY <1>3 DEF Supersede, RegisterWorker, MarkGroupDead, KillMark
  <1>4. CASE \E w \in Worker : DeclareDead(w) \/ LeaseExpires(w)
    BY <1>4 DEF DeclareDead, LeaseExpires
  <1>5. CASE KillLeases \/ BeginScan \/ EndScan \/ FailureCallback
    BY <1>5 DEF KillLeases, BeginScan, EndScan, FailureCallback
  <1>6. CASE AttemptRecovery
    BY <1>6 DEF AttemptRecovery, BeginRestart
  <1>7. CASE Reconcile
    BY <1>7 DEF Reconcile, BeginRestart
  <1>8. CASE StartThread \/ StartThreadFails
    BY <1>8 DEF StartThread, StartThreadFails
  <1>9. CASE ThreadSucceeds \/ ThreadGivesUp
    BY <1>9 DEF ThreadSucceeds, ThreadGivesUp
  <1>10. CASE Restart
    BY <1>10 DEF Restart
  <1>11. CASE AttemptAges \/ HostAges \/ UNCHANGED vars
    BY <1>11 DEF AttemptAges, HostAges, vars
  <1> QED
    BY <1>1, <1>2, <1>3, <1>4, <1>5, <1>6, <1>7, <1>8, <1>9, <1>10, <1>11
    DEF Next, Request, LoopStep, Periodic, Thread, Time, Fault

\* Only _handle_failure leads to _attempt_recovery, and it leaves the run FAILED.
LEMMA RecoverNext ==
  TypeOK /\ TypeOK' /\ RecoverInv /\ [Next]_vars => RecoverInv'
  <1> SUFFICES ASSUME TypeOK, TypeOK', RecoverInv, [Next]_vars PROVE RecoverInv'
    OBVIOUS
  <1> USE RankAssumption, WorkerAssumption
      DEF TypeOK, SegAt, IdleSeg, LoopIdle, BackToScan, remember, mark_worker_dead, unregister,
          Ranks, registry, restarting, Known, Active, Alive,
          RecoverInv
  <1>1. CASE \/ RegisterNextRank \/ (\E r \in Ranks : RegisterRank(r))
             \/ (\E w \in Worker : Deregister(w) \/ Heartbeat(w))
    BY <1>1 DEF RegisterNextRank, RegisterRank, Deregister, Heartbeat
  <1>2. CASE RunEndpoint \/ ResumeRun \/ KillWorkers
    BY <1>2 DEF RunEndpoint, ResumeRun, KillWorkers
  <1>3. CASE \E w \in Worker : Supersede(w) \/ RegisterWorker(w) \/ MarkGroupDead(w) \/ KillMark(w)
    BY <1>3 DEF Supersede, RegisterWorker, MarkGroupDead, KillMark
  <1>4. CASE \E w \in Worker : DeclareDead(w) \/ LeaseExpires(w)
    BY <1>4 DEF DeclareDead, LeaseExpires
  <1>5. CASE KillLeases \/ BeginScan \/ EndScan \/ FailureCallback
    BY <1>5 DEF KillLeases, BeginScan, EndScan, FailureCallback
  <1>6. CASE AttemptRecovery
    BY <1>6 DEF AttemptRecovery, BeginRestart
  <1>7. CASE Reconcile
    BY <1>7 DEF Reconcile, BeginRestart
  <1>8. CASE StartThread \/ StartThreadFails
    BY <1>8 DEF StartThread, StartThreadFails
  <1>9. CASE ThreadSucceeds \/ ThreadGivesUp
    BY <1>9 DEF ThreadSucceeds, ThreadGivesUp
  <1>10. CASE Restart
    BY <1>10 DEF Restart
  <1>11. CASE AttemptAges \/ HostAges \/ UNCHANGED vars
    BY <1>11 DEF AttemptAges, HostAges, vars
  <1> QED
    BY <1>1, <1>2, <1>3, <1>4, <1>5, <1>6, <1>7, <1>8, <1>9, <1>10, <1>11
    DEF Next, Request, LoopStep, Periodic, Thread, Time, Fault

\* The inductive invariant of the worker registry: agreement of store, index and
\* leases, exclusive ranks, and the restart flag.
THEOREM WorkerInductive == Spec => []WorkerInv
  <1>1. TypeOK /\ TypeOK' /\ WorkerInv /\ [Next]_vars => WorkerInv'
    BY IndexNext, WatchNext, RankNext, FlagNext, RecoverNext DEF WorkerInv
  <1> QED
    BY <1>1, InitInv, WorkerTypes, PTL DEF Spec

\* No two ACTIVE registrations share a rank, however workers register, time out and
\* leave and wherever the control plane dies.
THEOREM RanksAreExclusive == Spec => []OneActivePerRank
  <1>1. WorkerInv => OneActivePerRank
    BY DEF WorkerInv, RankInv
  <1> QED
    BY <1>1, WorkerInductive, PTL

\* The monitor watches every registration stored ACTIVE and, between segments, no
\* other.
THEOREM ActiveAreWatched == Spec => []ActiveIsWatched
  <1>1. WorkerInv => ActiveIsWatched
    BY DEF WorkerInv, WatchInv
  <1> QED
    BY <1>1, WorkerInductive, PTL

\* The thread that runs docker restart is never started twice.
THEOREM SingleRestart == Spec => []OneRestartAtATime
  <1>1. TypeOK /\ WorkerInv => OneRestartAtATime
    BY DEF TypeOK, WorkerInv, FlagInv, OneRestartAtATime
  <1> QED
    BY <1>1, WorkerTypes, WorkerInductive, PTL

\* One step does not make a retired registration ACTIVE: a heartbeat is accepted
\* only from a worker whose record is still ACTIVE, and registrations take new ids.
LEMMA RetiredStep ==
  ASSUME TypeOK, WorkerInv, [Next]_vars, NEW v \in Worker, v \in Known \ Active
  PROVE  kvStatus'[v] # "ACTIVE"
  <1> USE DEF TypeOK, Known, Active, registry, mark_worker_dead
  <1>1. ASSUME NEW w \in Worker, Heartbeat(w) PROVE kvStatus'[v] # "ACTIVE"
    BY <1>1 DEF Heartbeat, WorkerInv, IndexFollowsStore, LoopIdle
  <1>2. ASSUME NEW w \in Worker, RegisterWorker(w) PROVE kvStatus'[v] # "ACTIVE"
    BY <1>2 DEF RegisterWorker
  <1>3. ASSUME NEW w \in Worker,
               Deregister(w) \/ Supersede(w) \/ DeclareDead(w) \/ MarkGroupDead(w) \/ KillMark(w)
        PROVE  kvStatus'[v] # "ACTIVE"
    BY <1>3 DEF Deregister, Supersede, DeclareDead, MarkGroupDead, KillMark
  <1>4. CASE \/ RegisterNextRank \/ (\E r \in Ranks : RegisterRank(r))
             \/ RunEndpoint \/ ResumeRun \/ KillWorkers
    BY <1>4 DEF RegisterNextRank, RegisterRank, RunEndpoint, ResumeRun, KillWorkers
  <1>5. CASE EndScan \/ FailureCallback \/ AttemptRecovery \/ StartThread \/ KillLeases
    BY <1>5 DEF EndScan, FailureCallback, AttemptRecovery, StartThread, KillLeases
  <1>6. CASE Periodic \/ Thread \/ Time \/ Fault
    BY <1>6 DEF Periodic, Thread, Time, Fault, BeginScan, Reconcile, ThreadSucceeds, ThreadGivesUp,
                AttemptAges, HostAges, LeaseExpires, StartThreadFails, Restart
  <1>7. CASE UNCHANGED vars
    BY <1>7 DEF vars
  <1> QED
    BY <1>1, <1>2, <1>3, <1>4, <1>5, <1>6, <1>7 DEF Next, Request, LoopStep

\* A registration that was superseded, deregistered or declared dead is never
\* stored ACTIVE again.
THEOREM RetiredForGood == Spec => RetiredStaysRetired
  <1>1. TypeOK /\ WorkerInv /\ [Next]_vars
        => [\A w \in Worker : w \in Known \ Active => kvStatus'[w] # "ACTIVE"]_vars
    BY RetiredStep
  <1> QED
    BY <1>1, WorkerTypes, WorkerInductive, PTL DEF Spec, RetiredStaysRetired
=============================================================================
