------------------------- MODULE MCWorkerLiveness -------------------------
(***************************************************************************)
(* Small instances of WorkerLiveness for TLC.  The worker ids bound the    *)
(* registrations; MaxFaults bounds restarts of the control plane and       *)
(* threads that cannot be started.                                         *)
(***************************************************************************)
EXTENDS WorkerLiveness, TLC

CONSTANT MaxFaults

VARIABLE faults

mcvars == <<vars, faults>>

MCInit == Init /\ faults = 0

MCNext == \/ (Request \/ LoopStep \/ Periodic \/ Thread \/ Time) /\ UNCHANGED faults
          \/ Fault /\ faults < MaxFaults /\ faults' = faults + 1

MCSpec == MCInit /\ [][MCNext]_mcvars
MCFairSpec == MCSpec /\ Fairness

Interchangeable == Permutations(Worker)
===========================================================================
