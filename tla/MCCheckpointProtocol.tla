----------------------- MODULE MCCheckpointProtocol -----------------------
(***************************************************************************)
(* Small instances of CheckpointProtocol for TLC.  Two budgets bound the   *)
(* behaviours: the requests that reach the data plane and the faults.      *)
(* Everything else is bounded by the constant sets.                        *)
(***************************************************************************)
EXTENDS CheckpointProtocol, TLC

CONSTANTS MaxCalls,   \* uploads and commits started in a behaviour
          MaxFaults   \* failed calls, lost answers and restarts in a behaviour

VARIABLES calls, faults

mcvars == <<vars, calls, faults>>

MCInit == Init /\ calls = 0 /\ faults = 0

MCNext ==
  \/ Endpoint /\ UNCHANGED <<calls, faults>>
  \/ ClientCall /\ calls < MaxCalls /\ calls' = calls + 1 /\ UNCHANGED faults
  \/ Progress /\ UNCHANGED <<calls, faults>>
  \/ Fault /\ faults < MaxFaults /\ faults' = faults + 1 /\ UNCHANGED calls

MCSpec == MCInit /\ [][MCNext]_mcvars
MCFairSpec == MCSpec /\ Fairness

Interchangeable == Permutations(Req) \cup Permutations(Shard)
===========================================================================
