---------------------------- MODULE RunLifecycle ----------------------------
(***************************************************************************)
(* The lifecycle a training run is promised to follow: the abstract        *)
(* specification of controlplane/state_machine.py.  The only state is the  *)
(* run's state as a client reads it; the only steps are the creation of    *)
(* the run and the transitions listed in VALID_TRANSITIONS.  Nothing is    *)
(* said about where the state is stored, who asks for a transition, or     *)
(* what happens when the control plane restarts: that is the business of   *)
(* CheckpointProtocol, which is shown to implement this module.            *)
(***************************************************************************)

VARIABLE runState

\* models.RunState.
RunStates == {"CREATED", "RUNNING", "CHECKPOINTING", "COMMITTED",
              "FAILED", "RECOVERING", "CANCELLED", "COMPLETED"}

\* The run has not been created yet: there is no record to read.
NoRun == "NONE"

\* state_machine.VALID_TRANSITIONS: from each state, the states that may follow.
VALID_TRANSITIONS ==
  [s \in RunStates |->
     CASE s = "CREATED"       -> {"RUNNING", "CANCELLED"}
       [] s = "RUNNING"       -> {"CHECKPOINTING", "FAILED", "CANCELLED", "COMPLETED"}
       [] s = "CHECKPOINTING" -> {"COMMITTED", "FAILED", "RUNNING"}
       [] s = "COMMITTED"     -> {"RUNNING", "COMPLETED", "FAILED"}
       [] s = "FAILED"        -> {"RECOVERING", "CANCELLED"}
       [] s = "RECOVERING"    -> {"RUNNING", "FAILED", "CANCELLED"}
       [] s = "CANCELLED"     -> {}
       [] s = "COMPLETED"     -> {}]

\* RunStateMachine.can_transition.
can_transition(from, target) == target \in VALID_TRANSITIONS[from]

Init == runState = NoRun

Create == runState = NoRun /\ runState' = "CREATED"

\* RunStateMachine.transition: any listed transition, none other.
Transition == /\ runState \in RunStates
              /\ \E target \in RunStates : /\ can_transition(runState, target)
                                           /\ runState' = target

Next == Create \/ Transition

Spec == Init /\ [][Next]_runState
=============================================================================
