------------------------ MODULE CheckpointProtocol ------------------------
(***************************************************************************)
(* How one run's checkpoints are created, uploaded, committed, aborted and *)
(* recovered: the control plane's REST handlers and its Coordinator        *)
(* (Python, one asyncio loop), the RecoveryManager's failure callback, the *)
(* Rust data plane that writes shards, manifests and deletes them, and the *)
(* object store.                                                           *)
(*                                                                         *)
(* What survives a restart of the control plane: the key-value store       *)
(* (runState, lastCkpt, ckptState, ckptStep) and the object store.  What   *)
(* is lost: the per-run state machine (Coordinator._fsms), the shards      *)
(* tracked for the next commit (_CHECKPOINT_SHARDS), the recorded recovery *)
(* checkpoint and every handler in flight.                                 *)
(*                                                                         *)
(* Granularity.  A handler runs alone on the loop between two awaits, but  *)
(* it makes several separate writes to the store, and the process may die  *)
(* (or a write may fail) between any two of them.  `loop' is therefore the *)
(* rest of the segment now running; while it is not idle no other handler  *)
(* runs.  A handler awaiting the data plane is an entry of `req'; its call *)
(* is an element of `rpcs', which takes effect on its own schedule and may *)
(* outlive the handler that sent it.                                       *)
(*                                                                         *)
(* A definition X_Something marked "Defect" is a wrong version of X kept   *)
(* beside it: with it in X's place TLC must refute the property named in   *)
(* PROJECT.json.                                                           *)
(***************************************************************************)
EXTENDS Naturals, FiniteSets

CONSTANTS
  Ckpt,       \* checkpoint ids, a set of numbers; their order is the key order of the store
  Shard,      \* the content-addressed shard objects a checkpoint may hold
  Req,        \* the HTTP requests that can be in flight at once
  NoReq,      \* the owner of a call whose handler is gone
  MaxStep,    \* training steps are 0..MaxStep
  AutoRecover,\* a worker-group supervisor is configured (auto_recover, restart_worker_group)
  DPFaults,   \* data-plane calls may fail and their answers may be lost
  KVFaults,   \* a write to the key-value store may raise, applied or not
  Crashes     \* the control plane may restart

ASSUME CkptAssumption == Ckpt \subseteq Nat \ {0}
ASSUME ReqAssumption == NoReq \notin Req
ASSUME StepAssumption == MaxStep \in Nat
ASSUME SwitchAssumption == /\ AutoRecover \in BOOLEAN
                           /\ DPFaults \in BOOLEAN
                           /\ KVFaults \in BOOLEAN
                           /\ Crashes \in BOOLEAN

VARIABLES
  \* key-value store
  runState,     \* RunStatus.state
  lastCkpt,     \* RunStatus.last_checkpoint_id
  ckptState,    \* CheckpointInfo.state of each checkpoint id, "NONE" if there is no record
  ckptStep,     \* CheckpointInfo.step
  \* control-plane memory
  fsm,          \* state of Coordinator._fsms[run], or "ABSENT"
  tracked,      \* _CHECKPOINT_SHARDS
  recoveryCkpt, \* RecoveryManager._recovery_checkpoints[run]
  loop,         \* the handler segment that is running
  req,          \* handlers awaiting the data plane
  \* data plane and object store
  rpcs,         \* data-plane calls not finished yet
  objects,      \* shard objects stored under each checkpoint's prefix
  manifested,   \* the checkpoints that have a _manifest.json
  manifest,     \* the objects that manifest names
  \* history
  everFailed    \* checkpoints whose record was ever marked FAILED

kv == <<runState, lastCkpt, ckptState, ckptStep>>
records == <<ckptState, ckptStep, everFailed>>
memory == <<fsm, tracked, recoveryCkpt, loop, req>>
storage == <<objects, manifested, manifest>>
vars == <<kv, memory, rpcs, storage, everFailed>>

RL == INSTANCE RunLifecycle WITH runState <- runState

NoCkpt == 0

\* CheckpointInfo.state
CkptStates == {"NONE", "PENDING", "IN_PROGRESS", "COMMITTED", "FAILED"}
LoopPCs == {"idle", "create_checkpoint", "set_last_checkpoint", "commit_run",
            "commit_resume", "abort_run", "abort_pending", "recover"}
ReqPCs == {"idle", "write", "commit", "abort"}
Replies == {"none", "ok", "err"}
RpcKinds == {"write", "write_fin", "commit", "commit_put", "commit_fin",
             "abort", "abort_delete"}

TypeOK ==
  /\ runState \in RL!RunStates \cup {RL!NoRun}
  /\ lastCkpt \in Ckpt \cup {NoCkpt}
  /\ ckptState \in [Ckpt -> CkptStates]
  /\ ckptStep \in [Ckpt -> 0..MaxStep]
  /\ fsm \in RL!RunStates \cup {"ABSENT"}
  /\ tracked \in [Ckpt -> SUBSET Shard]
  /\ recoveryCkpt \in Ckpt \cup {NoCkpt}
  /\ loop \in [pc : LoopPCs, req : Req \cup {NoReq}, c : Ckpt \cup {NoCkpt},
               todo : SUBSET Ckpt]
  /\ req \in [Req -> [pc : ReqPCs, c : Ckpt \cup {NoCkpt}, objs : SUBSET Shard,
                      reply : Replies]]
  /\ rpcs \subseteq [kind : RpcKinds, req : Req \cup {NoReq}, c : Ckpt,
                     objs : SUBSET Shard]
  /\ objects \in [Ckpt -> SUBSET Shard]
  /\ manifested \subseteq Ckpt
  /\ manifest \in [Ckpt -> SUBSET Shard]
  /\ everFailed \subseteq Ckpt

-----------------------------------------------------------------------------
(* Helpers *)

LoopAt(pc, r, c, todo) == [pc |-> pc, req |-> r, c |-> c, todo |-> todo]
IdleLoop == LoopAt("idle", NoReq, NoCkpt, {})
LoopIdle == loop.pc = "idle"

IdleReq == [pc |-> "idle", c |-> NoCkpt, objs |-> {}, reply |-> "none"]
Awaiting(pc, c, objs) == [pc |-> pc, c |-> c, objs |-> objs, reply |-> "none"]
Call(kind, r, c, objs) == [kind |-> kind, req |-> r, c |-> c, objs |-> objs]

\* Defect: after a restart the state machine starts at its default state.
EnsureFsm_DefaultState == IF fsm = "ABSENT" THEN "CREATED" ELSE fsm

\* Coordinator._ensure_fsm: the state machine in memory, built from the stored
\* state the first time it is needed.
EnsureFsm == IF fsm = "ABSENT" THEN runState ELSE fsm
CanTransition(target) == RL!can_transition(EnsureFsm, target)

\* Defect: the record is written without asking the state machine.
TransitionRun_Unguarded(target, then) ==
  fsm' = target /\ runState' = target /\ loop' = then

\* Coordinator.transition_run / set_run_error: the state machine moves first,
\* then the record is written; when the write raises (whether or not the store
\* applied it), the handler ends and the state machine stays where it moved.
TransitionRun(target, then) ==
  /\ CanTransition(target)
  /\ fsm' = target
  /\ \/ runState' = target /\ loop' = then
     \/ KVFaults /\ runState' \in {runState, target} /\ loop' = IdleLoop

\* list_checkpoints sorts the records, which come in key order, by step: the
\* order is (step, id).
ListedBefore(a, b) ==
  \/ ckptStep[a] < ckptStep[b]
  \/ ckptStep[a] = ckptStep[b] /\ a < b
InState(states) == {c \in Ckpt : ckptState[c] \in states}

\* Defect: the newest checkpoint of any state is chosen.
IsNewestCommitted_AnyState(c) ==
  LET known == Ckpt \ InState({"NONE"}) IN
  IF known = {} THEN c = NoCkpt
  ELSE c \in known /\ \A d \in known \ {c} : ListedBefore(d, c)

\* RecoveryManager._record_recovery_checkpoint: max() by step over the committed
\* checkpoints keeps the first of equals; None when there is none.
IsNewestCommitted(c) ==
  LET committed == InState({"COMMITTED"}) IN
  IF committed = {} THEN c = NoCkpt
  ELSE /\ c \in committed
       /\ \A d \in committed \ {c} :
            ckptStep[d] < ckptStep[c] \/ (ckptStep[d] = ckptStep[c] /\ c < d)

-----------------------------------------------------------------------------
(* Run endpoints: one transition each *)

\* POST /api/runs
CreateRun ==
  /\ LoopIdle /\ runState = RL!NoRun
  /\ runState' = "CREATED" /\ fsm' = "CREATED"
  /\ UNCHANGED <<lastCkpt, records, tracked, recoveryCkpt, loop, req, rpcs, storage>>

RunEndpoint(target) ==
  /\ LoopIdle /\ runState # RL!NoRun
  /\ TransitionRun(target, IdleLoop)
  /\ UNCHANGED <<lastCkpt, records, tracked, recoveryCkpt, req, rpcs, storage>>

StartRun == RunEndpoint("RUNNING")
CancelRun == RunEndpoint("CANCELLED")
CompleteRun == RunEndpoint("COMPLETED")
FailRun == RunEndpoint("FAILED")

\* POST /resume: the branch is taken on the stored state; RUNNING is a no-op.
ResumeRun ==
  \/ runState = "FAILED" /\ RunEndpoint("RECOVERING")
  \/ /\ runState \in {"RECOVERING", "COMMITTED", "CREATED", "CHECKPOINTING"}
     /\ RunEndpoint("RUNNING")

\* An endpoint whose transition is refused (409) still leaves the state machine
\* it looked up in memory.
RejectedTransition ==
  /\ LoopIdle /\ runState # RL!NoRun
  /\ \E target \in RL!RunStates : ~CanTransition(target)
  /\ fsm' = EnsureFsm
  /\ UNCHANGED <<kv, everFailed, tracked, recoveryCkpt, loop, req, rpcs, storage>>

-----------------------------------------------------------------------------
(* POST /checkpoint: transition, then create_checkpoint's two writes *)

\* InState({"NONE"}) # {} is the bound on the number of checkpoints.
TriggerCheckpoint ==
  /\ LoopIdle /\ runState # RL!NoRun /\ InState({"NONE"}) # {}
  /\ TransitionRun("CHECKPOINTING", LoopAt("create_checkpoint", NoReq, NoCkpt, {}))
  /\ UNCHANGED <<lastCkpt, records, tracked, recoveryCkpt, req, rpcs, storage>>

\* Defect: the run is pointed at the checkpoint before the record is written.
CreateCheckpoint_RunFirst ==
  /\ loop.pc = "create_checkpoint"
  /\ \E c \in InState({"NONE"}) :
       lastCkpt' = c /\ loop' = LoopAt("set_last_checkpoint", NoReq, c, {})
  /\ UNCHANGED <<runState, records, fsm, tracked, recoveryCkpt, req, rpcs, storage>>

CreateCheckpoint ==
  /\ loop.pc = "create_checkpoint"
  /\ \/ \E c \in InState({"NONE"}), step \in 0..MaxStep :
          /\ ckptState' = [ckptState EXCEPT ![c] = "PENDING"]
          /\ ckptStep' = [ckptStep EXCEPT ![c] = step]
          /\ \/ loop' = LoopAt("set_last_checkpoint", NoReq, c, {})
             \/ KVFaults /\ loop' = IdleLoop
     \/ KVFaults /\ loop' = IdleLoop /\ UNCHANGED <<ckptState, ckptStep>>
  /\ UNCHANGED <<runState, lastCkpt, fsm, tracked, recoveryCkpt, req, rpcs, storage,
                 everFailed>>

SetLastCheckpoint ==
  /\ loop.pc = "set_last_checkpoint"
  /\ lastCkpt' = loop.c \/ (KVFaults /\ lastCkpt' = lastCkpt)
  /\ loop' = IdleLoop
  /\ UNCHANGED <<runState, records, fsm, tracked, recoveryCkpt, req, rpcs, storage>>

-----------------------------------------------------------------------------
(* PUT .../shards/{shard_id} *)

\* upload_shard up to its call of WriteShard.  The record is looked up before
\* the body is awaited and never again; records are not deleted by this
\* protocol, so the two are one step.
UploadShard(r, c, s) ==
  /\ LoopIdle /\ req[r].pc = "idle" /\ ckptState[c] # "NONE"
  /\ req' = [req EXCEPT ![r] = Awaiting("write", c, {s})]
  /\ rpcs' = rpcs \cup {Call("write", r, c, {s})}
  /\ UNCHANGED <<kv, fsm, tracked, recoveryCkpt, loop, storage, everFailed>>

\* Defect: the shard is tracked without looking at the outcome of its upload.
ShardUploaded_IgnoresOutcome(r) ==
  /\ LoopIdle /\ req[r].pc = "write" /\ req[r].reply # "none"
  /\ tracked' = [tracked EXCEPT ![req[r].c] = @ \cup req[r].objs]
  /\ ckptState' = [ckptState EXCEPT ![req[r].c] = "IN_PROGRESS"]
  /\ req' = [req EXCEPT ![r] = IdleReq]
  /\ UNCHANGED <<runState, lastCkpt, ckptStep, fsm, recoveryCkpt, loop, rpcs, storage,
                 everFailed>>

\* upload_shard after a successful answer: track the shard, then write the
\* record IN_PROGRESS, whatever its state is by now.
ShardUploaded(r) ==
  /\ LoopIdle /\ req[r].pc = "write" /\ req[r].reply = "ok"
  /\ tracked' = [tracked EXCEPT ![req[r].c] = @ \cup req[r].objs]
  /\ \/ ckptState' = [ckptState EXCEPT ![req[r].c] = "IN_PROGRESS"]
     \/ KVFaults /\ ckptState' = ckptState
  /\ req' = [req EXCEPT ![r] = IdleReq]
  /\ UNCHANGED <<runState, lastCkpt, ckptStep, fsm, recoveryCkpt, loop, rpcs, storage,
                 everFailed>>

-----------------------------------------------------------------------------
(* POST /commit *)

\* commit_run up to its call of CommitCheckpoint: the last IN_PROGRESS record,
\* with the shards tracked for it; none of either is a 409.
CommitRun(r) ==
  /\ LoopIdle /\ req[r].pc = "idle"
  /\ \E c \in InState({"IN_PROGRESS"}) :
       /\ \A d \in InState({"IN_PROGRESS"}) \ {c} : ListedBefore(d, c)
       /\ tracked[c] # {}
       /\ req' = [req EXCEPT ![r] = Awaiting("commit", c, {})]
       /\ rpcs' = rpcs \cup {Call("commit", r, c, tracked[c])}
  /\ UNCHANGED <<kv, fsm, tracked, recoveryCkpt, loop, storage, everFailed>>

\* Defect: the record is marked COMMITTED although the data plane refused.
CheckpointCommitted_IgnoresOutcome(r) ==
  /\ LoopIdle /\ req[r].pc = "commit" /\ req[r].reply # "none"
  /\ tracked' = [tracked EXCEPT ![req[r].c] = {}]
  /\ ckptState' = [ckptState EXCEPT ![req[r].c] = "COMMITTED"]
  /\ loop' = LoopAt("commit_run", NoReq, NoCkpt, {})
  /\ req' = [req EXCEPT ![r] = IdleReq]
  /\ UNCHANGED <<runState, lastCkpt, ckptStep, fsm, recoveryCkpt, rpcs, storage, everFailed>>

\* commit_run after success: forget the shards, mark the record COMMITTED ...
CheckpointCommitted(r) ==
  /\ LoopIdle /\ req[r].pc = "commit" /\ req[r].reply = "ok"
  /\ tracked' = [tracked EXCEPT ![req[r].c] = {}]
  /\ LET written == [ckptState EXCEPT ![req[r].c] = "COMMITTED"]
     IN \/ ckptState' = written /\ loop' = LoopAt("commit_run", NoReq, NoCkpt, {})
        \/ KVFaults /\ ckptState' \in {ckptState, written} /\ loop' = IdleLoop
  /\ req' = [req EXCEPT ![r] = IdleReq]
  /\ UNCHANGED <<runState, lastCkpt, ckptStep, fsm, recoveryCkpt, rpcs, storage, everFailed>>

\* ... then move the run to COMMITTED and on to RUNNING; a refused transition
\* is a 409 that leaves the record COMMITTED.
CommitTransition ==
  /\ \/ loop.pc = "commit_run"
        /\ TransitionRun("COMMITTED", LoopAt("commit_resume", NoReq, NoCkpt, {}))
     \/ loop.pc = "commit_resume" /\ TransitionRun("RUNNING", IdleLoop)
     \/ /\ loop.pc = "commit_run" /\ ~CanTransition("COMMITTED")
        /\ fsm' = EnsureFsm /\ runState' = runState /\ loop' = IdleLoop
  /\ UNCHANGED <<lastCkpt, records, tracked, recoveryCkpt, req, rpcs, storage>>

-----------------------------------------------------------------------------
(* _abort_failed_checkpoint, after a failed upload or commit call *)

\* Defect: a status outside CheckpointInfo's four.
MarkFailed_OtherStatus(c) == /\ ckptState' = [ckptState EXCEPT ![c] = "ABORTED"]
                             /\ everFailed' = everFailed \cup {c}

\* update_checkpoint_state(c, "FAILED")
MarkFailed(c) == /\ ckptState' = [ckptState EXCEPT ![c] = "FAILED"]
                 /\ everFailed' = everFailed \cup {c}

\* Defect: every store error is suppressed, so the abort goes out although the
\* record still says IN_PROGRESS.
CallFailed_SuppressesAll(r) ==
  /\ LoopIdle /\ req[r].pc \in {"write", "commit"} /\ req[r].reply = "err"
  /\ MarkFailed(req[r].c) \/ (KVFaults /\ UNCHANGED <<ckptState, everFailed>>)
  /\ loop' = LoopAt("abort_run", r, req[r].c, {})
  /\ UNCHANGED <<runState, lastCkpt, ckptStep, fsm, tracked, recoveryCkpt, req, rpcs, storage>>

CallFailed(r) ==
  /\ LoopIdle /\ req[r].pc \in {"write", "commit"} /\ req[r].reply = "err"
  /\ \/ /\ MarkFailed(req[r].c)
        /\ loop' = LoopAt("abort_run", r, req[r].c, {})
        /\ req' = req
     \/ /\ KVFaults
        /\ MarkFailed(req[r].c) \/ UNCHANGED <<ckptState, everFailed>>
        /\ req' = [req EXCEPT ![r] = IdleReq]
        /\ loop' = loop
  /\ UNCHANGED <<runState, lastCkpt, ckptStep, fsm, tracked, recoveryCkpt, rpcs, storage>>

\* The rest of the abort: forget the tracked shards and ask the data plane to
\* delete what was stored.
SendAbort(r, c) ==
  /\ tracked' = [tracked EXCEPT ![c] = {}]
  /\ req' = [req EXCEPT ![r] = Awaiting("abort", c, {})]
  /\ rpcs' = rpcs \cup {Call("abort", r, c, {})}
  /\ loop' = IdleLoop

\* set_run_error, whose refusal is suppressed; when its write raises, the
\* handler ends before the abort is sent.
AbortRun ==
  /\ loop.pc = "abort_run"
  /\ \/ /\ CanTransition("FAILED")
        /\ fsm' = "FAILED" /\ runState' = "FAILED"
        /\ SendAbort(loop.req, loop.c)
     \/ /\ ~CanTransition("FAILED")
        /\ fsm' = EnsureFsm /\ runState' = runState
        /\ SendAbort(loop.req, loop.c)
     \/ /\ KVFaults /\ CanTransition("FAILED")
        /\ fsm' = "FAILED" /\ runState' \in {runState, "FAILED"}
        /\ req' = [req EXCEPT ![loop.req] = IdleReq]
        /\ loop' = IdleLoop
        /\ UNCHANGED <<tracked, rpcs>>
  /\ UNCHANGED <<lastCkpt, records, recoveryCkpt, storage>>

\* The outcome of the abort is only logged.
AbortAnswered(r) ==
  /\ LoopIdle /\ req[r].pc = "abort" /\ req[r].reply # "none"
  /\ req' = [req EXCEPT ![r] = IdleReq]
  /\ UNCHANGED <<kv, fsm, tracked, recoveryCkpt, loop, rpcs, storage, everFailed>>

-----------------------------------------------------------------------------
(* RecoveryManager: a worker was declared dead, or recovery was asked for *)

\* Defect: recovery fails every checkpoint of the run, committed ones included.
WorkerFailure_AllRecords ==
  /\ LoopIdle /\ runState \in {"RUNNING", "CHECKPOINTING"}
  /\ TransitionRun("FAILED", LoopAt("abort_pending", NoReq, NoCkpt, Ckpt \ InState({"NONE"})))
  /\ UNCHANGED <<lastCkpt, records, tracked, recoveryCkpt, req, rpcs, storage>>

\* _handle_failure up to the records (for a FAILED run also recover_run).
WorkerFailure ==
  /\ LoopIdle
  /\ LET abort == LoopAt("abort_pending", NoReq, NoCkpt,
                         InState({"PENDING", "IN_PROGRESS"}))
     IN \/ runState = "FAILED" /\ loop' = abort /\ UNCHANGED <<runState, fsm>>
        \/ /\ runState \in RL!RunStates \ {"CANCELLED", "COMPLETED", "FAILED"}
           /\ TransitionRun("FAILED", abort)
  /\ UNCHANGED <<lastCkpt, records, tracked, recoveryCkpt, req, rpcs, storage>>

\* _abort_pending_checkpoints: one record at a time, in list order, going on
\* to the next when a write raises.  The data plane is not told.
AbortPending ==
  /\ loop.pc = "abort_pending"
  /\ \/ \E c \in loop.todo :
          /\ \A d \in loop.todo \ {c} : ListedBefore(c, d)
          /\ loop' = [loop EXCEPT !.todo = @ \ {c}]
          /\ MarkFailed(c) \/ (KVFaults /\ UNCHANGED <<ckptState, everFailed>>)
     \/ /\ loop.todo = {}
        /\ loop' = IF AutoRecover THEN LoopAt("recover", NoReq, NoCkpt, {}) ELSE IdleLoop
        /\ UNCHANGED <<ckptState, everFailed>>
  /\ UNCHANGED <<runState, lastCkpt, ckptStep, fsm, tracked, recoveryCkpt, req, rpcs, storage>>

\* _attempt_recovery: RECOVERING, then the recovery checkpoint is recorded.
\* Scheduling the worker group's restart is outside this module.
AttemptRecovery ==
  /\ loop.pc = "recover"
  /\ loop' = IdleLoop
  /\ \/ /\ CanTransition("RECOVERING")
        /\ fsm' = "RECOVERING" /\ runState' = "RECOVERING"
        /\ recoveryCkpt' \in {c \in Ckpt \cup {NoCkpt} : IsNewestCommitted(c)}
     \/ /\ KVFaults /\ CanTransition("RECOVERING")
        /\ fsm' = "RECOVERING" /\ runState' \in {runState, "RECOVERING"}
        /\ recoveryCkpt' = recoveryCkpt
     \/ /\ ~CanTransition("RECOVERING")
        /\ fsm' = EnsureFsm
        /\ UNCHANGED <<runState, recoveryCkpt>>
  /\ UNCHANGED <<lastCkpt, records, tracked, req, rpcs, storage>>

-----------------------------------------------------------------------------
(* The data plane: each step of a call that changes or reads the store *)

Replace(op, new) == rpcs' = (rpcs \ {op}) \cup {new}

\* writer.write_shard_stream: the object appears under its content-addressed
\* key (copied from staging, or found there already); deleting the staging
\* object and writing the sidecar are still to come.
StoreShard(op) ==
  /\ op.kind = "write"
  /\ objects' = [objects EXCEPT ![op.c] = @ \cup op.objs]
  /\ Replace(op, [op EXCEPT !.kind = "write_fin"])
  /\ UNCHANGED <<kv, memory, manifested, manifest, everFailed>>

\* ManifestManager.write_manifest: the HEAD request; any error on it counts as
\* "does not exist".
CheckManifest(op) ==
  /\ op.kind = "commit"
  /\ \/ op.c \in manifested /\ Replace(op, [op EXCEPT !.kind = "commit_fin"])
     \/ /\ op.c \notin manifested \/ DPFaults
        /\ Replace(op, [op EXCEPT !.kind = "commit_put"])
  /\ UNCHANGED <<kv, memory, storage, everFailed>>

PutManifest(op) ==
  /\ op.kind = "commit_put"
  /\ manifested' = manifested \cup {op.c}
  /\ manifest' = [manifest EXCEPT ![op.c] = op.objs]
  /\ Replace(op, [op EXCEPT !.kind = "commit_fin"])
  /\ UNCHANGED <<kv, memory, objects, everFailed>>

\* GarbageCollector.delete_checkpoint_shards: list the prefix, then delete the
\* listed objects one by one; the manifest is skipped.
ListShards(op) ==
  /\ op.kind = "abort"
  /\ Replace(op, [op EXCEPT !.kind = "abort_delete", !.objs = objects[op.c]])
  /\ UNCHANGED <<kv, memory, storage, everFailed>>

DeleteShard(op, s) ==
  /\ op.kind = "abort_delete" /\ s \in op.objs
  /\ objects' = [objects EXCEPT ![op.c] = @ \ {s}]
  /\ Replace(op, [op EXCEPT !.objs = @ \ {s}])
  /\ UNCHANGED <<kv, memory, manifested, manifest, everFailed>>

Answer(op, reply) ==
  /\ rpcs' = rpcs \ {op}
  /\ req' = IF op.req = NoReq THEN req ELSE [req EXCEPT ![op.req].reply = reply]
  /\ UNCHANGED <<kv, fsm, tracked, recoveryCkpt, loop, storage, everFailed>>

RpcReply(op) ==
  /\ \/ op.kind \in {"write_fin", "commit_fin"}
     \/ op.kind = "abort_delete" /\ op.objs = {}
  /\ Answer(op, "ok")

\* Defect: a failing call ends without an answer.
RpcFail_Silent(op) ==
  /\ DPFaults
  /\ rpcs' = rpcs \ {op}
  /\ UNCHANGED <<kv, memory, storage, everFailed>>

\* The call ends with an error at whatever point it has reached: the store
\* refused a request, backpressure refused the stream, the data plane died.
RpcFail(op) ==
  /\ DPFaults
  /\ Answer(op, "err")

\* The handler's call raises although the data plane goes on with it, or has
\* already answered: the connection broke.
Detach(r) == {[op EXCEPT !.req = IF @ = r THEN NoReq ELSE @] : op \in rpcs}

ConnectionLost(r) ==
  /\ DPFaults /\ req[r].pc # "idle" /\ req[r].reply # "err"
  /\ req' = [req EXCEPT ![r].reply = "err"]
  /\ rpcs' = Detach(r)
  /\ UNCHANGED <<kv, fsm, tracked, recoveryCkpt, loop, storage, everFailed>>

-----------------------------------------------------------------------------
\* The control plane dies and starts again: memory is empty, calls already sent
\* may still take effect.
Restart ==
  /\ Crashes
  /\ fsm' = "ABSENT"
  /\ tracked' = [c \in Ckpt |-> {}]
  /\ recoveryCkpt' = NoCkpt
  /\ loop' = IdleLoop
  /\ req' = [r \in Req |-> IdleReq]
  /\ rpcs' = {[op EXCEPT !.req = NoReq] : op \in rpcs}
  /\ UNCHANGED <<kv, storage, everFailed>>

Init ==
  /\ runState = RL!NoRun
  /\ lastCkpt = NoCkpt
  /\ ckptState = [c \in Ckpt |-> "NONE"]
  /\ ckptStep = [c \in Ckpt |-> 0]
  /\ fsm = "ABSENT"
  /\ tracked = [c \in Ckpt |-> {}]
  /\ recoveryCkpt = NoCkpt
  /\ loop = IdleLoop
  /\ req = [r \in Req |-> IdleReq]
  /\ rpcs = {}
  /\ objects = [c \in Ckpt |-> {}]
  /\ manifested = {}
  /\ manifest = [c \in Ckpt |-> {}]
  /\ everFailed = {}

\* The endpoints that end in the segment they start in, or start a segment.
Endpoint == \/ CreateRun \/ StartRun \/ CancelRun \/ CompleteRun \/ FailRun
            \/ ResumeRun \/ RejectedTransition \/ TriggerCheckpoint
            \/ WorkerFailure

\* The running segment goes on.
LoopStep == \/ CreateCheckpoint \/ SetLastCheckpoint \/ CommitTransition
            \/ AbortRun \/ AbortPending \/ AttemptRecovery

\* A handler that was awaiting the data plane is resumed.
HandlerStep(r) == \/ ShardUploaded(r) \/ CheckpointCommitted(r)
                  \/ CallFailed(r) \/ AbortAnswered(r)

DataPlaneStep(op) == \/ StoreShard(op) \/ CheckManifest(op) \/ PutManifest(op)
                     \/ ListShards(op) \/ (\E s \in Shard : DeleteShard(op, s))
                     \/ RpcReply(op)

\* A client's request that goes on to the data plane.
ClientCall == \E r \in Req : \/ CommitRun(r)
                            \/ \E c \in Ckpt, s \in Shard : UploadShard(r, c, s)

\* The environment interferes.
Fault == \/ \E op \in rpcs : RpcFail(op)
         \/ \E r \in Req : ConnectionLost(r)
         \/ Restart

Progress == \/ LoopStep
            \/ \E r \in Req : HandlerStep(r)
            \/ \E op \in rpcs : DataPlaneStep(op)

Next == Endpoint \/ ClientCall \/ Progress \/ Fault

Spec == Init /\ [][Next]_vars

(***************************************************************************)
(* Fairness.  A segment that has started runs to its next await (weak      *)
(* fairness of LoopStep).  asyncio's ready queue is first-in first-out and *)
(* segments are finite, so a handler whose answer has arrived is resumed   *)
(* even though other handlers keep taking the loop (strong fairness).  A   *)
(* call the data plane has accepted is driven by the tokio runtime (weak). *)
(* Nothing is assumed about clients, failures or restarts.                 *)
(***************************************************************************)
Fairness ==
  /\ WF_vars(LoopStep)
  /\ \A r \in Req : /\ SF_vars(HandlerStep(r))
                    /\ WF_vars(\E op \in rpcs : op.req = r /\ DataPlaneStep(op))
FairSpec == Spec /\ Fairness

-----------------------------------------------------------------------------
(* Properties *)

\* A checkpoint whose record says COMMITTED has a manifest in the object store,
\* whatever answers were lost, calls overtaken or restarts happened between
\* the manifest write (manifest.rs) and the record write (rest.py commit_run).
CommittedHasManifest == InState({"COMMITTED"}) \subseteq manifested

\* As long as no handler and no recovery has ever marked a checkpoint FAILED,
\* its manifest names at least one shard and every shard it names is in the
\* store: commit_run sends only shards whose upload was confirmed, and
\* AbortCheckpoint, the only deletion, is sent only after the record was
\* marked FAILED (_abort_failed_checkpoint's order).
UnfailedIsRestorable ==
  \A c \in manifested \ everFailed : manifest[c] # {} /\ manifest[c] \subseteq objects[c]

\* last_checkpoint_id never names a checkpoint without a record, also when the
\* control plane dies between create_checkpoint's two writes.
LastCheckpointExists == lastCkpt # NoCkpt => ckptState[lastCkpt] # "NONE"

\* The checkpoint recorded for a recovery can be looked up in the store: it has
\* a manifest, even if its record has been overwritten since.
RecoveryTargetHasManifest == recoveryCkpt # NoCkpt => recoveryCkpt \in manifested

\* The state machine in memory, when there is one, is in the stored state
\* (Coordinator.transition_run), at every point a handler can be interrupted.
FsmMatchesStore == fsm \in {"ABSENT", runState}

\* The stored run state follows VALID_TRANSITIONS: restarts rebuild the state
\* machine from the store, and no interleaving of handlers skips a state.
FollowsLifecycle == RL!Spec

\* A COMMITTED record is rewritten only by an upload or a commit of that same
\* checkpoint that is still in flight; recovery, run endpoints, restarts and
\* the work on other checkpoints leave it alone.
InFlight(c) == \E r \in Req : req[r].pc \in {"write", "commit"} /\ req[r].c = c
CommittedIsStable ==
  [][\A c \in Ckpt : ckptState[c] = "COMMITTED" /\ ~InFlight(c)
                       => ckptState'[c] = "COMMITTED"]_vars

\* Every upload, commit and abort handler eventually returns: a lost answer, a
\* failing call or a busy loop never leaves one waiting for ever.
HandlersReturn == \A r \in Req : req[r].pc # "idle" ~> req[r].pc = "idle"

(***************************************************************************)
(* The inductive invariant behind the safety properties, in named parts.   *)
(***************************************************************************)

\* Before the run exists nothing else does; a handler in flight and a segment
\* that needs a checkpoint have one; only an abort segment owns a request.
WellFormed ==
  /\ runState = RL!NoRun => /\ fsm = "ABSENT" /\ LoopIdle
                            /\ \A c \in Ckpt : ckptState[c] = "NONE"
                            /\ \A r \in Req : req[r].pc = "idle"
  /\ \A r \in Req : req[r].pc # "idle" => req[r].c \in Ckpt
  /\ loop.pc = "set_last_checkpoint" => loop.c \in Ckpt
  /\ loop.pc = "abort_run" => /\ loop.req \in Req /\ loop.c \in Ckpt
                              /\ req[loop.req].pc # "idle"

\* The handler state that awaits a call of this kind.
AwaitedBy(kind) ==
  CASE kind \in {"write", "write_fin"} -> "write"
    [] kind \in {"commit", "commit_put", "commit_fin"} -> "commit"
    [] kind \in {"abort", "abort_delete"} -> "abort"

\* A call that still has an owner is the one call its handler is waiting for;
\* an abort segment's handler has had its answer.
CallsHaveOwners ==
  /\ \A op \in rpcs : op.req # NoReq =>
       /\ req[op.req].pc = AwaitedBy(op.kind)
       /\ req[op.req].c = op.c
       /\ req[op.req].reply = "none"
       /\ op.kind \in {"write", "write_fin"} => req[op.req].objs = op.objs
  /\ \A op1, op2 \in rpcs : op1.req # NoReq /\ op1.req = op2.req => op1 = op2
  /\ loop.pc = "abort_run" => req[loop.req].reply = "err"

\* The manifest is in the store wherever the protocol believes it is: in the
\* data plane about to answer, in the handler that has the answer, in the
\* record, and in the recovery manager's choice.
ManifestKnown ==
  /\ CommittedHasManifest
  /\ RecoveryTargetHasManifest
  /\ \A r \in Req : req[r].pc = "commit" /\ req[r].reply = "ok" => req[r].c \in manifested
  /\ \A op \in rpcs : op.kind = "commit_fin" => op.c \in manifested

\* For a checkpoint never marked FAILED: nobody is deleting its objects, and
\* every object that is confirmed, tracked, sent for commit or named by the
\* manifest is in the store.
ObjectsKept ==
  /\ UnfailedIsRestorable
  /\ \A c \in Ckpt \ everFailed : tracked[c] \subseteq objects[c]
  /\ \A r \in Req : /\ req[r].pc = "write" /\ req[r].reply = "ok"
                    /\ req[r].c \notin everFailed
                    => req[r].objs \subseteq objects[req[r].c]
  /\ \A op \in rpcs : op.c \notin everFailed =>
       /\ op.kind \notin {"abort", "abort_delete"}
       /\ op.kind # "write" => op.objs \subseteq objects[op.c]
       /\ op.kind \in {"commit", "commit_put"} => op.objs # {}
  /\ loop.pc = "abort_run" => loop.c \in everFailed

\* The checkpoint about to become last_checkpoint_id has its record.
LastIsRecorded ==
  /\ LastCheckpointExists
  /\ loop.pc = "set_last_checkpoint" => ckptState[loop.c] # "NONE"

\* Recovery is about to fail only records that are still unfinished.
TodoIsPending ==
  loop.pc = "abort_pending" => loop.todo \subseteq InState({"PENDING", "IN_PROGRESS"})

\* The conjunction: every part of the inductive invariant, at every point where
\* a handler, a call or the process can be interrupted.
InductiveInv == /\ WellFormed /\ CallsHaveOwners /\ ManifestKnown
                /\ ObjectsKept /\ LastIsRecorded /\ TodoIsPending

(* What the documents say of the program, and the code does not keep *)

\* README.md: "If the manifest exists, the checkpoint is valid."
ManifestMeansValid == \A c \in manifested : manifest[c] \subseteq objects[c]

\* checkpoint.proto, CommitCheckpoint: "Write manifest after all shards confirmed."
ManifestAfterAllShards ==
  \A c \in manifested : ~\E r \in Req : req[r].pc = "write" /\ req[r].c = c

\* state_machine.py: "Enforces that only valid transitions are performed".
OnlyValidTransitions == [][RL!Next]_runState

\* ARCHITECTURE.md, failure recovery: "If mid-checkpoint: AbortCheckpoint (GC
\* incomplete shards)".
IncompleteShardsCollected ==
  \A c \in Ckpt : (ckptState[c] = "FAILED" /\ c \notin manifested)
                     ~> (objects[c] = {} \/ ckptState[c] # "FAILED" \/ c \in manifested)
=============================================================================
