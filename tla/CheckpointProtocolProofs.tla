--------------------- MODULE CheckpointProtocolProofs ---------------------
(***************************************************************************)
(* Proofs about CheckpointProtocol, for every value of its constants.      *)
(* First the types, then the parts of the inductive invariant one by one   *)
(* (who owns a call, where a manifest is known to exist, which objects are *)
(* kept, which records the run and the recovery refer to), then the safety *)
(* properties that follow, and last the refinement of RunLifecycle.        *)
(***************************************************************************)
EXTENDS CheckpointProtocol, TLAPS

\* What every other proof starts from.
Typing == TypeOK /\ WellFormed

\* A fresh deployment, with an empty store and no handler running, is well typed.
LEMMA TypingInit == Init => Typing
  BY CkptAssumption, ReqAssumption, StepAssumption
  DEF Init, Typing, TypeOK, WellFormed, LoopAt, IdleLoop, LoopIdle, IdleReq, NoCkpt,
      RL!RunStates, RL!NoRun, CkptStates, LoopPCs, ReqPCs, Replies

\* Every handler segment, data-plane step and fault keeps the types, and keeps the
\* facts about which handler a segment belongs to that WellFormed states.
LEMMA TypingNext == Typing /\ [Next]_vars => Typing'
  <1> SUFFICES ASSUME TypeOK, WellFormed, [Next]_vars PROVE TypeOK' /\ WellFormed'
    BY DEF Typing
  <1> USE CkptAssumption, ReqAssumption, StepAssumption
      DEF LoopAt, IdleLoop, LoopIdle, IdleReq, Awaiting, Call, NoCkpt,
          kv, records, memory, storage
  <1>1. CASE CreateRun
    BY <1>1 DEF CreateRun, TypeOK, WellFormed, RL!RunStates, RL!NoRun
  <1>2. ASSUME NEW target \in RL!RunStates, RunEndpoint(target)
        PROVE TypeOK' /\ WellFormed'
    BY <1>2 DEF RunEndpoint, TransitionRun, TypeOK, WellFormed, RL!RunStates, RL!NoRun, LoopPCs
  <1>3. CASE RejectedTransition
    BY <1>3 DEF RejectedTransition, EnsureFsm, TypeOK, WellFormed, RL!RunStates, RL!NoRun
  <1>4. CASE TriggerCheckpoint
    BY <1>4 DEF TriggerCheckpoint, TransitionRun, TypeOK, WellFormed, RL!RunStates, RL!NoRun, LoopPCs
  <1>5. CASE WorkerFailure
    BY <1>5 DEF WorkerFailure, TransitionRun, InState, TypeOK, WellFormed, RL!RunStates, RL!NoRun, LoopPCs
  <1>6. CASE CreateCheckpoint
    BY <1>6 DEF CreateCheckpoint, InState, TypeOK, WellFormed, RL!RunStates, RL!NoRun, LoopPCs, CkptStates
  <1>7. CASE SetLastCheckpoint
    BY <1>7 DEF SetLastCheckpoint, TypeOK, WellFormed, LoopPCs
  <1>8. CASE CommitTransition
    BY <1>8 DEF CommitTransition, TransitionRun, EnsureFsm, TypeOK, WellFormed, RL!RunStates, RL!NoRun, LoopPCs
  <1>9. CASE AbortRun
    BY <1>9 DEF AbortRun, SendAbort, EnsureFsm, TypeOK, WellFormed, RL!RunStates, RL!NoRun, LoopPCs, ReqPCs, Replies, RpcKinds
  <1>10. CASE AbortPending
    BY <1>10 DEF AbortPending, MarkFailed, TypeOK, WellFormed, RL!RunStates, RL!NoRun, LoopPCs, CkptStates
  <1>11. CASE AttemptRecovery
    BY <1>11 DEF AttemptRecovery, EnsureFsm, TypeOK, WellFormed, RL!RunStates, RL!NoRun, LoopPCs
  <1>12. ASSUME NEW r \in Req, NEW c \in Ckpt, NEW s \in Shard, UploadShard(r, c, s)
         PROVE TypeOK' /\ WellFormed'
    BY <1>12 DEF UploadShard, TypeOK, WellFormed, ReqPCs, Replies, RpcKinds
  <1>13. ASSUME NEW r \in Req, CommitRun(r) PROVE TypeOK' /\ WellFormed'
    BY <1>13 DEF CommitRun, InState, TypeOK, WellFormed, ReqPCs, Replies, RpcKinds
  <1>14. ASSUME NEW r \in Req, ShardUploaded(r) PROVE TypeOK' /\ WellFormed'
    <2>1. req[r].c \in Ckpt /\ runState # RL!NoRun
      BY <1>14 DEF ShardUploaded, WellFormed
    <2>2. /\ ckptState' \in [Ckpt -> CkptStates]
          /\ tracked' \in [Ckpt -> SUBSET Shard]
          /\ req' \in [Req -> [pc : ReqPCs, c : Ckpt \cup {NoCkpt}, objs : SUBSET Shard,
                               reply : Replies]]
      BY <1>14, <2>1 DEF ShardUploaded, TypeOK, CkptStates, ReqPCs, Replies
    <2>3. TypeOK'
      BY <1>14, <2>2 DEF ShardUploaded, TypeOK
    <2>4. WellFormed'
      BY <1>14, <2>1 DEF ShardUploaded, TypeOK, WellFormed
    <2> QED
      BY <2>3, <2>4
  <1>15. ASSUME NEW r \in Req, CheckpointCommitted(r) PROVE TypeOK' /\ WellFormed'
    <2>1. req[r].c \in Ckpt /\ runState # RL!NoRun
      BY <1>15 DEF CheckpointCommitted, WellFormed
    <2>2. /\ ckptState' \in [Ckpt -> CkptStates]
          /\ tracked' \in [Ckpt -> SUBSET Shard]
          /\ req' \in [Req -> [pc : ReqPCs, c : Ckpt \cup {NoCkpt}, objs : SUBSET Shard,
                               reply : Replies]]
          /\ loop' \in {IdleLoop, LoopAt("commit_run", NoReq, NoCkpt, {})}
      BY <1>15, <2>1 DEF CheckpointCommitted, TypeOK, CkptStates, ReqPCs, Replies
    <2>3. TypeOK'
      BY <1>15, <2>2 DEF CheckpointCommitted, TypeOK, LoopPCs
    <2>4. WellFormed'
      BY <1>15, <2>1, <2>2 DEF CheckpointCommitted, TypeOK, WellFormed
    <2> QED
      BY <2>3, <2>4
  <1>16. ASSUME NEW r \in Req, CallFailed(r) PROVE TypeOK' /\ WellFormed'
    <2> DEFINE cc == req[r].c
    <2>1. cc \in Ckpt /\ req[r].pc # "idle" /\ loop.pc = "idle"
      BY <1>16 DEF CallFailed, WellFormed
    <2>2. UNCHANGED <<runState, lastCkpt, ckptStep, fsm, tracked, recoveryCkpt, rpcs, storage>>
      BY <1>16 DEF CallFailed
    <2>3. /\ ckptState' \in [Ckpt -> CkptStates] /\ everFailed' \subseteq Ckpt
          /\ \A c \in Ckpt : ckptState[c] # "NONE" => ckptState'[c] # "NONE"
      BY <1>16, <2>1 DEF CallFailed, MarkFailed, TypeOK, CkptStates
    <2>4. runState # RL!NoRun
      BY <2>1 DEF WellFormed
    <2>5. CASE loop' = LoopAt("abort_run", r, cc, {}) /\ req' = req
      BY <2>1, <2>2, <2>3, <2>4, <2>5 DEF TypeOK, WellFormed, LoopPCs
    <2>6. CASE loop' = loop /\ req' = [req EXCEPT ![r] = IdleReq]
      BY <2>1, <2>2, <2>3, <2>4, <2>6 DEF TypeOK, WellFormed, ReqPCs, Replies
    <2> QED
      BY <1>16, <2>5, <2>6 DEF CallFailed
  <1>17. ASSUME NEW r \in Req, AbortAnswered(r) PROVE TypeOK' /\ WellFormed'
    BY <1>17 DEF AbortAnswered, TypeOK, WellFormed, ReqPCs, Replies
  <1>18. ASSUME NEW op \in rpcs, StoreShard(op) PROVE TypeOK' /\ WellFormed'
    BY <1>18 DEF StoreShard, Replace, TypeOK, WellFormed, RpcKinds
  <1>19. ASSUME NEW op \in rpcs, CheckManifest(op) PROVE TypeOK' /\ WellFormed'
    BY <1>19 DEF CheckManifest, Replace, TypeOK, WellFormed, RpcKinds
  <1>20. ASSUME NEW op \in rpcs, PutManifest(op) PROVE TypeOK' /\ WellFormed'
    BY <1>20 DEF PutManifest, Replace, TypeOK, WellFormed, RpcKinds
  <1>21. ASSUME NEW op \in rpcs, ListShards(op) PROVE TypeOK' /\ WellFormed'
    BY <1>21 DEF ListShards, Replace, TypeOK, WellFormed, RpcKinds
  <1>22. ASSUME NEW op \in rpcs, NEW s \in Shard, DeleteShard(op, s) PROVE TypeOK' /\ WellFormed'
    BY <1>22 DEF DeleteShard, Replace, TypeOK, WellFormed, RpcKinds
  <1>23. ASSUME NEW op \in rpcs, NEW reply \in Replies, Answer(op, reply) PROVE TypeOK' /\ WellFormed'
    BY <1>23 DEF Answer, TypeOK, WellFormed, Replies
  <1>24. ASSUME NEW r \in Req, ConnectionLost(r) PROVE TypeOK' /\ WellFormed'
    <2>1. rpcs' \subseteq [kind : RpcKinds, req : Req \cup {NoReq}, c : Ckpt, objs : SUBSET Shard]
      BY <1>24 DEF ConnectionLost, Detach, TypeOK
    <2>2. req' \in [Req -> [pc : ReqPCs, c : Ckpt \cup {NoCkpt}, objs : SUBSET Shard, reply : Replies]]
      BY <1>24 DEF ConnectionLost, TypeOK, Replies
    <2> QED
      BY <1>24, <2>1, <2>2 DEF ConnectionLost, TypeOK, WellFormed
  <1>25. CASE Restart
    <2>1. rpcs' \subseteq [kind : RpcKinds, req : Req \cup {NoReq}, c : Ckpt, objs : SUBSET Shard]
      BY <1>25 DEF Restart, TypeOK
    <2>2. req' \in [Req -> [pc : ReqPCs, c : Ckpt \cup {NoCkpt}, objs : SUBSET Shard, reply : Replies]]
      BY <1>25 DEF Restart, ReqPCs, Replies
    <2>3. TypeOK'
      BY <1>25, <2>1, <2>2 DEF Restart, TypeOK, LoopPCs
    <2>4. WellFormed'
      BY <1>25 DEF Restart, WellFormed
    <2> QED
      BY <2>3, <2>4
  <1>26. CASE UNCHANGED vars
    BY <1>26 DEF vars, TypeOK, WellFormed
  <1> QED
    BY <1>1, <1>2, <1>3, <1>4, <1>5, <1>6, <1>7, <1>8, <1>9, <1>10, <1>11, <1>12, <1>13,
       <1>14, <1>15, <1>16, <1>17, <1>18, <1>19, <1>20, <1>21, <1>22, <1>23, <1>24, <1>25, <1>26
    DEF Next, Endpoint, ClientCall, Progress, Fault, LoopStep, HandlerStep, DataPlaneStep,
        StartRun, CancelRun, CompleteRun, FailRun, ResumeRun, RpcReply, RpcFail, RL!RunStates, Replies

\* The steps of the loop that neither send nor finish a data-plane call.
QuietStep == Endpoint \/ CreateCheckpoint \/ SetLastCheckpoint \/ CommitTransition
             \/ AbortPending \/ AttemptRecovery

\* Such a step leaves the handlers that await the data plane, their calls and the
\* object store alone, and never starts the abort of a failed call.
LEMMA QuietSteps ==
  ASSUME TypeOK, QuietStep
  PROVE  UNCHANGED <<req, rpcs, tracked, storage>> /\ loop'.pc # "abort_run"
  <1> USE DEF LoopAt, IdleLoop, LoopIdle, kv, records, storage
  <1>1. CASE Endpoint
    BY <1>1 DEF Endpoint, CreateRun, StartRun, CancelRun, CompleteRun, FailRun, ResumeRun,
                RunEndpoint, RejectedTransition, TriggerCheckpoint, WorkerFailure, TransitionRun
  <1>2. CASE CreateCheckpoint \/ SetLastCheckpoint \/ CommitTransition
    BY <1>2 DEF CreateCheckpoint, SetLastCheckpoint, CommitTransition, TransitionRun
  <1>3. CASE AbortPending
    BY <1>3 DEF AbortPending, TypeOK
  <1>4. CASE AttemptRecovery
    BY <1>4 DEF AttemptRecovery
  <1> QED
    BY <1>1, <1>2, <1>3, <1>4 DEF QuietStep

\* No call is in flight before the first request.
LEMMA OwnersInit == Init => CallsHaveOwners
  BY DEF Init, CallsHaveOwners, IdleLoop, LoopAt

\* A call keeps at most one handler waiting for it (rest.py awaits one gRPC call at
\* a time); when the connection breaks or the process dies the call is disowned.
LEMMA OwnersNext == Typing /\ Typing' /\ CallsHaveOwners /\ [Next]_vars => CallsHaveOwners'
  <1> SUFFICES ASSUME TypeOK, WellFormed, TypeOK', CallsHaveOwners, [Next]_vars
               PROVE CallsHaveOwners'
    BY DEF Typing
  <1> USE ReqAssumption
      DEF LoopAt, IdleLoop, LoopIdle, IdleReq, Awaiting, Call, kv, memory, storage
  \* A handler that owns no call sends one and waits for it.
  <1>0. ASSUME NEW r \in Req, NEW kind \in {"write", "commit", "abort"},
               NEW c, NEW objs, NEW held,
               \A op \in rpcs : op.req # r,
               req' = [req EXCEPT ![r] = Awaiting(kind, c, held)],
               rpcs' = rpcs \cup {Call(kind, r, c, objs)},
               kind = "write" => held = objs,
               loop'.pc # "abort_run"
        PROVE CallsHaveOwners'
    <2>1. req'[r] = Awaiting(kind, c, held) /\ \A q \in Req \ {r} : req'[q] = req[q]
      BY <1>0 DEF TypeOK
    <2>2. \A op \in rpcs : op.req # NoReq => req'[op.req] = req[op.req]
      BY <1>0, <2>1 DEF TypeOK
    <2>3. AwaitedBy(kind) = kind
      BY <1>0 DEF AwaitedBy
    <2>4. ASSUME NEW op \in rpcs', op.req # NoReq
          PROVE /\ req'[op.req].pc = AwaitedBy(op.kind)
                /\ req'[op.req].c = op.c
                /\ req'[op.req].reply = "none"
                /\ op.kind \in {"write", "write_fin"} => req'[op.req].objs = op.objs
      <3>1. CASE op \in rpcs
        BY <2>2, <2>4, <3>1 DEF CallsHaveOwners
      <3>2. CASE op = Call(kind, r, c, objs)
        BY <1>0, <2>1, <2>3, <3>2
      <3> QED
        BY <1>0, <3>1, <3>2
    <2>5. \A op1, op2 \in rpcs' : op1.req # NoReq /\ op1.req = op2.req => op1 = op2
      BY <1>0 DEF CallsHaveOwners
    <2> QED
      BY <1>0, <2>4, <2>5 DEF CallsHaveOwners
  <1>1. CASE QuietStep
    BY <1>1, QuietSteps DEF CallsHaveOwners
  <1>2. CASE AbortRun
    <2>1. /\ loop.req \in Req /\ loop.c \in Ckpt /\ loop'.pc = "idle"
          /\ \A op \in rpcs : op.req # loop.req
      BY <1>2 DEF AbortRun, SendAbort, WellFormed, CallsHaveOwners
    <2>2. CASE SendAbort(loop.req, loop.c)
      BY <1>0, <2>1, <2>2 DEF SendAbort
    <2>3. CASE req' = [req EXCEPT ![loop.req] = IdleReq] /\ UNCHANGED rpcs
      BY <2>1, <2>3 DEF CallsHaveOwners, TypeOK
    <2> QED
      BY <1>2, <2>2, <2>3 DEF AbortRun
  <1>3. ASSUME NEW r \in Req, NEW c \in Ckpt, NEW s \in Shard, UploadShard(r, c, s)
        PROVE CallsHaveOwners'
    <2>1. \A op \in rpcs : op.req # r
      BY <1>3 DEF UploadShard, CallsHaveOwners, AwaitedBy, TypeOK, RpcKinds
    <2> QED
      BY <1>0, <1>3, <2>1 DEF UploadShard
  <1>4. ASSUME NEW r \in Req, CommitRun(r) PROVE CallsHaveOwners'
    <2>1. \A op \in rpcs : op.req # r
      BY <1>4 DEF CommitRun, CallsHaveOwners, AwaitedBy, TypeOK, RpcKinds
    <2>2. PICK c \in Ckpt : /\ req' = [req EXCEPT ![r] = Awaiting("commit", c, {})]
                            /\ rpcs' = rpcs \cup {Call("commit", r, c, tracked[c])}
      BY <1>4 DEF CommitRun, InState
    <2>3. UNCHANGED loop /\ loop.pc = "idle"
      BY <1>4 DEF CommitRun
    <2> QED
      BY <1>0, <2>1, <2>2, <2>3
  <1>5. ASSUME NEW r \in Req, HandlerStep(r) PROVE CallsHaveOwners'
    <2>1. \A op \in rpcs : op.req # r
      BY <1>5 DEF HandlerStep, ShardUploaded, CheckpointCommitted, CallFailed, AbortAnswered,
                  CallsHaveOwners
    <2>2. UNCHANGED rpcs
      BY <1>5 DEF HandlerStep, ShardUploaded, CheckpointCommitted, CallFailed, AbortAnswered
    <2>3. \/ req' = [req EXCEPT ![r] = IdleReq] /\ loop'.pc # "abort_run"
          \/ req' = req /\ loop' = LoopAt("abort_run", r, req[r].c, {}) /\ req[r].reply = "err"
      BY <1>5 DEF HandlerStep, ShardUploaded, CheckpointCommitted, CallFailed, AbortAnswered
    <2> QED
      BY <2>1, <2>2, <2>3 DEF CallsHaveOwners, TypeOK
  <1>6. ASSUME NEW op \in rpcs, NEW new, Replace(op, new), UNCHANGED memory,
               new.req = op.req, new.c = op.c, AwaitedBy(new.kind) = AwaitedBy(op.kind),
               new.kind \in {"write", "write_fin"} =>
                  op.kind \in {"write", "write_fin"} /\ new.objs = op.objs
        PROVE CallsHaveOwners'
    BY <1>6 DEF Replace, CallsHaveOwners
  <1>7. ASSUME NEW op \in rpcs, DataPlaneStep(op), ~RpcReply(op) PROVE CallsHaveOwners'
    <2>1. CASE StoreShard(op)
      BY <1>6, <2>1 DEF StoreShard, AwaitedBy, TypeOK
    <2>2. CASE CheckManifest(op)
      BY <1>6, <2>2 DEF CheckManifest, AwaitedBy, TypeOK
    <2>3. CASE PutManifest(op)
      BY <1>6, <2>3 DEF PutManifest, AwaitedBy, TypeOK
    <2>4. CASE ListShards(op)
      BY <1>6, <2>4 DEF ListShards, AwaitedBy, TypeOK
    <2>5. ASSUME NEW s \in Shard, DeleteShard(op, s) PROVE CallsHaveOwners'
      BY <1>6, <2>5 DEF DeleteShard, AwaitedBy, TypeOK
    <2> QED
      BY <1>7, <2>1, <2>2, <2>3, <2>4, <2>5 DEF DataPlaneStep
  <1>8. ASSUME NEW op \in rpcs, NEW reply \in Replies, Answer(op, reply)
        PROVE CallsHaveOwners'
    BY <1>8 DEF Answer, CallsHaveOwners, TypeOK
  <1>9. ASSUME NEW r \in Req, ConnectionLost(r) PROVE CallsHaveOwners'
    <2>1. \A op \in rpcs' : op.req # r /\ (op.req # NoReq => op \in rpcs)
      BY <1>9 DEF ConnectionLost, Detach, TypeOK
    <2> QED
      BY <1>9, <2>1 DEF ConnectionLost, CallsHaveOwners, TypeOK
  <1>10. CASE Restart
    <2>1. \A op \in rpcs' : op.req = NoReq
      BY <1>10 DEF Restart, TypeOK
    <2> QED
      BY <1>10, <2>1 DEF Restart, CallsHaveOwners
  <1>11. CASE UNCHANGED vars
    BY <1>11 DEF vars, CallsHaveOwners
  <1> QED
    BY <1>1, <1>2, <1>3, <1>4, <1>5, <1>7, <1>8, <1>9, <1>10, <1>11
    DEF Next, QuietStep, LoopStep, ClientCall, Progress, Fault, RpcReply, RpcFail, Replies

\* What such a step may do to the records: nothing becomes COMMITTED, no record
\* disappears, and a recovery target is chosen among the committed ones.
LEMMA QuietRecords ==
  ASSUME TypeOK, WellFormed, QuietStep
  PROVE  /\ InState({"COMMITTED"})' \subseteq InState({"COMMITTED"})
         /\ InState({"NONE"})' \subseteq InState({"NONE"})
         /\ everFailed \subseteq everFailed'
         /\ \/ recoveryCkpt' = recoveryCkpt
            \/ recoveryCkpt' \in InState({"COMMITTED"}) \cup {NoCkpt}
  <1> USE DEF kv, records, storage, InState
  <1>1. CASE Endpoint
    BY <1>1 DEF Endpoint, CreateRun, StartRun, CancelRun, CompleteRun, FailRun, ResumeRun,
                RunEndpoint, RejectedTransition, TriggerCheckpoint, WorkerFailure
  <1>2. CASE CreateCheckpoint
    BY <1>2 DEF CreateCheckpoint, TypeOK
  <1>3. CASE SetLastCheckpoint \/ CommitTransition
    BY <1>3 DEF SetLastCheckpoint, CommitTransition
  <1>4. CASE AbortPending
    BY <1>4 DEF AbortPending, MarkFailed, TypeOK
  <1>5. CASE AttemptRecovery
    BY <1>5 DEF AttemptRecovery, IsNewestCommitted, TypeOK
  <1> QED
    BY <1>1, <1>2, <1>3, <1>4, <1>5 DEF QuietStep

\* No record claims a manifest in the empty store.
LEMMA ManifestInit == Init => ManifestKnown
  BY DEF Init, ManifestKnown, CommittedHasManifest, RecoveryTargetHasManifest, InState, IdleReq

\* The belief that a manifest exists travels from write_manifest to the gRPC answer,
\* to commit_run and to the record, and no manifest is ever deleted on the way.
LEMMA ManifestNext ==
  Typing /\ CallsHaveOwners /\ ManifestKnown /\ [Next]_vars => ManifestKnown'
  <1> SUFFICES ASSUME TypeOK, WellFormed, CallsHaveOwners, ManifestKnown, [Next]_vars
               PROVE ManifestKnown'
    BY DEF Typing
  <1> USE ReqAssumption
      DEF LoopAt, IdleLoop, LoopIdle, IdleReq, Awaiting, Call, kv, records, memory, storage,
          ManifestKnown, CommittedHasManifest, RecoveryTargetHasManifest
  <1>1. CASE QuietStep
    BY <1>1, QuietSteps, QuietRecords
  <1>2. CASE AbortRun
    <2>1. loop.req \in Req
      BY <1>2 DEF AbortRun, WellFormed
    <2> QED
      BY <1>2, <2>1 DEF AbortRun, SendAbort, TypeOK, InState
  <1>3. ASSUME NEW r \in Req, NEW c \in Ckpt, NEW s \in Shard, UploadShard(r, c, s)
        PROVE ManifestKnown'
    BY <1>3 DEF UploadShard, TypeOK, InState
  <1>4. ASSUME NEW r \in Req, CommitRun(r) PROVE ManifestKnown'
    BY <1>4 DEF CommitRun, TypeOK, InState
  <1>5. ASSUME NEW r \in Req, ShardUploaded(r) PROVE ManifestKnown'
    BY <1>5 DEF ShardUploaded, TypeOK, InState
  <1>6. ASSUME NEW r \in Req, CheckpointCommitted(r) PROVE ManifestKnown'
    BY <1>6 DEF CheckpointCommitted, TypeOK, InState
  <1>7. ASSUME NEW r \in Req, CallFailed(r) PROVE ManifestKnown'
    BY <1>7 DEF CallFailed, MarkFailed, TypeOK, InState
  <1>8. ASSUME NEW r \in Req, AbortAnswered(r) PROVE ManifestKnown'
    BY <1>8 DEF AbortAnswered, TypeOK, InState
  <1>9. ASSUME NEW op \in rpcs, StoreShard(op) \/ ListShards(op) PROVE ManifestKnown'
    BY <1>9 DEF StoreShard, ListShards, Replace, TypeOK, InState
  <1>10. ASSUME NEW op \in rpcs, NEW s \in Shard, DeleteShard(op, s) PROVE ManifestKnown'
    BY <1>10 DEF DeleteShard, Replace, TypeOK, InState
  <1>11. ASSUME NEW op \in rpcs, CheckManifest(op) PROVE ManifestKnown'
    BY <1>11 DEF CheckManifest, Replace, TypeOK, InState
  <1>12. ASSUME NEW op \in rpcs, PutManifest(op) PROVE ManifestKnown'
    BY <1>12 DEF PutManifest, Replace, TypeOK, InState
  <1>13. ASSUME NEW op \in rpcs, RpcReply(op) PROVE ManifestKnown'
    <2>1. op.req # NoReq /\ req[op.req].pc = "commit" => op.kind = "commit_fin"
      BY <1>13 DEF RpcReply, CallsHaveOwners, AwaitedBy
    <2> QED
      BY <1>13, <2>1 DEF RpcReply, Answer, CallsHaveOwners, TypeOK, InState
  <1>14. ASSUME NEW op \in rpcs, RpcFail(op) PROVE ManifestKnown'
    BY <1>14 DEF RpcFail, Answer, TypeOK, InState
  <1>15. ASSUME NEW r \in Req, ConnectionLost(r) PROVE ManifestKnown'
    BY <1>15 DEF ConnectionLost, Detach, TypeOK, InState
  <1>16. CASE Restart
    BY <1>16 DEF Restart, TypeOK, InState
  <1>17. CASE UNCHANGED vars
    BY <1>17 DEF vars, InState
  <1> QED
    BY <1>1, <1>2, <1>3, <1>4, <1>5, <1>6, <1>7, <1>8, <1>9, <1>10, <1>11, <1>12, <1>13,
       <1>14, <1>15, <1>16, <1>17
    DEF Next, QuietStep, LoopStep, HandlerStep, ClientCall, Progress, Fault, DataPlaneStep

\* No object is expected in the empty store.
LEMMA ObjectsInit == Init => ObjectsKept
  BY DEF Init, ObjectsKept, UnfailedIsRestorable, IdleReq, IdleLoop, LoopAt

\* Objects confirmed by write_shard_stream stay in the store until their checkpoint
\* was marked FAILED: _abort_failed_checkpoint writes the record before it calls
\* the data plane.
LEMMA ObjectsNext ==
  Typing /\ CallsHaveOwners /\ ObjectsKept /\ [Next]_vars => ObjectsKept'
  <1> SUFFICES ASSUME TypeOK, WellFormed, CallsHaveOwners, ObjectsKept, [Next]_vars
               PROVE ObjectsKept'
    BY DEF Typing
  <1> USE ReqAssumption
      DEF LoopAt, IdleLoop, LoopIdle, IdleReq, Awaiting, Call, kv, records, memory, storage,
          ObjectsKept, UnfailedIsRestorable
  <1>1. CASE QuietStep
    BY <1>1, QuietSteps, QuietRecords
  <1>2. CASE AbortRun
    <2>1. loop.req \in Req /\ loop.c \in everFailed
      BY <1>2 DEF AbortRun, WellFormed
    <2> QED
      BY <1>2, <2>1 DEF AbortRun, SendAbort, TypeOK
  <1>3. ASSUME NEW r \in Req, NEW c \in Ckpt, NEW s \in Shard, UploadShard(r, c, s)
        PROVE ObjectsKept'
    BY <1>3 DEF UploadShard, TypeOK
  <1>4. ASSUME NEW r \in Req, CommitRun(r) PROVE ObjectsKept'
    BY <1>4 DEF CommitRun, TypeOK, InState
  <1>5. ASSUME NEW r \in Req, ShardUploaded(r) PROVE ObjectsKept'
    BY <1>5 DEF ShardUploaded, TypeOK
  <1>6. ASSUME NEW r \in Req, CheckpointCommitted(r) PROVE ObjectsKept'
    BY <1>6 DEF CheckpointCommitted, TypeOK
  <1>7. ASSUME NEW r \in Req, CallFailed(r) PROVE ObjectsKept'
    BY <1>7 DEF CallFailed, MarkFailed, TypeOK
  <1>8. ASSUME NEW r \in Req, AbortAnswered(r) PROVE ObjectsKept'
    BY <1>8 DEF AbortAnswered, TypeOK
  <1>9. ASSUME NEW op \in rpcs, StoreShard(op) PROVE ObjectsKept'
    BY <1>9 DEF StoreShard, Replace, TypeOK
  <1>10. ASSUME NEW op \in rpcs, ListShards(op) PROVE ObjectsKept'
    BY <1>10 DEF ListShards, Replace, TypeOK
  <1>11. ASSUME NEW op \in rpcs, NEW s \in Shard, DeleteShard(op, s) PROVE ObjectsKept'
    BY <1>11 DEF DeleteShard, Replace, TypeOK
  <1>12. ASSUME NEW op \in rpcs, CheckManifest(op) PROVE ObjectsKept'
    BY <1>12 DEF CheckManifest, Replace, TypeOK
  <1>13. ASSUME NEW op \in rpcs, PutManifest(op) PROVE ObjectsKept'
    BY <1>13 DEF PutManifest, Replace, TypeOK
  <1>14. ASSUME NEW op \in rpcs, RpcReply(op) PROVE ObjectsKept'
    <2>1. op.req # NoReq /\ req[op.req].pc = "write" =>
            op.kind = "write_fin" /\ op.c = req[op.req].c /\ op.objs = req[op.req].objs
      BY <1>14 DEF RpcReply, CallsHaveOwners, AwaitedBy
    <2> QED
      BY <1>14, <2>1 DEF RpcReply, Answer, TypeOK
  <1>15. ASSUME NEW op \in rpcs, RpcFail(op) PROVE ObjectsKept'
    BY <1>15 DEF RpcFail, Answer, TypeOK
  <1>16. ASSUME NEW r \in Req, ConnectionLost(r) PROVE ObjectsKept'
    BY <1>16 DEF ConnectionLost, Detach, TypeOK
  <1>17. CASE Restart
    BY <1>17 DEF Restart, TypeOK
  <1>18. CASE UNCHANGED vars
    BY <1>18 DEF vars
  <1> QED
    BY <1>1, <1>2, <1>3, <1>4, <1>5, <1>6, <1>7, <1>8, <1>9, <1>10, <1>11, <1>12, <1>13,
       <1>14, <1>15, <1>16, <1>17, <1>18
    DEF Next, QuietStep, LoopStep, HandlerStep, ClientCall, Progress, Fault, DataPlaneStep

\* The empty store has no run that points at a checkpoint.
LEMMA RecordsInit == Init => LastIsRecorded /\ TodoIsPending
  BY DEF Init, LastIsRecorded, LastCheckpointExists, TodoIsPending, IdleLoop, LoopAt

\* Every other step leaves the segment alone or ends it, and rewrites records
\* without deleting any.
LEMMA BusySteps ==
  ASSUME TypeOK, WellFormed, [Next]_vars, ~QuietStep
  PROVE  /\ lastCkpt' = lastCkpt
         /\ InState({"NONE"})' \subseteq InState({"NONE"})
         /\ \/ loop' = loop /\ (loop.pc = "idle" \/ ckptState' = ckptState)
            \/ loop'.pc \in {"idle", "commit_run", "abort_run"}
  <1> USE DEF LoopAt, IdleLoop, LoopIdle, IdleReq, kv, records, memory, storage, InState
  <1>1. CASE AbortRun
    BY <1>1 DEF AbortRun, SendAbort
  <1>2. CASE ClientCall
    BY <1>2 DEF ClientCall, UploadShard, CommitRun
  <1>3. ASSUME NEW r \in Req, ShardUploaded(r) \/ AbortAnswered(r)
        PROVE  /\ lastCkpt' = lastCkpt /\ loop' = loop /\ loop.pc = "idle"
               /\ \A c \in Ckpt : ckptState'[c] = "NONE" => ckptState[c] = "NONE"
    BY <1>3 DEF ShardUploaded, AbortAnswered, TypeOK
  <1>4. ASSUME NEW r \in Req, CheckpointCommitted(r)
        PROVE  /\ lastCkpt' = lastCkpt /\ loop'.pc \in {"idle", "commit_run"}
               /\ \A c \in Ckpt : ckptState'[c] = "NONE" => ckptState[c] = "NONE"
    BY <1>4 DEF CheckpointCommitted, TypeOK
  <1>5. ASSUME NEW r \in Req, CallFailed(r)
        PROVE  /\ lastCkpt' = lastCkpt /\ loop'.pc \in {"idle", "abort_run"}
               /\ \A c \in Ckpt : ckptState'[c] = "NONE" => ckptState[c] = "NONE"
    BY <1>5 DEF CallFailed, MarkFailed, TypeOK
  <1>6. ASSUME NEW op \in rpcs, DataPlaneStep(op) \/ RpcFail(op)
        PROVE  UNCHANGED <<lastCkpt, ckptState, loop>>
    BY <1>6 DEF DataPlaneStep, StoreShard, CheckManifest, PutManifest, ListShards, DeleteShard,
                RpcReply, RpcFail, Answer
  <1>7. ASSUME NEW r \in Req, ConnectionLost(r)
        PROVE  UNCHANGED <<lastCkpt, ckptState, loop>>
    BY <1>7 DEF ConnectionLost
  <1>8. CASE Restart
    BY <1>8 DEF Restart
  <1>9. CASE UNCHANGED vars
    BY <1>9 DEF vars
  <1> QED
    BY <1>1, <1>2, <1>3, <1>4, <1>5, <1>6, <1>7, <1>8, <1>9
    DEF Next, QuietStep, LoopStep, HandlerStep, Progress, Fault

\* create_checkpoint writes the record before the run refers to it, and recovery's
\* list of unfinished checkpoints stays accurate while the loop is not yielded.
LEMMA RecordsNext ==
  Typing /\ LastIsRecorded /\ TodoIsPending /\ [Next]_vars => (LastIsRecorded /\ TodoIsPending)'
  <1> SUFFICES ASSUME TypeOK, WellFormed, LastIsRecorded, TodoIsPending, [Next]_vars
               PROVE  LastIsRecorded' /\ TodoIsPending'
    BY DEF Typing
  <1> USE CkptAssumption
      DEF LoopAt, IdleLoop, LoopIdle, NoCkpt, kv, records, storage, InState,
          LastIsRecorded, LastCheckpointExists, TodoIsPending
  <1>1. CASE Endpoint
    <2>1. UNCHANGED <<lastCkpt, ckptState>>
      BY <1>1 DEF Endpoint, CreateRun, StartRun, CancelRun, CompleteRun, FailRun, ResumeRun,
                  RunEndpoint, RejectedTransition, TriggerCheckpoint, WorkerFailure
    <2>2. \/ loop'.pc \notin {"set_last_checkpoint", "abort_pending"}
          \/ loop' = LoopAt("abort_pending", NoReq, NoCkpt, InState({"PENDING", "IN_PROGRESS"}))
      BY <1>1 DEF Endpoint, CreateRun, StartRun, CancelRun, CompleteRun, FailRun, ResumeRun,
                  RunEndpoint, RejectedTransition, TriggerCheckpoint, WorkerFailure, TransitionRun
    <2> QED
      BY <2>1, <2>2
  <1>2. CASE CreateCheckpoint
    BY <1>2 DEF CreateCheckpoint, TypeOK
  <1>3. CASE SetLastCheckpoint
    BY <1>3 DEF SetLastCheckpoint
  <1>4. CASE CommitTransition \/ AttemptRecovery
    BY <1>4 DEF CommitTransition, TransitionRun, AttemptRecovery
  <1>5. CASE AbortPending
    BY <1>5 DEF AbortPending, MarkFailed, TypeOK
  <1>6. CASE ~QuietStep
    BY <1>6, BusySteps DEF TypeOK
  <1> QED
    BY <1>1, <1>2, <1>3, <1>4, <1>5, <1>6 DEF QuietStep

-----------------------------------------------------------------------------
(* The safety properties, for every value of the constants *)

\* Every reachable state of the protocol is well typed and well formed: between any
\* two awaits, writes and data-plane steps of the handlers of rest.py.
THEOREM TypeCorrect == Spec => []Typing
  BY TypingInit, TypingNext, PTL DEF Spec

\* The type invariant by itself: what the handlers keep in the store, in the memory of
\* the control plane and in the object store stays within its types.
THEOREM TypesHold == Spec => []TypeOK
  <1>1. Typing => TypeOK
    BY DEF Typing
  <1> QED
    BY <1>1, TypeCorrect, PTL

\* The inductive invariant holds for any number of checkpoints, shards, concurrent
\* requests and faults, with any of the fault switches on.
THEOREM Inductive == Spec => []InductiveInv
  <1>1. Init => InductiveInv
    BY TypingInit, OwnersInit, ManifestInit, ObjectsInit, RecordsInit DEF InductiveInv, Typing
  <1>2. Typing /\ Typing' /\ InductiveInv /\ [Next]_vars => InductiveInv'
    BY OwnersNext, ManifestNext, ObjectsNext, RecordsNext DEF InductiveInv, Typing
  <1> QED
    BY <1>1, <1>2, TypeCorrect, PTL DEF Spec

\* A COMMITTED record, and the checkpoint RecoveryManager chose, always have a
\* manifest in the object store.
THEOREM CommitIsDurable == Spec => [](CommittedHasManifest /\ RecoveryTargetHasManifest)
  <1>1. InductiveInv => CommittedHasManifest /\ RecoveryTargetHasManifest
    BY DEF InductiveInv, ManifestKnown
  <1> QED
    BY <1>1, Inductive, PTL

\* The checkpoint RecoveryManager._attempt_recovery chose has a manifest as long as it is
\* the choice, although its record may be rewritten before the workers load it.
THEOREM RecoveryIsDurable == Spec => []RecoveryTargetHasManifest
  <1>1. InductiveInv => RecoveryTargetHasManifest
    BY DEF InductiveInv, ManifestKnown
  <1> QED
    BY <1>1, Inductive, PTL

\* A manifest of a checkpoint that was never marked FAILED names stored shards only:
\* no abort, late upload or second commit takes them away.
THEOREM UnfailedStaysRestorable == Spec => []UnfailedIsRestorable
  <1>1. InductiveInv => UnfailedIsRestorable
    BY DEF InductiveInv, ObjectsKept
  <1> QED
    BY <1>1, Inductive, PTL

\* RunStatus.last_checkpoint_id always names a checkpoint with a record.
THEOREM LastNeverDangles == Spec => []LastCheckpointExists
  <1>1. InductiveInv => LastCheckpointExists
    BY DEF InductiveInv, LastIsRecorded
  <1> QED
    BY <1>1, Inductive, PTL

\* One step does not rewrite a COMMITTED record unless an upload_shard or commit_run
\* handler of the same checkpoint is in flight.
LEMMA CommittedStep ==
  ASSUME TypeOK, TodoIsPending, [Next]_vars,
         NEW c \in Ckpt, ckptState[c] = "COMMITTED", ~InFlight(c)
  PROVE  ckptState'[c] = "COMMITTED"
  <1> USE DEF kv, records, memory, storage
  <1>1. CASE Endpoint
    BY <1>1 DEF Endpoint, CreateRun, StartRun, CancelRun, CompleteRun, FailRun, ResumeRun,
                RunEndpoint, RejectedTransition, TriggerCheckpoint, WorkerFailure
  <1>2. CASE CreateCheckpoint
    BY <1>2 DEF CreateCheckpoint, InState, TypeOK
  <1>3. CASE SetLastCheckpoint \/ CommitTransition \/ AbortRun \/ AttemptRecovery
    BY <1>3 DEF SetLastCheckpoint, CommitTransition, AbortRun, AttemptRecovery
  <1>4. CASE AbortPending
    BY <1>4 DEF AbortPending, MarkFailed, TodoIsPending, InState, TypeOK
  <1>5. ASSUME NEW r \in Req, HandlerStep(r) PROVE ckptState'[c] = "COMMITTED"
    <2>1. req[r].pc \in {"write", "commit"} => req[r].c # c
      BY DEF InFlight
    <2> QED
      BY <1>5, <2>1 DEF HandlerStep, ShardUploaded, CheckpointCommitted, CallFailed, MarkFailed,
                        AbortAnswered, TypeOK
  <1>6. CASE ClientCall
    BY <1>6 DEF ClientCall, UploadShard, CommitRun
  <1>7. ASSUME NEW op \in rpcs, DataPlaneStep(op) \/ RpcFail(op) PROVE ckptState' = ckptState
    BY <1>7 DEF DataPlaneStep, StoreShard, CheckManifest, PutManifest, ListShards, DeleteShard,
                RpcReply, RpcFail, Answer
  <1>8. CASE Restart \/ \E r \in Req : ConnectionLost(r)
    BY <1>8 DEF Restart, ConnectionLost
  <1>9. CASE UNCHANGED vars
    BY <1>9 DEF vars
  <1> QED
    BY <1>1, <1>2, <1>3, <1>4, <1>5, <1>6, <1>7, <1>8, <1>9
    DEF Next, LoopStep, Progress, Fault

\* A COMMITTED record with no upload or commit of its own in flight stays COMMITTED,
\* through recoveries, restarts and work on other checkpoints.
THEOREM CommittedStable == Spec => CommittedIsStable
  <1>1. TypeOK /\ TodoIsPending /\ [Next]_vars
        => [\A c \in Ckpt : ckptState[c] = "COMMITTED" /\ ~InFlight(c)
                               => ckptState'[c] = "COMMITTED"]_vars
    BY CommittedStep
  <1>2. InductiveInv => TodoIsPending
    BY DEF InductiveInv
  <1>3. Typing => TypeOK
    BY DEF Typing
  <1> QED
    BY <1>1, <1>2, <1>3, TypeCorrect, Inductive, PTL DEF Spec, CommittedIsStable

-----------------------------------------------------------------------------
(* Refinement of RunLifecycle, when no write to the store raises *)

\* If no store write raises, transition_run moves the state machine and the record
\* together, along an edge of VALID_TRANSITIONS.
LEMMA FsmStep ==
  ASSUME ~KVFaults, Typing, FsmMatchesStore, [Next]_vars
  PROVE  FsmMatchesStore' /\ [RL!Next]_runState
  <1> USE DEF kv, records, memory, storage, LoopIdle, FsmMatchesStore
  <1>1. ASSUME NEW target \in RL!RunStates, NEW then, runState # RL!NoRun,
               TransitionRun(target, then)
        PROVE  FsmMatchesStore' /\ RL!Next
    BY <1>1 DEF TransitionRun, CanTransition, EnsureFsm, Typing, TypeOK, RL!Next, RL!Transition
  <1>2. ASSUME NEW target \in RL!RunStates, RunEndpoint(target)
        PROVE  FsmMatchesStore' /\ RL!Next
    BY <1>1, <1>2 DEF RunEndpoint
  <1>3. CASE CreateRun
    BY <1>3 DEF CreateRun, RL!Next, RL!Create
  <1>4. CASE RejectedTransition
    BY <1>4 DEF RejectedTransition, EnsureFsm
  <1>5. CASE TriggerCheckpoint
    BY <1>1, <1>5 DEF TriggerCheckpoint, RL!RunStates
  <1>6. CASE WorkerFailure
    BY <1>1, <1>6 DEF WorkerFailure, RL!RunStates, RL!NoRun
  <1>7. ASSUME loop.pc # "idle" PROVE runState # RL!NoRun
    BY <1>7 DEF Typing, WellFormed
  <1>8. CASE CommitTransition
    BY <1>1, <1>7, <1>8 DEF CommitTransition, EnsureFsm, RL!RunStates
  <1>9. CASE AbortRun
    BY <1>7, <1>9 DEF AbortRun, CanTransition, EnsureFsm, Typing, TypeOK,
                      RL!Next, RL!Transition, RL!RunStates
  <1>10. CASE AttemptRecovery
    BY <1>7, <1>10 DEF AttemptRecovery, CanTransition, EnsureFsm, Typing, TypeOK,
                       RL!Next, RL!Transition, RL!RunStates
  <1>11. CASE CreateCheckpoint \/ SetLastCheckpoint \/ AbortPending
    BY <1>11 DEF CreateCheckpoint, SetLastCheckpoint, AbortPending
  <1>12. ASSUME NEW r \in Req, HandlerStep(r) PROVE UNCHANGED <<runState, fsm>>
    BY <1>12 DEF HandlerStep, ShardUploaded, CheckpointCommitted, CallFailed, AbortAnswered
  <1>13. CASE ClientCall
    BY <1>13 DEF ClientCall, UploadShard, CommitRun
  <1>14. ASSUME NEW op \in rpcs, DataPlaneStep(op) \/ RpcFail(op)
         PROVE UNCHANGED <<runState, fsm>>
    BY <1>14 DEF DataPlaneStep, StoreShard, CheckManifest, PutManifest, ListShards, DeleteShard,
                 RpcReply, RpcFail, Answer
  <1>15. CASE Restart \/ \E r \in Req : ConnectionLost(r)
    BY <1>15 DEF Restart, ConnectionLost
  <1>16. CASE UNCHANGED vars
    BY <1>16 DEF vars
  <1> QED
    BY <1>2, <1>3, <1>4, <1>5, <1>6, <1>8, <1>9, <1>10, <1>11, <1>12, <1>13, <1>14, <1>15, <1>16
    DEF Next, Endpoint, LoopStep, Progress, Fault, StartRun, CancelRun, CompleteRun, FailRun,
        ResumeRun, RL!RunStates

\* If no store write raises, Coordinator._fsms agrees with the stored run state.
THEOREM FsmFollowsStore == ASSUME ~KVFaults PROVE Spec => []FsmMatchesStore
  <1>1. Init => FsmMatchesStore
    BY DEF Init, FsmMatchesStore
  <1>2. Typing /\ FsmMatchesStore /\ [Next]_vars => FsmMatchesStore'
    BY FsmStep
  <1> QED
    BY <1>1, <1>2, TypeCorrect, PTL DEF Spec

\* If no store write raises, the stored run state is a run of RunLifecycle: the
\* handlers, recovery and restarts together implement the abstract state machine.
THEOREM ImplementsLifecycle == ASSUME ~KVFaults PROVE Spec => FollowsLifecycle
  <1>1. Init => RL!Init
    BY DEF Init, RL!Init
  <1>2. Typing /\ FsmMatchesStore /\ [Next]_vars => [RL!Next]_runState
    BY FsmStep
  <1> QED
    BY <1>1, <1>2, TypeCorrect, FsmFollowsStore, PTL DEF Spec, FollowsLifecycle, RL!Spec
=============================================================================
