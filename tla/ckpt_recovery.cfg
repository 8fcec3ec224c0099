SPECIFICATION MCSpec
CONSTANTS
  Ckpt = {1, 2}
  Shard = {s1}
  Req = {r1, r2}
  NoReq = NoReq
  MaxStep = 1
  AutoRecover = TRUE
  DPFaults = TRUE
  KVFaults = FALSE
  Crashes = TRUE
  MaxCalls = 3
  MaxFaults = 1
SYMMETRY Interchangeable
 
INVARIANT RecoveryTargetHasManifest
INVARIANT FsmMatchesStore
PROPERTY FollowsLifecycle
