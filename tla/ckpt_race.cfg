SPECIFICATION MCSpec
CONSTANTS
  Ckpt = {1}
  Shard = {s1, s2}
  Req = {r1, r2}
  NoReq = NoReq
  MaxStep = 0
  AutoRecover = TRUE
  DPFaults = TRUE
  KVFaults = FALSE
  Crashes = TRUE
  MaxCalls = 4
  MaxFaults = 2
SYMMETRY Interchangeable
INVARIANT TypeOK
INVARIANT CommittedHasManifest
INVARIANT UnfailedIsRestorable
PROPERTY CommittedIsStable
