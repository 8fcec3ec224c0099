SPECIFICATION MCSpec
CONSTANTS
  Ckpt = {1}
  Shard = {s1}
  Req = {r1, r2}
  NoReq = NoReq
  MaxStep = 0
  AutoRecover = TRUE
  DPFaults = TRUE
  KVFaults = FALSE
  Crashes = FALSE
  MaxCalls = 2
  MaxFaults = 1
INVARIANT ManifestMeansValid
