SPECIFICATION MCSpec
CONSTANTS
  Ckpt = {1}
  Shard = {s1, s2}
  Req = {r1, r2}
  NoReq = NoReq
  MaxStep = 0
  AutoRecover = TRUE
  DPFaults = TRUE
  KVFaults = TRUE
  Crashes = TRUE
  MaxCalls = 3
  MaxFaults = 1
SYMMETRY Interchangeable
INVARIANT InductiveInv
