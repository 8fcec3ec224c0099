SPECIFICATION MCFairSpec
CONSTANTS
  Worker = {w1, w2}
  NoWorker = NoWorker
  MaxRank = 1
  NumWorkers = 2
  AutoRestart = TRUE
  Crashes = TRUE
  MaxFaults = 1
PROPERTY RecoveryIsRetried
PROPERTY SilenceIsNoticed
