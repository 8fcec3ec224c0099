SPECIFICATION MCSpec
CONSTANTS
  Worker = {w1, w2, w3}
  NoWorker = NoWorker
  MaxRank = 1
  NumWorkers = 2
  AutoRestart = TRUE
  Crashes = TRUE
  MaxFaults = 2
SYMMETRY Interchangeable
INVARIANT TypeOK
INVARIANT OneActivePerRank
INVARIANT ActiveIsWatched
INVARIANT OneRestartAtATime
INVARIANT WorkerInv
PROPERTY RetiredStaysRetired
