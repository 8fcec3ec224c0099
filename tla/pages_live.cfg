SPECIFICATION FairSpec
CONSTANTS
  Visits = {"jumps", "browser", "overlap", "performance", "demo", "shell"}
  r1 = r1
  r2 = r2
  s1 = s1
  s2 = s2
  w1 = w1
  w2 = w2
  None = None
  Failed = Failed
  NotOk = NotOk
  Rejected = Rejected
  TickStep = 5
  LogEvery = 25
  SaveEvery = 50
  TimelineCap = 4
  LogCap = 5
  MaxStep = 160
  MaxQueued = 2
  MaxElapsed = 1
  Starts <- SomeStarts
  Workers <- SomeWorkers
  Paths <- SomePaths
  Height <- Heights
  Runs <- OneRun
  Slots <- TwoSlots
  Changes <- OneChange
  Faults <- FewFaults
  MaxCkpt = 1
  Hosted = TRUE
  MaxMoves = 2
  MaxClicks = 0
CHECK_DEADLOCK FALSE
PROPERTIES
  PagesCatchUp NoVisitIsStuck
