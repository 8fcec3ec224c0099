SPECIFICATION Spec
CONSTANTS
  Visits <- AllVisits
  r1 = r1
  r2 = r2
  s1 = s1
  s2 = s2
  w1 = w1
  w2 = w2
  None = None
  Failed = Failed
  NotOk = NotOk
  Rejected = Rejected
  TickStep = 5
  LogEvery = 25
  SaveEvery = 50
  TimelineCap = 4
  LogCap = 5
  MaxStep = 160
  MaxQueued = 2
  MaxElapsed = 1
  Starts <- SomeStarts
  Workers <- SomeWorkers
  Paths <- SomePaths
  Height <- Heights
  Runs <- SomeRuns
  Slots <- SomeSlots
  Changes <- SomeChanges
  Faults <- SomeFaults
  MaxCkpt = 2
  Hosted = FALSE
  MaxMoves = 2
  MaxClicks = 4
SYMMETRY Interchangeable
CHECK_DEADLOCK FALSE
INVARIANTS
  TypeOK ActsOnWhatItShows  NothingMissing RecoversFromASave
PROPERTIES
   NeverGoesBack KeepsItsPlace
