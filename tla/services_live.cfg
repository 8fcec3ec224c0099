SPECIFICATION FairSpec
CONSTANTS
  Watched = {"events", "logs", "pane", "watchers", "safety net", "timeouts", "listing", "passes", "stream"}
  None = None
  Error = Error
  Due = Due
  r1 = r1
  r2 = r2
  c1 = c1
  c2 = c2
  c3 = c3
  w0 = w0
  w1 = w1
  a = a
  b = b
  Run = {r1, r2}
  Conn = {c1, c2, c3}
  QueueMax = 1
  MAX_EVENTS = 2
  MaxEvents = 2
  MaxBreaks = 1
  Worker = {w0, w1}
  Rank0 = w0
  MaxStep = 4
  CkptEvery = 2
  TailLines = 3
  MAX_LOSS = 2
  MAX_CKPT = 1
  MAX_RESTORE = 1
  MaxCrashes = 1
  MAX_LINES = 5
  View = 2
  Near = 2
  MaxMessages = 6
  MaxScrolls = 2
  Tab = {a, b}
  StaleAfter = 3
  MAX_FEED = 2
  MAX_LISTED = 1
  MaxFlight = 2
  MaxLost = 1
  MaxMoves = 3
  RestartAlways = TRUE
  MaxKills = 4
  Keys <- Files
  MaxKeys = 3
  MaxClicks = 3
  MaxWrites = 2
  Ckpt = {c1, c2, c3}
  Owner <- Owners
  keep_committed_per_run = 1
  keep_runs = 1
  orphan_grace = 4
  UploadTime = 2
  ListTime = 2
  Batch = 2
  MaxTime = 8
  LastWrite = 3
  MaxFaults = 1
  Calls = {a}
  max_depth = 1
  MULTIPART_PART_SIZE = 3
  ChannelSize = 2
  ChunkSizes = {0, 1, 2, 4, 7}
  MaxBytes = 8
  MaxChunks = 4
  MaxResets = 1
  MaxByte = 2
  MaxLen = 3
CHECK_DEADLOCK FALSE
PROPERTIES
  EventsArrive PanelsCatchUp StorageIsBounded EveryCallEnds
