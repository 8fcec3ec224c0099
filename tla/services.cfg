SPECIFICATION Spec
CONSTANTS
  Watched = {"events", "parser", "pane", "race", "watchers", "kill", "storage", "one load", "passes", "parts", "two calls", "prefixes"}
  None = None
  Error = Error
  Due = Due
  r1 = r1
  r2 = r2
  c1 = c1
  c2 = c2
  c3 = c3
  w0 = w0
  w1 = w1
  a = a
  b = b
  Run = {r1, r2}
  Conn = {c1, c2, c3}
  QueueMax = 2
  MAX_EVENTS = 2
  MaxEvents = 3
  MaxBreaks = 2
  Worker = {w0, w1}
  Rank0 = w0
  MaxStep = 4
  CkptEvery = 2
  TailLines = 4
  MAX_LOSS = 2
  MAX_CKPT = 2
  MAX_RESTORE = 1
  MaxCrashes = 1
  MAX_LINES = 6
  View = 2
  Near = 2
  MaxMessages = 8
  MaxScrolls = 3
  Tab = {a, b}
  StaleAfter = 3
  MAX_FEED = 1
  MAX_LISTED = 1
  MaxFlight = 2
  MaxLost = 1
  MaxMoves = 3
  RestartAlways = TRUE
  MaxKills = 4
  Keys <- Files
  MaxKeys = 3
  MaxClicks = 3
  MaxWrites = 2
  Ckpt = {c1, c2, c3}
  Owner <- Owners
  keep_committed_per_run = 1
  keep_runs = 1
  orphan_grace = 4
  UploadTime = 2
  ListTime = 2
  Batch = 2
  MaxTime = 8
  LastWrite = 6
  MaxFaults = 1
  Calls = {a}
  max_depth = 1
  MULTIPART_PART_SIZE = 3
  ChannelSize = 2
  ChunkSizes = {0, 1, 2, 4, 7}
  MaxBytes = 8
  MaxChunks = 4
  MaxResets = 1
  MaxByte = 2
  MaxLen = 3
SYMMETRY Interchangeable
CHECK_DEADLOCK FALSE
INVARIANTS
  TypeOK GapsAreExplained    WritesAreWhole RangeIsPrefix
PROPERTIES
  MetadataOutlivesShards
