SPECIFICATION FairSpec
CONSTANTS
  MULTIPART_PART_SIZE = 1
  ChannelSize = 1
  ChunkSizes = {1}
  MaxBytes = 1
  MaxChunks = 1
  MaxFaults = 0
  MaxResets = 1
  Calls = {a, b}
  max_depth = 1
  Error = Error
  None = None
  Due = Due
CHECK_DEADLOCK FALSE
PROPERTY LaterThereIsRoom
