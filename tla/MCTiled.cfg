CONSTANTS
  b1 = b1
  b2 = b2
  Blocks <- MCBlocks
  Sessions <- MCSessions
  Channels = 2
  BATCH_THRESHOLD = 2
  MAX_PENDING_TILE_EVENTS = 2
SPECIFICATION Spec
INVARIANTS
  TypeOK
  DataAvailableUnsplit
  DoneIdxLanded
  OneChunkPerBatch
  EachChunkOnce
  CountsOfThisLaunch
  NothingToDrain
PROPERTIES
  EveryLaunchEnds
