CONSTANTS
  b1 = b1
  b2 = b2
  Blocks <- MCBlocks
  Sessions <- MCSplitSession
  Channels = 2
  BATCH_THRESHOLD = 4
  MAX_PENDING_TILE_EVENTS = 2
SPECIFICATION Spec
INVARIANTS
  DataAvailable
