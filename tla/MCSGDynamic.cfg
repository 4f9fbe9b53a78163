CONSTANTS
  b1 = b1
  b2 = b2
  Blocks <- MCOneBlock
  MAX_SG_LISTS = 3
  MAX_SG_POOL_ENTRIES = 6
  Counts <- MCCounts
  Channels = 2
  BATCH_THRESHOLD = 4
  WORD = 64
  MaxLists = 2
  Sessions <- MCOneSession
SPECIFICATION DynamicSpec
PROPERTIES
  SubmitterGetsRoom
CHECK_DEADLOCK FALSE
