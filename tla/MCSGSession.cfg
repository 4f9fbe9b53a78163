CONSTANTS
  b1 = b1
  b2 = b2
  Blocks <- MCBlocks
  MAX_SG_LISTS = 3
  MAX_SG_POOL_ENTRIES = 6
  Counts <- MCCounts
  Channels = 2
  BATCH_THRESHOLD = 4
  WORD = 64
  MaxLists = 2
  Sessions <- MCSessions
SPECIFICATION Spec
INVARIANTS
  TypeOK
  ListDataAvailable
  EntriesIntact
  SynchronizeMeansDone
  CompletedListsSubmitted
SYMMETRY MCSymmetry
CHECK_DEADLOCK FALSE
