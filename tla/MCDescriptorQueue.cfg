CONSTANTS
  b1 = b1
  b2 = b2
  Blocks <- MCBlocks
  QUEUE_SIZE = 5
  C = 2
  MaxWriteIdx = 8
SPECIFICATION FairSpec
INVARIANTS
  TypeOK
  DeliveredIntact
  NoCommitLost
  NoSharedEntry
  IndInv
PROPERTIES
  ImplementsSlotQueue
  EverySlotConsumed
