CONSTANTS
  NumBufs = 2
  StagingSize = 4
  SORT_SMALL = 2
  KEY_RANGE = 8
  STAGING_THRESHOLD = 1
  PIPELINE_MIN_ENTRIES = 3
  PIPELINE_CHUNKS = 3
  Channels = 2
  Batches <- MCOneRun
  CallLists <- MCCalls
  MaxBatches = 3
  MaxCalls = 1
SPECIFICATION Spec
INVARIANTS
  TypeOK
  BufferKeptForDma
  DoneMeansCopied
  CopiesMoveEntries
PROPERTIES
  EveryBatchPublished
