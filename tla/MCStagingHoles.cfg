CONSTANTS
  NumBufs = 2
  StagingSize = 4
  SORT_SMALL = 2
  KEY_RANGE = 8
  STAGING_THRESHOLD = 1
  PIPELINE_MIN_ENTRIES = 3
  PIPELINE_CHUNKS = 3
  Channels = 2
  Batches <- MCBatches
  CallLists <- MCCalls
  MaxBatches = 4
  MaxCalls = 0
SPECIFICATION Spec
INVARIANTS
  BufferKeptForDma
