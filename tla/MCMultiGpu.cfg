CONSTANTS
  NumGpus = 3
  MAX_GATHER_WORKERS = 15
  BUFS_PER_SET = 2
  Rounds = 2
  MaxLives = 2
  Programs <- MCPrograms
  Configs <- MCConfigs
  Allocations <- MCAllocations
  PhaseSizes <- MCPhases
SPECIFICATION Spec
INVARIANTS
  BuffersUsable
  BuffersNotShared
  NothingLeaked
  RoundsTogether
  CoresApart
  TunedSessionWorks
PROPERTIES
  BenchmarkEnds
