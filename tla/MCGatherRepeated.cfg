CONSTANTS
  poller = poller
  direct = direct
  Threads <- MCThreads
  NumWorkers = 2
  Counts <- MCCounts
  MaxGathers = 3
SPECIFICATION Spec
INVARIANTS
  TypeOK
  GatherComplete
  NoStrayWorker
SYMMETRY MCSymmetry
