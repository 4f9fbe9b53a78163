CONSTANTS
  poller = poller
  direct = direct
  Threads <- MCOneThread
  NumWorkers = 1
  Counts <- MCTwo
  MaxGathers = 2
SPECIFICATION Spec
PROPERTIES
  EveryGatherReturns
