CONSTANTS
  Tiles = 4
  K = 2
SPECIFICATION Spec
INVARIANTS
  TypeOK
  ChunkArrived
  ComputedOnce
  SlotStable
PROPERTIES
  BlockEnds
