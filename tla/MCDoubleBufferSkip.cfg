CONSTANTS
  Tiles = 2
  K = 1
SPECIFICATION Spec
INVARIANTS
  NoTileSkipped
