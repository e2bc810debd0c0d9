SPECIFICATION Spec
CONSTANTS
  Warps = 2
  Windows = 3
  MaxTiles = 3
INVARIANTS ReadsAreCurrent TilesReadOnce SnapshotCoversLater
PROPERTIES EveryWindowEnds
CHECK_DEADLOCK FALSE
