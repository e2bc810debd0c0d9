SPECIFICATION Spec
CONSTANTS
  Warps = 2
  Windows = 1
  MaxTiles = 3
INVARIANTS SnapshotCovers
CHECK_DEADLOCK FALSE
