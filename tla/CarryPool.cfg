SPECIFICATION Spec
CONSTANTS
  Warps = 2
  Slots = 2
  Windows = 3
  MaxChunks = 4
  Wrap = 4
INVARIANTS NoTornChunk
PROPERTIES EveryWindowEnds
CHECK_DEADLOCK FALSE
