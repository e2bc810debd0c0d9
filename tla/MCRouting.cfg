SPECIFICATION BundleSpec
CONSTANTS
  Routings <- MCRoutings
  GainColumns = {0, 1}
  MaxBatchedLevels = 2
  TokBits = 2
  AtomLeaves = 4
  BoxLeaves = 4
  LevelWidths = {2, 4}
  Draws <- MCDraws
  Window = 4
  CarryTile = 2
  IntraTile = 2
  Slab = 2
  RegionLeaves = 8
  IntraWidth <- MCIntraWidth
  Calls <- MCCalls
  Batches = 2
  Heads = 3
  TokenCounts = {1, 2}
  Sources <- MCSources
  Foreigners <- MCForeigners
  Unset = Unset
INVARIANT SolvedIsTheTorchForm
INVARIANT ColumnsLearnOnce
INVARIANT ActivityIsExact
INVARIANT OperatorIsRecurrence
INVARIANT MassIsCountedOnce
