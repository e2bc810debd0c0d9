SPECIFICATION MCSpec
CONSTANTS
  Atoms = 2
  MaxCalls = 4
  Arms <- MCArms
  Samples = {{0, 3}, {0, 7}, {6, 7}}
  PageBytes = 3
  Granularity = 4
  DenseLimit = 13
  TargetChunkBytes = 4
  MaxViews = 2
INVARIANTS LaunchReadsDense OperandsAreCurrent CountedIsMapped GrowthCanBeUndone
PROPERTIES NothingTakenFromUse
CHECK_DEADLOCK FALSE
