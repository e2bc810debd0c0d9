SPECIFICATION Spec
CONSTANTS
  BH = 2
  AtomsPerBH = 2
  ExtentAtoms = 2
  PoolCapacity = 1
  Vmm = TRUE
  ResetAfterClaims = FALSE
  MaxDeposits = 2
INVARIANTS
  NoSharedSlot
  NamedSlotsExist
PROPERTIES
  SlotNeverMoves
  WholeWriteSetDeposited
  ImplementsDense
