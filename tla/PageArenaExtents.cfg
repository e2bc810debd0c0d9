SPECIFICATION Spec
CONSTANTS
  BH = 1
  AtomsPerBH = 4
  ExtentAtoms = 2
  PoolCapacity = 1
  Vmm = TRUE
  ResetAfterClaims = FALSE
  MaxDeposits = 1
INVARIANT
  SparseIsServed
