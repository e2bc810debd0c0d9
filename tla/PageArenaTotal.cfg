SPECIFICATION Spec
CONSTANTS
  BH = 1
  AtomsPerBH = 4
  ExtentAtoms = 2
  PoolCapacity = 0
  Vmm = FALSE
  ResetAfterClaims = FALSE
  MaxDeposits = 1
INVARIANT
  AdmissionAlwaysServed
