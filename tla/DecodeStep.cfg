SPECIFICATION MCSpec
CONSTANTS
  Head = {h1, h2}
  NSplit = 2
  UnitBlock = 1
  Atoms = 2
  MaxUnits = 2
  PoolCap = 1
  Tokens = 1
  Widths <- MCWidths
  DigitSets = {{}, {0}, {1}, {0, 1}, {0, 3}, {0, 1, 2, 3}, {0, 2, 5}, {1, 4, 5, 7}}
  Splits = {1, 2, 3}
  AtomShift = 1
  LatticeCap = 4
  MaxSpan = 4
  MaxSpanK = 2
  UnitBlockBits = 1
  UnitRepeats = 2
SYMMETRY HeadSymmetry
INVARIANTS SiblingsAgree OutputComplete RoundSettled WalkIsTheSupport ClaimsAscend
PROPERTIES ImplementsOnce
CHECK_DEADLOCK FALSE
