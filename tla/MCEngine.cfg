SPECIFICATION Spec
CONSTANTS
  State = {s1, s2}
  BatchHead = {h1, h2}
  Atom = {1}
  Fmt = {f, g}
  Arm = {decay, plain}
  MaxCalls = 3
  None = None
SYMMETRY Symmetry
CHECK_DEADLOCK FALSE
INVARIANT PlanIsOneBacking
INVARIANT RunTableCovers
INVARIANT ReturnedIsAbsorbed
PROPERTY ImplementsLog
PROPERTY BindingIsForGood
