SPECIFICATION Spec
CONSTANTS
  State = {s1}
  BatchHead = {h1, h2}
  Atom = {1}
  Fmt = {f, g}
  Arm = {plain}
  MaxCalls = 3
  None = None
CHECK_DEADLOCK FALSE
INVARIANT OneScratch
