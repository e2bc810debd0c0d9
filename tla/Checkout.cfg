\* One invocation at a time, killed at any step, edits between jobs.
SPECIFICATION MCSpec
CONSTANTS
  Src = {a, b}
  Arch = {sm80, sm86}
  Proc = {p1}
  Jobs = {"install", "strict", "stub", "subset", "wheel", "write", "write one", "check", "self-test", "derive"}
  MaxJobs = 3
  MaxEdits = 2
  Quiet = TRUE
  None = None
  Rows = {1, 2, 3}
  Declarations <- MCDeclarations
  Builder = {b1, b2}
  MaxBuilds = 3
  MaxDeclared = 1
  Settled = TRUE
  Nothing = Nothing
  Spans <- MCSpans
  Exists = Exists
  Gone = Gone
  ReadsAs <- MCReadsAs
  Files = {f, g}
  Messages = {m}
  MaxCount = 2
  Envs = {1, 2}
  MaxChanges = 3
INVARIANT PassedGateIsTrue
INVARIANT FiledIsMeasured
INVARIANT WheelIsItsCommit
CHECK_DEADLOCK FALSE
INVARIANT BinaryIsItsSelection
INVARIANT ClosedIsRead
PROPERTY BacklogsShrink
PROPERTY NoCommitUnchecked
