CONSTANTS
  None = None
  MaxInt = 2
  GraphSet <- Functions
  Inputs <- MCInputs
SPECIFICATION Spec
CHECK_DEADLOCK FALSE
INVARIANT RangesSound
INVARIANT DeadBlocksNotRun
INVARIANT FoldingSound
PROPERTY FailuresExplained
