\* Windows of two rows served twice, in slices of one or of two; any column
\* may be changed, left out or cut.
SPECIFICATION Spec
CONSTANTS
  Tokens = {"s", "t", "u"}
  Logps = {"l", "m"}
  Advantage = {0, 1}
  None = None
  Short = Short
  WindowSize = 2
  SliceSizes = {1, 2}
  Iterations = 2
  Accumulate = 2
INVARIANTS TypeOK NeverUsedTwice NothingBlind BatchRecorded HonestAccepted
