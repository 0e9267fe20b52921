CONSTANTS
  None = None
  Drivers <- MCDrivers
  MaxCases = 4
  MaxFrozen = 2
  MaxDeaths = 1
SPECIFICATION MatrixSpec
INVARIANTS ExpectedDecision ReplayAgrees
PROPERTY NoOverwrite
CHECK_DEADLOCK FALSE
