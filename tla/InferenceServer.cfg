\* Runs of up to three steps, killed, failed, resumed and started afresh.
CONSTANTS
  N = 3
  Reloads = 5
  Natural = 1
  Shift = 2
  None = None
  Mixed = Mixed
  MaxUpdates = 4
  MaxKills = 2
SPECIFICATION Spec
INVARIANTS GenerationUnderPolicy CalibratedOnBase LoadEpochAgrees
