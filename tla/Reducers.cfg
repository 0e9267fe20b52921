\* Every log of four events of two attempts, for either reducer.
SPECIFICATION Spec
CONSTANTS
  Attempt = {1, 2}
  Value = {1, 2}
  None = None
  MaxLog = 4
CHECK_DEADLOCK FALSE
INVARIANTS ReducesNewestAttempt ConflictIsOfTypes
PROPERTIES DecisionIsFinal
