CONSTANTS
  None = None
  Layouts <- MCLayouts
  Spans <- MCSpans
  Protocols <- MCProtocols
  MaxFaults = 2
SPECIFICATION Spec
INVARIANTS AllowedIsAligned AllowedIsOnPolicy RaiseIsBadMask HonestAllowed
CHECK_DEADLOCK FALSE
