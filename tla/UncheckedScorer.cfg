CONSTANTS
  None = None
  Layouts <- MCLayouts
  Spans <- MCSpans
  Protocols <- MCProtocols
  MaxFaults = 1
SPECIFICATION Spec
INVARIANT AuthoritativeScorerMatches
CHECK_DEADLOCK FALSE
