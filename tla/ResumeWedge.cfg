\* Restarting a trainer that died between the commit event and the end of its step.
SPECIFICATION FairSpec
CONSTANTS
  N = 2
  Delta = {0, 1}
  NoEvent = NoEvent  Absent = Absent  Partial = Partial
  TornWrites = FALSE
  MaxCrashes = 1
PROPERTIES EventuallyFinished
