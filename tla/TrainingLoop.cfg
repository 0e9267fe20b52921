\* Three steps, three deaths, redone steps that differ from the first try.
SPECIFICATION FairSpec
CONSTANTS
  N = 3
  Delta = {0, 1}
  NoEvent = NoEvent  Absent = Absent  Partial = Partial
  TornWrites = TRUE
  MaxCrashes = 3
INVARIANTS StepInv PlanIsLoadable WalCommittedIsPromoted RolloutFromCurrentPolicy LagBounded
PROPERTIES ImplementsLineage CompletesUnlessWedged
