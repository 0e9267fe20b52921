\* Three processes put the same bytes, at the same time or in turn; two deaths.
SPECIFICATION FairSpec
CONSTANTS
  p1 = p1  p2 = p2  p3 = p3
  Process = {p1, p2, p3}
  Inode <- Inodes
  None = None
  MaxDeaths = 2
INVARIANTS PublishedIsWhole PutNeverRaises SettledIsReadable
PROPERTIES EventuallyStored
