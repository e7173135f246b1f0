SPECIFICATION FairSpec
CONSTANTS
  MaxUpdates = 3
  MaxFaults = 3
  MaxKills = 3
  Unguarded = FALSE
CHECK_DEADLOCK FALSE
INVARIANT CancelHonoured
INVARIANT ResultIsTrue
INVARIANT FolderIsUsed
PROPERTY ComesBack
