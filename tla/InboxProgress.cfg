SPECIFICATION FairSpec
CONSTANTS
  Absent = Absent
  None = None
  MaxQuantity = 1
  Sessions <- ProgressSessions
CHECK_DEADLOCK FALSE
INVARIANT AcknowledgedWasShown
PROPERTY EveryScanServed
