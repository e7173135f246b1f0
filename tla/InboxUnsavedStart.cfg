SPECIFICATION Spec
CONSTANTS
  Absent = Absent
  None = None
  MaxQuantity = 2
  Sessions <- UnsavedSessions
CHECK_DEADLOCK FALSE
INVARIANT HistoryMatchesStock
