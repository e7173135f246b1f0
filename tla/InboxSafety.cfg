SPECIFICATION Spec
CONSTANTS
  Absent = Absent
  None = None
  MaxQuantity = 2
  Sessions <- SafetySessions
CHECK_DEADLOCK FALSE
INVARIANT AppliedOnce
INVARIANT HistoryMatchesStock
INVARIANT ToldTheTruth
INVARIANT NoScanLost
INVARIANT ServedInOrder
PROPERTY ChangesAccountedFor
