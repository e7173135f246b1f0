SPECIFICATION Spec
CONSTANTS
  Callers = {c1, c2}
  None = None
  Minute = 2
  Day = 5
  MaxWait = 2
  MaxBlock = 4
  MaxAttempts = 2
  MaxStored = 4
  Hints = {1, 5}
  MaxTime = 6
  Sessions <- Vendors
SYMMETRY Symmetry
CHECK_DEADLOCK FALSE
INVARIANT FreeWhenAnnounced
PROPERTY LimitsKept
