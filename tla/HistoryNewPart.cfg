SPECIFICATION Spec
CONSTANTS
  Types = {"smd"}
  Slots = 2
  MaxCode = 2
  Parts = {1, 2}
  MaxRacks = 2
  Sessions <- FillingInSessions
CHECK_DEADLOCK FALSE
INVARIANT SaveNeverRefused
