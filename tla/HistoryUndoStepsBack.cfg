SPECIFICATION Spec
CONSTANTS
  Types = {"smd"}
  Slots = 2
  MaxCode = 2
  Parts = {1, 2}
  MaxRacks = 2
  Sessions <- RevertingSessions
CHECK_DEADLOCK FALSE
INVARIANT UndoStepsBack
