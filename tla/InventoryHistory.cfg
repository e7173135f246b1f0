SPECIFICATION Spec
CONSTANTS
  Types = {"smd"}
  Slots = 2
  MaxCode = 2
  Parts = {1, 2}
  MaxRacks = 2
  Sessions <- PassingSessions
CHECK_DEADLOCK FALSE
INVARIANT SaveNeverRefused
INVARIANT ConfirmedIsShown
PROPERTY UndoIsStack
PROPERTY ScansKept
