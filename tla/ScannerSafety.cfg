SPECIFICATION Spec
CONSTANTS
  Workers = {w1, w2}
  None = None
  Devices = {d1}
  NumWorkspaces = 2
  MaxTokens = 3
  MaxCounter = 2
  MaxDeliveries = 2
  MaxOperations = 2
  MaxFaults = 1
  MaxCrashes = 1
  FaultSteps <- SafeFaults
SYMMETRY Symmetry
CHECK_DEADLOCK FALSE
INVARIANT RestartRemembers
INVARIANT NoStuckReservation
INVARIANT ServesStoredPairing
PROPERTY CountersGoUp
