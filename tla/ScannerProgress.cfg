SPECIFICATION FairSpec
CONSTANTS
  Workers = {w1, w2}
  None = None
  Devices = {d1, d2}
  NumWorkspaces = 1
  MaxTokens = 2
  MaxCounter = 1
  MaxDeliveries = 3
  MaxOperations = 1
  MaxFaults = 1
  MaxCrashes = 0
  FaultSteps <- AllFaults
CHECK_DEADLOCK FALSE
PROPERTY OperationsEnd
PROPERTY RequestsAnswered
PROPERTY CallbackUnderCurrentCredentials
PROPERTY AcceptedFromPairedDevice
