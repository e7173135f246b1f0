SPECIFICATION FairSpec

CONSTANTS
  Entries = {e1, e2}
  MaxFaults = 2
  MaxCrashes = 2
  FaultSteps <- AllSteps
  LateSteps <- FlushedSteps
  CrashSteps <- AllSteps

INVARIANT UserFilesPreserved
INVARIANT OldWorkspaceKept
INVARIANT CoherentWorkspace
INVARIANT NoOrphanedCopies
PROPERTY SwitchesOnce
PROPERTY Recovers
PROPERTY RefusesOnlyUnrepeatable
