SPECIFICATION Spec

CONSTANTS
  Entries = {e1, e2}
  MaxFaults = 2
  MaxCrashes = 2
  FaultSteps <- NoStep
  LateSteps <- NoStep
  CrashSteps = {"activate", "rb_settings"}

PROPERTY
  RecoveryNeverRefuses
