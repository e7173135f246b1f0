SPECIFICATION FairSpec
CONSTANTS
  Terminals = {t1, t2}
  Unit = u
  Detached = {d1}
  None = None
  MaxChanges = 1
  MaxFailures = 1
PROPERTY SessionOpens
PROPERTY ServiceTakesOver
INVARIANT OneWorker
INVARIANT OneServer
