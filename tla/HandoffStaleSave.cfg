SPECIFICATION Spec
CONSTANTS
  Terminals = {t1, t2}
  Unit = u
  Detached = {d1}
  None = None
  MaxChanges = 2
  MaxFailures = 1
SYMMETRY Alike
INVARIANT ChangesKept
