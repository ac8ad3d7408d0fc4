CONSTANTS
  Softs = {1, 2, 3}
  MaxCounts = {0, 1, 2}
SPECIFICATION Spec
INVARIANTS
  ModelFits
  MssesExact
PROPERTIES
  KeepsPromise
CHECK_DEADLOCK FALSE
