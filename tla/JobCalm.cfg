SPECIFICATION Spec
CONSTANTS
  Workers = {w1, w2}
  Api = api
  Nil = Nil
  Slots = 2
  Patient = TRUE
  MaxCancels = 0
  MaxRetries = 1
  MaxApplies = 1
  MaxFaults = 1
  MaxCrashes = 1
  MaxTampers = 1
CHECK_DEADLOCK FALSE
INVARIANT TypeOK OneRun FreshAttempt ReadyIsDurable CalmInv
PROPERTY AttemptMonotonic
SYMMETRY Symmetry
