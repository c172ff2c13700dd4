SPECIFICATION Spec
CONSTANTS
  Workers = {w1, w2}
  Api = api
  Nil = Nil
  Slots = 2
  Patient = TRUE
  MaxCancels = 2
  MaxRetries = 0
  MaxApplies = 1
  MaxFaults = 0
  MaxCrashes = 1
  MaxTampers = 0
CHECK_DEADLOCK FALSE
INVARIANT CancelledIsClean
SYMMETRY Symmetry
