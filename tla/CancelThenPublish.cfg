SPECIFICATION Spec
CONSTANTS
  Workers = {w1, w2}
  Api = api
  Nil = Nil
  Slots = 2
  Patient = TRUE
  MaxCancels = 1
  MaxRetries = 0
  MaxApplies = 0
  MaxFaults = 0
  MaxCrashes = 0
  MaxTampers = 0
CHECK_DEADLOCK FALSE
INVARIANT CancelNeverPublishes
