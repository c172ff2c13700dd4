SPECIFICATION Spec
CONSTANTS
  Workers = {w1, w2}
  Api = api
  Nil = Nil
  Slots = 2
  Patient = TRUE
  MaxCancels = 0
  MaxRetries = 1
  MaxApplies = 1
  MaxFaults = 0
  MaxCrashes = 1
  MaxTampers = 1
CHECK_DEADLOCK FALSE
INVARIANT JobRecovered ChoiceKept DiskAgrees
SYMMETRY Symmetry
