SPECIFICATION FairSpec
CONSTANTS
  Workers = {w1, w2}
  Api = api
  Nil = Nil
  Slots = 1
  Patient = FALSE
  MaxCancels = 1
  MaxRetries = 1
  MaxApplies = 0
  MaxFaults = 0
  MaxCrashes = 1
  MaxTampers = 0
CHECK_DEADLOCK FALSE
PROPERTY Settles
