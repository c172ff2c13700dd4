SPECIFICATION FairSpec
CONSTANTS
  Job = {j1, j2}
  Choice = {a, b}
  NoChoice = NoChoice
  NoFile = NoFile
  Changed = Changed
  Earlier = Earlier
  Retained = 1
  MaxCrashes = 2
  MaxFaults = 0
  MaxTampers = 0
CHECK_DEADLOCK FALSE
PROPERTY AutosavedPlanSettles
