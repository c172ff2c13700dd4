SPECIFICATION Spec
CONSTANTS
  Job = {j1, j2}
  Choice = {a, b}
  NoChoice = NoChoice
  NoFile = NoFile
  Changed = Changed
  Earlier = Earlier
  Retained = 1
  MaxCrashes = 2
  MaxFaults = 1
  MaxTampers = 1
CHECK_DEADLOCK FALSE
INVARIANT TypeOK CommittedIsPlanned ReadyIsCommitted NeverReopened
PROPERTY ExactlyOnce
SYMMETRY Symmetry
