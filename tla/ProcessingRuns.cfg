SPECIFICATION Spec
CONSTANTS
  Proc = {p1, p2}
  o1 = o1  o2 = o2
  Output = {o1, o2}
  Request <- MCRequest
  Verdict <- MCVerdict
  None = None
  MaxVersion = 2
  MaxEdits = 1
  MaxStarts = 2
  MaxFaults = 1
  MaxCrashes = 1
  MaxRollbacks = 1
CHECK_DEADLOCK FALSE
INVARIANTS ConclusionsStand PublicationStands
PROPERTY HistoryStands
SYMMETRY Symmetry
