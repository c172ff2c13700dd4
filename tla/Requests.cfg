SPECIFICATION ServicesSpec
CONSTANTS
  c1 = c1  c2 = c2  t1 = t1  t2 = t2  k1 = k1  k2 = k2  x1 = x1  x2 = x2
  Client = {c1, c2}
  Pruner = {t1, t2}
  Request <- MCRequest
  Key = {k1, k2}
  Job = {1, 2, 3}
  MaxRetained = 1
  MaxLoaded = 1
  MaxAsks = 3
  MaxTime = 1
  MaxFailures = 1
  MaxRestarts = 1
  MaxRetries = 1
  NoJob = NoJob
  r1 = r1  r2 = r2  r3 = r3  g1 = g1  g2 = g2  f1 = f1  f2 = f2  p1 = p1
  base = base  variant = variant  other = other  a = a  b = b
  Row = {r1, r2, r3}
  Group = {g1, g2}
  Family = {f1, f2}
  Package = {p1}
  GroupOf <- MCGroupOf
  FamilyOf <- MCFamilyOf
  PackageOf <- MCPackageOf
  Name = {base, variant, other}
  RowName <- MCRowName
  GroupName <- MCGroupName
  Category = {a, b}
  Reject = Reject
  None = None
  Allowed <- MCAllowed
  Safe = {p1}
  Proposed <- MCProposed
  MaxEdits = 3
  MaxFaults = 1
  MaxReviews = 1
CHECK_DEADLOCK FALSE
INVARIANTS CreationIsIdempotent CalculatedAsShown RestartKeepsDecisions
PROPERTIES RetentionStands MassAcceptFillsOnly
SYMMETRY Symmetry
