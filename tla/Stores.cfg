SPECIFICATION Spec
CONSTANTS
  d1 = d1  d2 = d2  d3 = d3  j1 = j1  j2 = j2  r1 = r1  r2 = r2
  Reviewer = {d1, d2, d3}
  CardOf <- MCCardOf
  Pages <- MCPages
  FirstPage <- MCFirstPage
  accept = accept  exclude = exclude
  Choice = {accept, exclude}
  Hazardous = {}
  Incomplete = {2}
  NoChoice = NoChoice
  MaxGenerations = 2
  MaxApplies = 2
  MaxWriteFailures = 1
  MaxDecisions = 2
  i1 = i1  i2 = i2  a1 = a1  a2 = a2
  Annotator = {a1, a2}
  Item = {i1, i2}
  Revisions <- MCRevisions
  FirstRevision <- MCFirstRevision
  Intent <- MCIntent
  MaxPosts = 3
  MaxRebuilds = 2
  NoItem = NoItem
  NoIntent = NoIntent
  NoSave = NoSave
  o1 = o1  o2 = o2  w1 = w1  w2 = w2
  Operator = {o1, o2}
  Pattern = {1, 2}
  FeedbackEdge <- MCFeedbackEdge
  MaxDrafts = 4
  MaxRevisions = 5
  NoWork = NoWork
  MaxLost = 1
  s1 = s1  s2 = s2  q1 = q1  q2 = q2  u = u  v = v
  Writer = {w1, w2}
  Output = {"report"}
  Worksheet = {s1, s2}
  Part = {q1, q2}
  Letter = {"A", "B"}
  Number = {1}
  Column = {"quantity", "cost"}
  Value = {u, v}
  Workbooks <- MCWorkbooks
  Order <- MCOrder
  MaxEdits = 1
  MaxFaults = 2
  MaxCrashes = 1
  MaxMeddles = 1
  None = None
  Infinite = Infinite
  Somebody = Somebody
CHECK_DEADLOCK FALSE
INVARIANTS ReviewStands AnswersStand RegistryStands WritesStand
PROPERTIES DecisionsLast NoAnswerLostUnseen RegistryGrows OutputsAreSpared
SYMMETRY Symmetry
