SPECIFICATION Spec
CONSTANTS
  top = top
  qm = qm
  om = om
  r1 = r1
  r2 = r2
  Garbled = Garbled
  NULL = NULL
  Users <- TopAndExecutor
  Owners <- MCOwners
  Role <- MCRole
  Requests <- Overlapping
  Ops <- DecideOps
  Money = {1}
  LinkedDelta = 1
  SlaDays = 2
  SlaDaysCritical = 1
  DueDates = {0}
  MaxDay = 0
  MaxRaised = 0
PROPERTY
  DecisionFinal
