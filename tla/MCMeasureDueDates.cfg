SPECIFICATION Spec
CONSTANTS
  top = top
  qm = qm
  om = om
  r1 = r1
  r2 = r2
  Garbled = Garbled
  NULL = NULL
  Users <- TopAndExecutor
  Owners <- MCOwners
  Role <- MCRole
  Requests <- OneByOne
  Ops <- TaskOps
  Money = {1}
  LinkedDelta = 1
  SlaDays = 2
  SlaDaysCritical = 1
  DueDates = {0, 1}
  MaxDay = 1
  MaxRaised = 0
INVARIANT
  DueDatesAgree
