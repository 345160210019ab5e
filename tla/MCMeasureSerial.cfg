SPECIFICATION Spec
CONSTANTS
  top = top
  qm = qm
  om = om
  r1 = r1
  r2 = r2
  Garbled = Garbled
  NULL = NULL
  Users <- TopAndExecutor
  Owners <- MCOwners
  Role <- MCRole
  Requests <- OneByOne
  Ops <- LifeOps
  Money = {1}
  LinkedDelta = 1
  SlaDays = 2
  SlaDaysCritical = 1
  DueDates = {0}
  MaxDay = 3
  MaxRaised = 2
INVARIANTS
  RulingMatchesEscalation
  AutoEscalatedOnce
PROPERTIES
  DecisionFinal
