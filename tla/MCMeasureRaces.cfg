SPECIFICATION Spec
CONSTANTS
  top = top
  qm = qm
  om = om
  r1 = r1
  r2 = r2
  Garbled = Garbled
  NULL = NULL
  Users <- TopAndManager
  Owners <- NoOwners
  Role <- MCRole
  Requests <- Overlapping
  Ops <- RaceOps
  Money = {1}
  LinkedDelta = 1
  SlaDays = 2
  SlaDaysCritical = 1
  DueDates = {}
  MaxDay = 0
  MaxRaised = 0
SYMMETRY Symmetric
INVARIANTS
  WorkFollowsApproval
PROPERTIES
  NothingForgotten
