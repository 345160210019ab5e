SPECIFICATION Spec
CONSTANTS
  admin = admin
  rm = rm
  auditor = auditor
  outsider = outsider
  m1 = m1
  m2 = m2
  r1 = r1
  r2 = r2
  night = night
  NULL = NULL
  Task = night
  Users <- MCUsers
  Editors <- MCEditors
  Deciders <- MCDeciders
  Verifiers <- MCVerifiers
  Owners <- MCOwners
  Measures = {m1}
  Requests <- JustTheTask
  SlaDays = 2
  SlaDaysCritical = 1
  MaxDay = 3
  MaxLog = 7
INVARIANT
  IndependentVerification
