SPECIFICATION OverlapsSpec
CONSTANTS
  t1 = t1
  t2 = t2
  t3 = t3
  core = core
  bank = bank
  cft = cft
  support = support
  importer1 = importer1
  importer2 = importer2
  Tickets <- MCTickets
  Systems <- MCSystems
  CIs <- MCCIs
  Groups <- MCGroups
  SystemNamed <- MCSystemNamed
  Exports <- MCExports
  Tables <- MCTables
  Importers <- MCImporters
  Chain <- MCChain
  Images <- MCImages
  Models <- MCModels
  Targets <- MCTargets
  o1 = o1
  o2 = o2
  desk1 = desk1
  desk2 = desk2
  abs = abs
  payments = payments
  L1 = L1
  L2 = L2
  Outages <- MCOutages
  Estate = {abs}
  BusinessProcesses = {payments}
  Frontal = {}
  SupportLines <- MCLines
  Moments <- MCMoments
  Calendar <- MCCalendar
  Reports <- MCReports
  ExportLines <- MCExportLines
  CostForms <- MCForms
  Tariffs <- MCTariffs
  Services <- MCServices
  CardForms <- MCCardForms
  Thresholds <- MCThresholds
  Desks <- MCDesks
  PARTS = 100
  MaxCostEdits = 2
  Times = {0, 1}
  Lags = {0, 1}
  WINDOW = 1
  MaxRegister = 5
  MaxImports = 3
  MaxCorrections = 1
  Overlaps = {"sessions", "throttle", "permissions", "closure", "incidents",
              "migrations", "costs"}
  s1 = s1
  s2 = s2
  junior = junior
  senior = senior
  a1 = a1
  a2 = a2
  home = home
  office = office
  manager = manager
  analyst = analyst
  edit = edit
  view = view
  security = security
  web = web
  celery = celery
  NONE = NONE
  Handlers <- MCHandlers
  Roles <- MCRoles
  MaxPairs = 3
  MaxEdits = 1
  MaxDeaths = 1
  Attempts <- MCAttempts
  Addresses <- MCAddresses
  LOGIN_MAX_FAILURES = 2
  LOGIN_MAX_FAILURES_PER_USER = 3
  MaxLockouts = 3
  EditableRoles <- MCEditableRoles
  Catalogue <- MCCatalogue
  Protected <- MCProtected
  Defaults <- MCDefaults
  Processes <- MCProcesses
  Server = web
  MaxSaves = 2
  MaxStarts = 1
  admin = admin
  rm = rm
  auditor = auditor
  outsider = outsider
  m1 = m1
  m2 = m2
  r1 = r1
  r2 = r2
  night = night
  NULL = NULL
  Task = night
  Users <- RaceUsers
  Editors <- Administrator
  Deciders <- Administrator
  Verifiers <- Auditor
  Owners = {outsider}
  Measures = {m1, m2}
  Requests <- Overlapping
  SlaDays = 2
  SlaDaysCritical = 1
  MaxDay = 0
  MaxLog = 6
SYMMETRY MCSymmetry
CHECK_DEADLOCK FALSE
INVARIANTS
  OneLiveRefresh
  TokensSpeakForTheAccount
  AttemptsBounded
  OwnChangesSeen
  MilestonesKept
  AcceptanceSigned
  TicketOnce
  OneFailureOneWindow
  SchemaOfItsVersion
  ServedWhole
  KeptIsCurrent
  PackageSpentOnce
PROPERTIES
  ClosedForGood
