SPECIFICATION RegistersSpec
CONSTANTS
  q1 = q1
  q2 = q2
  q3 = q3
  mean1 = mean1
  mean2 = mean2
  e1 = e1
  e2 = e2
  e3 = e3
  Subs <- MCSubs
  CharOf <- MCCharOf
  Scaled <- MCScaled
  Experts <- MCExperts
  TOP = 6
  Baselines <- MCBaselines
  ValueForms <- MCValueForms
  Cards <- MCCards
  Weighings <- MCWeighings
  WHOLE = 3
  CHI2 <- MCCHI2
  f1 = f1
  f2 = f2
  sec = sec
  rel = rel
  audit = audit
  crypto = crypto
  fault = fault
  recount1 = recount1
  recount2 = recount2
  Failures <- MCFailures
  Subchars <- MCSubchars
  Done <- MCRemedies
  Recomputers <- MCRecomputers
  Costs <- MCCosts
  Appetites = {1}
  SHARE = 2
  MaxRiskEdits = 3
  remedy = remedy
  Remedies <- MCRemedies
  Parts = {"assessment", "risks", "panel", "conditions", "rates", "weights", "scores", "judgments"}
  here = here
  L1 = L1
  L2 = L2
  large = large
  banking = banking
  u1 = u1
  u2 = u2
  mission = mission
  business = business
  file = file
  edited1 = edited1
  w1 = w1
  w2 = w2
  p1 = p1
  p2 = p2
  x1 = x1
  r1 = r1
  r2 = r2
  Garbled = Garbled
  NULL = NULL
  Pairs <- TwoPairs
  Depths <- FullAndScreening
  Required <- RequiredOfTwo
  Scores <- OneScore
  Missing <- SecondMissing
  IsAi = TRUE
  Source <- Earlier
  Requests <- OneByOne
  MaxItems = 2
  MaxRows = 2
  NONE = NONE
  Places = {here}
  LINES <- MCLines
  Sizes = {large}
  Industries = {banking}
  References <- MCReferences
  Seeded <- MCSeeded
  Users <- MCUsers
  Amounts = {5}
  MaxRates = 2
  MaxChanges = 2
  Profiles <- MCProfiles
  Weights <- MCWeights
  FromCode <- MCFromCode
  LEGACY = LEGACY
  Callers <- MCCallers
  MaxVersions = 3
  s1 = s1
  s2 = s2
  m1 = m1
  m2 = m2
  ch1 = ch1
  ch2 = ch2
  other = other
  EMPTY = EMPTY
  UNMEASURABLE = UNMEASURABLE
  Systems <- MCSystems
  Quarters <- MCQuarters
  Metrics <- MCMetrics
  CharacteristicOf <- MCCharacteristicOf
  Fillings <- MCFillings
  Weight <- MCWeight
  Importance <- MCImportance
  Decided <- MCDecided
  OtherPairs = {other}
  MaxJudgments = 2
  LISTED = 1
  Limits = {0, 3}
  MaxSnapshots = 1
SYMMETRY MCSymmetry
CHECK_DEADLOCK FALSE
INVARIANTS
  CompletedStillCounts
  CrossingIsTold
  MoneyAddsUp
  LastWord
  AgreedAlike
  QualityWithin
  CompleteIsCalculated
  ScreensAgree
PROPERTIES
  CompleteIsLocked
  ConfirmedIsNotRefilled
  LastQuarterSpeaks
