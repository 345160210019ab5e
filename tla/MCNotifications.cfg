SPECIFICATION FairSpec
CONSTANTS
  m1 = m1
  s1 = s1
  beat = beat
  admin = admin
  NULL = NULL
  Measures <- MCMeasures
  Systems <- MCSystems
  Retriers <- MCRetriers
  Hourly = beat
  DueSoonDays = 1
  QuarterDays = 1
  MAX_INLINE_ATTEMPTS = 1
  MAX_TOTAL_ATTEMPTS = 3
  MaxDay = 1
  MaxRows = 2
  MaxDisturbances = 2
INVARIANTS
  OneRowPerKey
  MailHasRow
  JournalTruthful
PROPERTIES
  RetriedToTheEnd
CHECK_DEADLOCK FALSE
