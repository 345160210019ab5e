SPECIFICATION LlmSpec
CONSTANTS
  a1 = a1
  a2 = a2
  warmup = warmup
  reloader = reloader
  k1 = k1
  g1 = g1
  g2 = g2
  x1 = x1
  p1 = p1
  p2 = p2
  p3 = p3
  NONE = NONE
  FALLBACK = FALLBACK
  Askers <- MCAskers
  Warmup = warmup
  Reloader = reloader
  Inputs <- MCInputs
  Models <- MCModels
  LLM_MAX_WAITING = 1
  CACHE_MAX_ENTRIES = 1
  MaxSwaps = 1
  MaxReloads = 1
  Requests = {x1}
  Questions <- MCQuestions
  Percents <- MCPercents
  Data <- MCData
  Given <- MCGiven
  Fingerprint <- MCFingerprint
  RECALL_MAX = 1
  MaxConclusions = 3
  MaxVerdicts = 1
  MaxRestarts = 1
CHECK_DEADLOCK FALSE
INVARIANTS
  CacheOfTheModel
  NothingInvented
  BoardOnGrounds
PROPERTIES
  EveryoneAnswered
