SPECIFICATION DatabaseSpec
CONSTANTS
  Tokens = {t1}
  Amounts = {150}
  Topic <- FactoryTopics
  StatusIsText = FALSE
  ChainLength = 3
  PageLimit = 2
  CacheSize = 1
  TxHashGiven = TRUE
  FaultBound = 2
  Syncers = {s1}
  FetchAttempts = 2
INVARIANTS
  ProcessedTradesAreRecorded
CHECK_DEADLOCK FALSE
