SPECIFICATION DatabaseSpec
CONSTANTS
  Tokens = {t1}
  Amounts = {150}
  Topic <- RoutedTopics
  StatusIsText = FALSE
  ChainLength = 3
  PageLimit = 2
  CacheSize = 1
  TxHashGiven = TRUE
  FaultBound = 2
  Syncers = {s1}
  FetchAttempts = 2
INVARIANTS
  VolumeHasTransactions
  
  LaunchRecordedOnce
PROPERTIES
  RowsConverge
  CursorReachesHead
CHECK_DEADLOCK FALSE
