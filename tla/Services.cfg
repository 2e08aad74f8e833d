SPECIFICATION MCSpec
CONSTANTS
  Callers = {p, q}
  FailureThreshold = 2
  SuccessThreshold = 2
  MaxDelay = 4
  Contracts = {p, q}
  MaxBatchSize = 2
  MaxConcurrency = 1
  MaxQueueSize = 2
  MaxBatches = 3
  AddsBound = 4
  FailsBound = 2
  Channels = {c1, c2}
  Hosts = {h1, h2}
  MaxPerIp = 1
  MaxSubscriptions = 1
  ReconnectAttempts = 1
  SocketBound = 2
  CallBound = 2
  Readers = {r1, r2}
  WriteBound = 2
  CacheFaults = 2
  e1 = e1
  e2 = e2
  EventIds = {e1, e2}
  Workers = {w1}
  Recoverers = {pass, op}
  MaxRetries = 2
  FaultsBound = 1
  OperatorBound = 1
  LedgerOf <- MCLedger
  MaxLedger = 4
  MinGapSize = 2
  MaxRecoverableGapSize = 2
  MaxRecoveryAttempts = 2
  ChunkSize = 1
  GetEventsLimit = 1
INVARIANTS
  RecoveredGapsAreFetched
  BufferedEventsAreScheduled
  TablesAgree
PROPERTIES
  LettersSettle
  ClosesOnlyAfterProbes
  OldAnswersEnd
CHECK_DEADLOCK FALSE
