SPECIFICATION MCSpec
CONSTANTS
  INITIAL_VIRTUAL_RESERVE = 4
  Supply = 48
  Amounts <- MCAmounts
  ProtocolFees <- MCTwoFees
  LpFees <- MCLpFees
  Reserves <- MCReserves
  Widgets = {"premium", "hook", "basic", "interface"}
  TradeAmounts = {1200}
  OtherAmounts = {1000}
  FirstMarket <- MCMarket
  FirstPool <- MCPool
  DisplayGrain = 1
  MinTrade = 1000
  MeaningfulMin = 950
  TxTimeout = 2
  LongTimeout = 5
  PollAttempts = 2
  SigningTakes = 2
  MaxActions = 1
  WindowSeconds = 3
  MaxClock = 5
  EditBound = 2
  ClickBound = 1
  OtherBound = 1
  Requests = {r1, r2}
  MaxAge = 2
  NonceTtl = 2
  CleanupEvery = 4
  Skew = 1
  LastTime = 9
  RestartBound = 1
  FirstTokens = 3
  FirstGraduated = 2
  FeaturedCards = 1
  Sorts = {"new", "trending"}
  SearchHits <- MCSearchHits
  PageSize = 1
  LaunchBound = 1
  ChangeBound = 1
  FeeTokens = {t1}
  Week = 1
  Month = 2
  Retention = 3
  OldDays = {0}
  LastDay = 4
  RecordBound = 1
  MaxTasks = 2
  FeeTopics = {"lp_fee_collected", "fees_withdrawn"}
  ConfigTopics = {"lp_fee_updated"}
  NewValue = 7
  FeeFaultBound = 1
  RecordedKinds = {"TOKEN_BOUGHT", "LIQUIDITY_ADDED"}
  FeedLimit = 1
  ListLimit = 2
  TransactionBound = 2
INVARIANTS
  LockCoversEverySale
  ErrorsAreFinal
  QuotedTradesAreAccepted
  SignatureUsedOnce
  PagesLeaveNoGap
PROPERTIES
  FeedCatchesUp
  StatsConverge
CHECK_DEADLOCK FALSE
