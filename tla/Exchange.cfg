SPECIFICATION MCSpec
CONSTANTS
  Traders = {a1, a2}
  MINIMUM_LIQUIDITY = 10
  DepositAmounts = {30, 47}
  FirstPurse = 100
  MaxLedgerTime = 1
  PairOpsBound = 3
  FirstCurve <- MCFirstCurve
  INITIAL_SUPPLY = 25000
  VirtualReserve = 810
  FirstAccount <- MCFirstAccount
  FeeConfigs <- MCFeeConfigs
  WhaleConfigs <- MCWhaleConfigs
  SwapAmount = 9
  PairDeposit = 100
  Raised = 21000
  MinTrade = 300
  Decimals <- MCDecimals
  DecimalPlaces = 2
  LoadSlots = {l1, l2}
  Milestones = {20100, 21000}
  PageTrades = {1000}
  CallBound = 2
  ClientMoves = 1
  MarketBound = 2
  ChartSlots = {c1, c2}
  MaxPoints = 2
  Intervals = {2, 3}
  Lead = 4
  VirtualXlm = 5
  DealSizes = {2}
  DealBound = 2
  MaxSecond = 2
  ScreenSlots = {s1, s2}
  QuickAmounts = {800}
  OutsideAmounts = {1100}
  XlmSide = 1
  TwoPlaces = 10
  FourPlaces = 1
  ScreenMoves = 1
  ScreenEdits = 2
  ScreenFaults = 1
INVARIANTS
  FreshTradesSimulate
  QuotesAgree
  ChartsDrawPoints
PROPERTIES
  ShareValueNeverFalls
  PageFollowsToken
  ScreensSettle
CHECK_DEADLOCK FALSE
