SPECIFICATION MCSpec
CONSTANTS
  Accounts = {a1, a2}
  NoAccount = NoAccount
  Corrupt = Corrupt
  FetchSlots = {1, 2}
  SessionBound = 2
  PaymentBound = 1
  ShownTokens = {t1, t2}
  NoToken = NoToken
  ListedTokens = {t2}
  ReadSlots = {1, 2}
  PageBound = 2
  PriceBound = 2
  Symbols = {s1, s2}
  NoSymbol = NoSymbol
  Images = {i1, i2}
  NoImage = NoImage
  Selections = {1, 2}
  TxSeconds = 2
  SigningSeconds = 2
  MaxAttempts = 2
  ListLimit = 2
  PageDelay = 1
  TryBound = 2
  CreateBound = 3
  Addresses = {a1, a2}
  QueryTokens = {t1, t2}
  RowAmounts = {1, 2}
  FeeTotals = {9, 10}
  ListedAtMost = 2
  RowBound = 3
  Window = 2
  CheckLasts = 2
  MaxRequests = 2
  Uploads = {1, 2}
  RequestBound = 5
  LastMoment = 4
  UncheckedBound = 1
INVARIANTS
  ShownTokenIsTheLaunched
  LoadsAnswerTheirKeys
  WindowsHold
  FallbackHolds
PROPERTIES
  BalanceFollowsAccount
  ViewFollowsToken
CHECK_DEADLOCK FALSE
