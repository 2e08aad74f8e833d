SPECIFICATION Spec
CONSTANTS
  O = O
  A = A
  T1 = T1
  S1 = S1
  NoSymbol = NoSymbol
  FACTORY = FACTORY
  DEX = DEX
  Account = {O, A}
  Token = {T1}
  Symbol = {S1}
  Kinds = {"V1"}
  FirstOwners = {O}
  NewOwners = {}
  GrantableRole = {}
  FirstTreasuries = {O}
  INITIAL_VIRTUAL_RESERVE = 4
  INITIAL_SUPPLY = 60
  BONDING_CURVE_SUPPLY = 48
  DEFAULT_GRADUATION_THRESHOLD = 20
  BPS_PRECISION = 10
  MAX_PROTOCOL_FEE_BPS = 2
  MAX_LP_FEE_BPS = 2
  MAX_TOTAL_FEE_BPS = 4
  MIN_TRADE_AMOUNT = 2
  DEFAULT_PROTOCOL_FEE_BPS = 1
  DEFAULT_LP_FEE_BPS = 1
  DEFAULT_CREATION_FEE = 0
  FeeBpsChoices = {}
  CreationFeeChoices = {}
  TreasuryChoices = {}
  WHALE_BPS = 10
  MAX_TIER_FEE_BPS = 5
  WhaleConfigs <- MCWhaleConfigs
  Balances = {3}
  InitialXlm <- OneBuyer
  BuyAmounts = {3, 5, 9}
  SellAmounts = {4, 23}
  MinOuts = {0, 15}
  Deadlines = {1, 2}
  WithdrawAmounts = {}
  ThresholdChoices = {}
  TransferAmounts = {9}
  OwnerCalls = {}
  MaxTime = 2
INVARIANTS
  TypeOK
  SoldTokensExist
PROPERTIES
  CapRespected
