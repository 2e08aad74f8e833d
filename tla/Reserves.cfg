SPECIFICATION Spec
CONSTANTS
  O = O
  A = A
  T1 = T1
  S1 = S1
  NoSymbol = NoSymbol
  FACTORY = FACTORY
  DEX = DEX
  T2 = T2
  S2 = S2
  Account = {O, A}
  Token = {T1, T2}
  Symbol = {S1, S2}
  Kinds = {"V2"}
  FirstOwners = {O}
  NewOwners = {}
  GrantableRole = {}
  FirstTreasuries = {O}
  INITIAL_VIRTUAL_RESERVE = 4
  INITIAL_SUPPLY = 60
  BONDING_CURVE_SUPPLY = 48
  DEFAULT_GRADUATION_THRESHOLD = 6
  BPS_PRECISION = 10
  MAX_PROTOCOL_FEE_BPS = 2
  MAX_LP_FEE_BPS = 2
  MAX_TOTAL_FEE_BPS = 4
  MIN_TRADE_AMOUNT = 2
  DEFAULT_PROTOCOL_FEE_BPS = 1
  DEFAULT_LP_FEE_BPS = 1
  DEFAULT_CREATION_FEE = 0
  FeeBpsChoices = {}
  CreationFeeChoices = {}
  TreasuryChoices = {}
  WHALE_BPS = 10
  MAX_TIER_FEE_BPS = 5
  WhaleConfigs = {}
  Balances = {}
  InitialXlm <- OneBuyer
  BuyAmounts = {3, 5}
  SellAmounts = {4}
  MinOuts = {0}
  Deadlines = {1}
  WithdrawAmounts = {0}
  ThresholdChoices = {}
  TransferAmounts = {}
  OwnerCalls = {"set_token_wasm_hash", "set_amm_wasm_hash"}
  MaxTime = 1
INVARIANTS
  ReservesProtected
