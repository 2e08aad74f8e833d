SPECIFICATION MCSpec
CONSTANTS
  O = O
  A = A
  T1 = T1
  S1 = S1
  NoSymbol = NoSymbol
  FACTORY = FACTORY
  DEX = DEX
  Account = {O, A}
  Token = {T1}
  Symbol = {S1}
  Kinds = {"V1", "V2"}
  FirstOwners = {O}
  NewOwners = {O, A}
  GrantableRole = {"FeeAdmin", "Owner"}
  FirstTreasuries = {O}
  INITIAL_VIRTUAL_RESERVE = 4
  INITIAL_SUPPLY = 60
  BONDING_CURVE_SUPPLY = 48
  DEFAULT_GRADUATION_THRESHOLD = 100
  BPS_PRECISION = 10
  MAX_PROTOCOL_FEE_BPS = 2
  MAX_LP_FEE_BPS = 2
  MAX_TOTAL_FEE_BPS = 4
  MIN_TRADE_AMOUNT = 2
  DEFAULT_PROTOCOL_FEE_BPS = 1
  DEFAULT_LP_FEE_BPS = 1
  DEFAULT_CREATION_FEE = 0
  FeeBpsChoices <- MCRates
  CreationFeeChoices <- MCCreationFees
  TreasuryChoices = {A}
  WHALE_BPS = 10
  MAX_TIER_FEE_BPS = 5
  WhaleConfigs = {}
  Balances = {}
  InitialXlm <- BigBuyer
  BuyAmounts = {60}
  SellAmounts = {20}
  MinOuts = {0}
  Deadlines = {1}
  WithdrawAmounts = {}
  ThresholdChoices = {50, 200}
  TransferAmounts = {}
  OwnerCalls = {"set_token_wasm_hash", "set_amm_wasm_hash", "set_astro_config", "clear_astro_config", "set_bridge_config"}
  MaxTime = 1
  Stakers = {u1, u2}
  FeeTokens = {S, R}
  StakeToken = S
  PRECISION = 10
  Amounts = {1, 3}
  Minimums = {0, 1, 2}
  Splits <- MCSplits
  MoveBound = 6
INVARIANTS
  RaisedXlmReachesDex
  OwnerNeverLost
  ClaimsAreCovered
