SPECIFICATION Spec
CONSTANTS
  Contracts = {"pool", "sim", "vault", "lp", "staking", "escrow", "boosted", "stability",
               "coin", "synthetic", "monitor", "analytics"}
  NumUsers = 2
  U64 = 16
  BPS = 2
  TIME = 16
  YEAR = 1
  FeeRates = {0, 1}
  PoolAmounts = {1, 2, 4}
  Limits = {0, 2}
  MaxReserve = 4
  MaxLiquidity = 4
  MaxFees = 1
  flash_loan_fee_bps = 1
  DEFAULT_FEE_BPS = 1
  VaultAmounts = {1, 3, 4}
  Apys = {0, 2}
  Thresholds = {0, 5000}
  PerformanceFees = {500, 3000}
  MAX_PERFORMANCE_FEE_BPS = 2000
  MAX_STRATEGIES = 2
  MaxVaultAssets = 6
  LpAmounts <- MCLpAmounts
  MaxLpSupply = 4
  DefaultTiers <- MCDefaultTiers
  Durations = {1, 14}
  Rates = {10000}
  StakeAmounts = {4}
  MaxTime = 3
  EscrowIds = {1, 2}
  EscrowAmounts = {1}
  EscrowDurations = {0, 15}
  Preimages = {"secret", "guess"}
  MaxEscrowTime = 2
  BoostAmounts = {1, 2}
  MAX_BOOST_TIME = 3
  MaxBalance = 3
  MaxBoostClock = 4
  StabAmounts = {2, 10}
  StabTokens = {"usdc"}
  TokenCaps = {2}
  Intervals = {1}
  ParamSets <- MCParamSets
  BASE_REWARD_RATE_BPS = 2000
  EARLY_WITHDRAWAL_PENALTY_BPS = 100
  MAX_DEPOSIT_RATIO = 5000
  LIQUIDATION_REWARD_SHARE_BPS = 2000
  STABLECOIN_SUPPLY = 40
  CollateralHealth = 5000
  DAILY_LIMIT = 12
  MIN_CAP = 10
  MAX_CAP = 18
  SENSITIVITY_BPS = 1000
  Overrides = {0, 30}
  LARGE_BPS = 1000
  SCALE = 10
  DAY = 2
  HOUR = 1
  AdminIsContract = TRUE
  MaxIndex = 2
  MaxQueue = 2
  MaxRecords = 1
  MaxStabTime = 1
  DEBT_U64 = 40
  Collaterals = {"xlm", "btc"}
  CoinAmounts = {10, 20}
  CollateralAmounts = {0, 22}
  MinRatios = {11000, 22000}
  CoinFees = {1000}
  MIN_DEBT = 10
  MAX_DEBT = 20
  COIN_MIN_RATIO = 11000
  COIN_PENALTY = 1000
  MaxCollateral = 44
  AssetTerms <- MCAssetTerms
  SynthTokens = {"usdc"}
  SynthAmounts = {9, 10}
  SynthCollaterals = {0, 8}
  SynthStakes = {1}
  RiskSets <- MCRiskSets
  SYNTH_MIN_RATIO = 15000
  SYNTH_PENALTY = 1000
  STAKING_REWARD_RATE_BPS = 5000
  PRICE = 2
  MaxAssets = 2
  MaxSupply = 19
  MaxSynthFees = 2
  MaxDeposit = 16
  MaxSynthTime = 2
  PmAssets = {"eur"}
  PmRatios = {11000, 30000}
  PmCollaterals = {1}
  Deltas <- MCDeltas
  Volatilities = {0, 10000}
  Markets = {10000}
  Ages = {365}
  AlertTypes = {"LowCollateral", "PriceVolatility", "LiquidationRisk", "OracleFailure"}
  MAX_BATCH_SIZE = 2
  MONITORING_INTERVAL = 1
  ALERT_DEDUP_WINDOW = 2
  PM_DAY = 1
  REBALANCING_THRESHOLD = 500
  MaxPmLedger = 3
  MaxPositions = 2
  MaxAlerts = 2
  AnlPrices = {0, 80, 100, 130}
  Sizes = {100}
  Stakes = {0, 50}
  PRICE_UNIT = 100
  AnlDay = 1
  MaxSamples = 3
  MaxAnlTime = 1
VIEW View
ACTION_CONSTRAINT Focus
INVARIANTS
  
  EarnedOnly
  

  
  
CHECK_DEADLOCK FALSE
