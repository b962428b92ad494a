SPECIFICATION Spec
CONSTANTS
  WAD = 10
  BPS_DENOMINATOR = 10
  YEAR_IN_SECONDS = 1
  Assets = {"XLM", "USDC"}
  Prices = {5, 10}
  ObservedAt = {0}
  SanityConfigs <- MCSanity
  NumUsers = 1
  Amounts = {1}
  Timestamps = {0}
  Models <- MCModels
  NoModel = NoModel
  Configs <- MCConfigs
  CloseFactors = {5}
  ReserveFactors = {}
  Caps = {}
  FeeRequests = {}
  Registries <- MCRegistries
  MaxCash = 2
  MaxDebt = 2
PROPERTIES
  OwnStepsStayHealthy
  SeizureIsPaidFor
ACTION_CONSTRAINT Focus
VIEW View
