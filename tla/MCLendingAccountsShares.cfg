SPECIFICATION Spec
CONSTANTS
  WAD = 10
  BPS_DENOMINATOR = 10
  YEAR_IN_SECONDS = 1
  Assets = {"XLM"}
  Prices = {10}
  ObservedAt = {0}
  SanityConfigs <- MCSanity
  NumUsers = 1
  Amounts = {1, 2}
  Timestamps = {0}
  Models <- FlatModel
  NoModel = NoModel
  Configs <- OneConfig
  CloseFactors = {5}
  ReserveFactors = {}
  Caps = {}
  FeeRequests = {}
  Registries <- AllAllowed
  MaxCash = 2
  MaxDebt = 2
INVARIANTS
  SupplySharesMatch
