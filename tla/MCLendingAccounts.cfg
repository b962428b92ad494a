SPECIFICATION Spec
CONSTANTS
  WAD = 10
  BPS_DENOMINATOR = 10
  YEAR_IN_SECONDS = 1
  Assets = {"XLM"}
  Prices = {10}
  ObservedAt = {0}
  SanityConfigs <- MCSanity
  NumUsers = 2
  Amounts = {1, 2}
  Timestamps = {0, 1}
  Models <- MCModels
  NoModel = NoModel
  Configs <- MCConfigs
  CloseFactors = {5}
  ReserveFactors = {}
  Caps = {}
  FeeRequests = {1}
  Registries <- MCRegistries
  MaxCash = 2
  MaxDebt = 3
INVARIANTS
  TypeOK
  SharesAddUp
  NoFreeRedemption
  Solvent
PROPERTIES
  SharePricesNeverFall
ACTION_CONSTRAINT Focus
VIEW View
