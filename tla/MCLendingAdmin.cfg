SPECIFICATION Spec
CONSTANTS
  WAD = 10
  BPS_DENOMINATOR = 10
  YEAR_IN_SECONDS = 1
  Assets = {"XLM"}
  Prices = {10}
  ObservedAt = {0}
  SanityConfigs <- MCSanity
  NumUsers = 1
  Amounts = {1}
  Timestamps = {0, 1}
  Models <- MCModels
  NoModel = NoModel
  Configs <- MCConfigs
  CloseFactors = {10}
  ReserveFactors = {10, 20}
  Caps = {1}
  FeeRequests = {1}
  Registries <- MCRegistries
  MaxCash = 1
  MaxDebt = 2
INVARIANTS
  Solvent
PROPERTIES
  PausedFreezesFunds
  BlockedAssetsOnlyShrink
ACTION_CONSTRAINT Focus
VIEW View
