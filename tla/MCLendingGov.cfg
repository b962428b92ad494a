SPECIFICATION GovSpec
CONSTANTS
  WAD = 10
  BPS_DENOMINATOR = 10
  YEAR_IN_SECONDS = 1
  Assets = {"XLM"}
  Prices = {10}
  ObservedAt = {0}
  SanityConfigs <- MCSanity
  NumUsers = 1
  Amounts = {1}
  Timestamps = {0}
  Models <- MCModels
  NoModel = NoModel
  Configs <- MCConfigs
  CloseFactors = {10}
  ReserveFactors = {}
  Caps = {}
  FeeRequests <- MCFeeRequests
  Registries <- MCRegistries
  MaxCash = 1
  MaxDebt = 0
  Admins = {"ann", "bob"}
  MultiSigs <- MCMultiSigs
  Actions <- MCActions
  MaxProposals = 2

PROPERTIES
  
  GovernedChangesAreApproved
  DecidedOnce
  LockedOutForGood
ACTION_CONSTRAINT Focus
VIEW View
