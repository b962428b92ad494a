SPECIFICATION MCSpec
CONSTANTS
  xlm = xlm
  usdc = usdc
  Contracts = {"history"}
  Assets = {xlm, usdc}
  Prices = {100, 103, 112}
  Configs <- MCConfigs
  BPS = 100
  U32 = 1000
  CIRCUIT_BREAKER_THRESHOLD_BPS = 10
  CONSECUTIVE_DEVIATION_THRESHOLD = 3
  MIN_CONSECUTIVE_DEVIATION_BPS = 5
  CIRCUIT_BREAKER_COOLDOWN = 1
  MIN_UPDATE_INTERVAL = 1
  RECOVERY_MAX_CHANGE_BPS = 2
  WARNING_THRESHOLD_BPS = 3
  MAX_TRIP_HISTORY = 2
  MAX_WARNING_ALERTS = 2
  RECOVERY_MODE_DURATION = 1
  MaxTime = 2
  MaxTrips = 2
  Duration <- MCDuration
  HOUR_SECS = 4
  DAY_SECS = 8
  TIER_RECENT_SECS = 8
  TIER_MEDIUM_SECS = 16
  MAX_HISTORY_RETENTION = 8
  archival_interval_secs = 4
  CacheSecs = 1
  SmaPeriods = {4, 8}
  HistoryPrices = {1, 3}
  Ages = {0, 10, 20}
  Retentions = {6}
  HistoryStart = 22
  Steps = {9}
  MaxHistoryTime = 40
  MaxEntries = 3
  StreamAssets = {"xlm", "usdc"}
  Clients = {"ann", "bob"}
  Premium = {"ann"}
  ChannelSize = 2
  MaxPushes = 3
  Oracles = {"o1", "o2"}
  StakeSizes = {1, 10}
  Reports = {2, 4}
  HeartbeatIntervals = {1}
  Updates <- MCUpdates
  NODE_BPS = 10
  MIN_STAKE = 2
  MIN_ORACLES = 2
  SLASH_PERCENTAGE = 1
  UNBONDING_PERIOD = 2
  MAX_ORACLES = 2
  DISPUTE_REVIEW_PERIOD = 1
  DISPUTE_BOND = 1
  StartReputation = 8
  DOWNGRADE = 4
  MaxNodeTime = 4
  MaxSlashes = 2
  MaxDisputes = 1
  MaxMissed = 6
  Adapters = {"a", "b", "c"}
  Priorities = {1, 2}
  Answers = {0, 100, 101, 130}
  DEMOTION_THRESHOLD_BPS = 80
  MAX_ACCEPTABLE_DEVIATION_BPS = 2
  min_quorum = 2
  max_deviation_bps = 2
  StrictGates = {TRUE, FALSE}
  MaxRequests = 2
  ManagedOracles = {"u", "v"}
  Weights = {4, 6, 9}
  BeatIntervals = {0, 1}
  MissLimits = {0, 2}
  ParamUpdates <- MCParamUpdates
  Confidences = {0, 7}
  MANAGER_MIN_ORACLES = 3
  ORACLE_TIMEOUT = 1
  MIN_CONFIDENCE = 7
  MinStart = 5
  InitialReputation = 80
  MissPenalty = 40
  MaxManagerTime = 7
  MaxTotalMissed = 2
CHECK_DEADLOCK FALSE
ACTION_CONSTRAINT Focus
PROPERTIES
  ArchivedBeforePruned
