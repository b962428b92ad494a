SPECIFICATION MCSpec
CONSTANTS
  Addresses = {alice, bob}
  BALANCE = 1
  TOTAL_SUPPLY = 10
  BPS = 10
  DEFAULT_VOTING_PERIOD = 2
  MIN_VOTING_PERIOD = 1
  MAX_VOTING_PERIOD = 2
  DEFAULT_QUORUM_BPS = 2
  MIN_QUORUM_BPS = 1
  MAX_QUORUM_BPS = 5
  EXECUTION_DELAY = 2
  MIN_PROPOSAL_THRESHOLD_BPS = 2
  AdminIsContract = TRUE
  Params <- MCParams
  MaxTime = 5
  MaxProposals = 1
  MaxVotes = 3
  g_Powers = {1}
  g_Times = {0, 1, 2}
  g_PROPOSAL_THRESHOLD = 0
  g_TOTAL_POSSIBLE_VOTES = 4
  g_BPS = 4
  g_QUORUM = 1
  g_VOTING_PERIOD = 1
  g_EXECUTION_DELAY = 1
  g_Quorums = {2}
  g_Periods = {1}
  g_Delays = {0}
  g_Notices = {0}
  g_DEFAULT_NOTICE = 1
  g_MaxProposals = 2
  s_Addresses = {1, 2}
  s_Admin = 1
  s_POWER = 1
  s_DEFAULT_VOTING_PERIOD = 2
  s_MIN_VOTING_PERIOD = 2
  s_MAX_VOTING_PERIOD = 3
  s_EMERGENCY_VOTING_PERIOD = 1
  s_MIN_POWER_TO_PROPOSE = 2
  s_Params <- SyntheticParams
SYMMETRY Symmetry
VIEW View
INVARIANTS
  VotesDecide
  TimesAreKept
PROPERTIES
  ImplementsBallot
  OthersImplementBallot
  TermsAreKept
  PauseFreezes
  SyntheticKept
