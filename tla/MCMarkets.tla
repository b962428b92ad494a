------------------------------ MODULE MCMarkets ------------------------------
(***************************************************************************)
(* The contracts that pool the users' tokens, side by side: the two pools  *)
(* of liquidity_pool.rs and the storage of their tokens, the vault, the    *)
(* two stability pools, staking and the escrow; and those that keep debts  *)
(* and positions: stablecoin, synthetic assets, the monitored positions    *)
(* and their analytics. None of them calls another: contract says which    *)
(* one moves, the others stay as they start.                               *)
(***************************************************************************)
EXTENDS Integers, TLC, Maps

CONSTANTS
  Contracts, NumUsers, U64, BPS, TIME, YEAR,
  FeeRates, PoolAmounts, Limits, MaxReserve, MaxFees, MaxLiquidity, DEFAULT_FEE_BPS, flash_loan_fee_bps,
  VaultAmounts, Apys, Thresholds, PerformanceFees, MAX_PERFORMANCE_FEE_BPS, MAX_STRATEGIES, MaxVaultAssets,
  LpAmounts, MaxLpSupply,
  DefaultTiers, Durations, Rates, StakeAmounts, MaxTime,
  EscrowIds, EscrowAmounts, EscrowDurations, Preimages, MaxEscrowTime,
  BoostAmounts, MAX_BOOST_TIME, MaxBalance, MaxBoostClock,
  StabAmounts, StabTokens, TokenCaps, Intervals, ParamSets,
  BASE_REWARD_RATE_BPS, EARLY_WITHDRAWAL_PENALTY_BPS, MAX_DEPOSIT_RATIO, LIQUIDATION_REWARD_SHARE_BPS,
  STABLECOIN_SUPPLY, CollateralHealth, DAILY_LIMIT, MIN_CAP, MAX_CAP, SENSITIVITY_BPS, Overrides,
  SCALE, DAY, HOUR, LARGE_BPS, AdminIsContract, MaxIndex, MaxQueue, MaxRecords, MaxStabTime,
  DEBT_U64, Collaterals, CoinAmounts, CollateralAmounts, MinRatios, CoinFees, MIN_DEBT, MAX_DEBT, COIN_MIN_RATIO,
  COIN_PENALTY, MaxCollateral,
  AssetTerms, SynthTokens, SynthAmounts, SynthCollaterals, SynthStakes, RiskSets, SYNTH_MIN_RATIO, SYNTH_PENALTY,
  STAKING_REWARD_RATE_BPS, PRICE, MaxAssets, MaxSupply, MaxSynthFees, MaxDeposit, MaxSynthTime,
  PmAssets, PmRatios, PmCollaterals, Deltas, Volatilities, Markets, Ages, AlertTypes, MAX_BATCH_SIZE,
  MONITORING_INTERVAL, ALERT_DEDUP_WINDOW, PM_DAY, REBALANCING_THRESHOLD, MaxPmLedger, MaxPositions, MaxAlerts,
  AnlPrices, Sizes, Stakes, PRICE_UNIT, AnlDay, MaxSamples, MaxAnlTime

VARIABLES
  contract,
  pool, fee_bps, sim, desk, vault, lp_balance, lp_supply, tiers, stakes, now, payouts, escrows, escrow_now,
  depositors, boost_now,
  books, withdrawals, cap, pool_tokens, token_deposits, stab_admin, records, stab_now,
  coin, vaults, ratios,
  assets, positions, protocol, stakers, synth_now,
  held, meta, alerts, raised, ledger,
  anl, lowest, anl_now

Pool      == INSTANCE LiquidityPool
Sim       == INSTANCE LiquidityPoolSim
Yield     == INSTANCE Vault
LpTokens  == INSTANCE LpTokenStorage
Locked    == INSTANCE Staking
Held      == INSTANCE Escrow
Boosted   == INSTANCE BoostedPool
Stability == INSTANCE StabilityPool
Coins     == INSTANCE Stablecoin WITH
  U64 <- DEBT_U64, MIN_COLLATERAL_RATIO <- COIN_MIN_RATIO, LIQUIDATION_PENALTY_BPS <- COIN_PENALTY
Synthetics == INSTANCE SyntheticProtocol WITH
  U64 <- DEBT_U64, MIN_COLLATERAL_RATIO <- SYNTH_MIN_RATIO, LIQUIDATION_PENALTY_BPS <- SYNTH_PENALTY,
  MaxFees <- MaxSynthFees
Monitor   == INSTANCE PositionManager
Analytics == INSTANCE PositionAnalytics

ASSUME PoolInputs == Pool!LiquidityPoolAssumption
ASSUME SimInputs == Sim!LiquidityPoolSimAssumption
ASSUME YieldInputs == Yield!VaultAssumption
ASSUME LpTokensInputs == LpTokens!LpTokenStorageAssumption
ASSUME LockedInputs == Locked!StakingAssumption
ASSUME HeldInputs == Held!EscrowAssumption
ASSUME BoostedInputs == Boosted!BoostedPoolAssumption
ASSUME StabilityInputs == Stability!StabilityPoolAssumption
ASSUME CoinsInputs == Coins!StablecoinAssumption
ASSUME SyntheticsInputs == Synthetics!SyntheticProtocolAssumption
ASSUME MonitorInputs == Monitor!PositionManagerAssumption
ASSUME AnalyticsInputs == Analytics!PositionAnalyticsAssumption

poolVars   == <<pool, fee_bps>>
simVars    == <<sim, desk>>
lpVars     == <<lp_balance, lp_supply>>
lockVars   == <<tiers, stakes, now, payouts>>
escrowVars == <<escrows, escrow_now>>
boostVars  == <<depositors, boost_now>>
stabVars   == <<books, withdrawals, cap, pool_tokens, token_deposits, stab_admin, records, stab_now>>
coinVars   == <<coin, vaults, ratios>>
synthVars  == <<assets, positions, protocol, stakers, synth_now>>
pmVars     == <<held, meta, alerts, raised, ledger>>
anlVars    == <<anl, lowest, anl_now>>
vars == <<contract, poolVars, simVars, vault, lpVars, lockVars, escrowVars, boostVars, stabVars,
          coinVars, synthVars, pmVars, anlVars>>

Init ==
  /\ contract \in Contracts
  /\ Pool!PoolInit /\ Sim!SimInit /\ Yield!VaultInit /\ LpTokens!LpInit
  /\ Locked!StakingInit /\ Held!EscrowInit /\ Boosted!BoostInit /\ Stability!StabInit
  /\ Coins!CoinInit /\ Synthetics!SynthInit /\ Monitor!PmInit /\ Analytics!AnlInit
  /\ contract # "sim" => desk.fee = 0
  /\ protocol.risk.threshold # 0

Next ==
  /\ UNCHANGED contract
  /\ \/ contract = "pool" /\ Pool!PoolNext
     \/ contract # "pool" /\ UNCHANGED poolVars
  /\ \/ contract = "sim" /\ Sim!SimNext
     \/ contract # "sim" /\ UNCHANGED simVars
  /\ \/ contract = "vault" /\ Yield!VaultNext
     \/ contract # "vault" /\ UNCHANGED vault
  /\ \/ contract = "lp" /\ LpTokens!LpNext
     \/ contract # "lp" /\ UNCHANGED lpVars
  /\ \/ contract = "staking" /\ Locked!StakingNext
     \/ contract # "staking" /\ UNCHANGED lockVars
  /\ \/ contract = "escrow" /\ Held!EscrowNext
     \/ contract # "escrow" /\ UNCHANGED escrowVars
  /\ \/ contract = "boosted" /\ Boosted!BoostNext
     \/ contract # "boosted" /\ UNCHANGED boostVars
  /\ \/ contract = "stability" /\ Stability!StabNext
     \/ contract # "stability" /\ UNCHANGED stabVars
  /\ \/ contract = "coin" /\ Coins!CoinNext
     \/ contract # "coin" /\ UNCHANGED coinVars
  /\ \/ contract = "synthetic" /\ Synthetics!SynthNext
     \/ contract # "synthetic" /\ UNCHANGED synthVars
  /\ \/ contract = "monitor" /\ Monitor!PmNext
     \/ contract # "monitor" /\ UNCHANGED pmVars
  /\ \/ contract = "analytics" /\ Analytics!AnlNext
     \/ contract # "analytics" /\ UNCHANGED anlVars

Spec == Init /\ [][Next]_vars

MCDefaultTiers == 1 :> 5000
MCLpAmounts == {-1, 1, 2}
MCParamSets == {[rate |-> 0, penalty |-> 0, ratio |-> 4000, share |-> 10000],
                [rate |-> 2001, penalty |-> 0, ratio |-> 4000, share |-> 10000]}

MCAssetTerms == {[min_ratio |-> 15000, fee_bps |-> 1000, active |-> TRUE],
                 [min_ratio |-> 15000, fee_bps |-> 0, active |-> FALSE]}
MCRiskSets == {[max_debt |-> 20, threshold |-> 12000], [max_debt |-> 10, threshold |-> 0]}
MCDeltas == {-1}

\* When a deposit was made and what it claimed so far, nothing asks; nor for the
\* score that is kept of a position, nor for the collateral of a synthetic asset.
View ==
  <<contract, poolVars, simVars, vault, lpVars, lockVars, escrowVars, boostVars,
    [books EXCEPT !.deposits = [u \in DOMAIN @ |-> <<@[u].amount, @[u].reward_index>>]],
    withdrawals, cap, pool_tokens, token_deposits, stab_admin, records, stab_now,
    coinVars, [a \in DOMAIN assets |-> <<assets[a].terms, assets[a].supply>>], positions, protocol,
    stakers, synth_now, held, [id \in DOMAIN meta |-> [meta[id] EXCEPT !.score = 0]],
    alerts, raised, ledger, anlVars>>

\* Of the stability pool's features one is in use in a behaviour, and those
\* that are not about rewards without claims of them; the second user withdraws
\* all or nothing.
StabilityFocus ==
  LET used == <<withdrawals'.queue # <<>> \/ withdrawals'.withdrawn > 0, pool_tokens' # EmptyMap,
                stab_admin'.paused \/ stab_admin'.ratio # MAX_DEPOSIT_RATIO, records'.migrations # <<>>, records'.distributions # <<>>,
                cap' # [current |-> 0, override |-> 0], books'.auto # EmptyMap,
                \E u \in DOMAIN books'.deposits : books'.deposits[u].reward_index > 0>>
  IN  /\ Len(SelectSeq(SubSeq(used, 1, 6), LAMBDA x : x)) + (IF used[7] \/ used[8] THEN 1 ELSE 0) <= 1
      /\ 2 \in DOMAIN books'.deposits => books'.deposits[2].amount >= 10
      /\ \A u \in DOMAIN books'.deposits : books'.deposits[u].amount <= 12
      /\ used[7] \/ used[8] => \A u \in DOMAIN books'.deposits : books'.deposits[u].amount >= 10
      /\ 2 \in DOMAIN books'.auto => books'.auto[2].enabled /\ books'.auto[2].last = 0
      /\ \A k \in DOMAIN token_deposits' : k[1] = 1 /\ token_deposits'[k] <= 4

\* Of the stablecoin, one of fees, pool and pause is touched in a behaviour; the
\* second user has one collateral.
CoinFocus ==
  /\ Len(SelectSeq(<<coin'.pool > 0, coin'.paused, coin'.minting_fee # 50, coin'.redemption_fee # 50>>, LAMBDA x : x)) <= 1
  /\ coin'.minted_fees <= 3
  /\ 2 \in DOMAIN vaults' => DOMAIN vaults'[2].deposits \subseteq {"xlm"}

\* Positions are made in two ledgers, at 110%, by the second user in the first.
\* Alerts and collateral are followed where there is one position, and more
\* positions without them.
PmFocus ==
  /\ DOMAIN meta' \subseteq {1, 2}
  /\ DOMAIN raised' \subseteq (DOMAIN meta') \X AlertTypes
  /\ Len(held'[2]) <= 1 /\ (2 \in DOMAIN meta' => meta'[2].owner = 1)
  /\ Len(held'[1]) > Len(held[1]) => held'[1][Len(held'[1])].ratio = 11000
  /\ Len(held'[2]) > Len(held[2]) => held'[2][Len(held'[2])].ratio = 11000
  /\ Len(held'[1]) + Len(held'[2]) > 1 \/ 2 \in DOMAIN meta' =>
       /\ raised' = EmptyMap
       /\ \A u \in Monitor!Traders : \A i \in DOMAIN held'[u] : held'[u][i].collateral = 1
  /\ meta' = meta /\ raised' # raised => DOMAIN raised' \subseteq {1, 2} \X {"OracleFailure", "LowCollateral"}

\* Of the synthetic assets, stakers have nothing to do with the rest, and the
\* second user nothing with the second asset; a pause and new parameters come
\* with one asset.
SynthFocus ==
  /\ <<2, 2>> \notin DOMAIN positions'
  /\ stakers' # EmptyMap \/ synth_now' > 0 => assets' = <<>> /\ ~protocol'.paused /\ protocol'.risk.max_debt = 20
  /\ \A u \in DOMAIN stakers' : stakers'[u].amount <= 2 /\ stakers'[u].claimed <= 2
  /\ protocol'.paused \/ protocol'.risk.max_debt < 20 => Len(assets') = 1
  /\ Len(assets') = 2 => assets'[2].supply <= 10

Focus ==
  /\ contract = "stability" => StabilityFocus
  /\ contract = "coin" => CoinFocus
  /\ contract = "synthetic" => SynthFocus
  /\ contract = "monitor" => PmFocus

(* Each contract's own books add up to what it promised its users, and what   *)
(* circulates is what is owed: see PositionsCoverLiquidity and SimCovered of  *)
(* the pools, VaultSound, LpSupplyHeld, DepositsAddUp of the stability pool,  *)
(* CoinsAreOwed of Stablecoin and SupplyIsHeld of SyntheticProtocol.          *)
BooksAgree ==
  /\ contract = "pool" => Pool!PositionsCoverLiquidity
  /\ contract = "sim" => Sim!SimCovered
  /\ contract = "vault" => Yield!VaultSound
  /\ contract = "lp" => LpTokens!LpSupplyHeld
  /\ contract = "stability" => Stability!DepositsAddUp
  /\ contract = "coin" => Coins!CoinsAreOwed
  /\ contract = "synthetic" => Synthetics!SupplyIsHeld

(* Nobody gets more than was earned: see PaidForTheLock of Staking and        *)
(* BoostEarned of BoostedPool.                                                *)
EarnedOnly ==
  /\ contract = "staking" => Locked!PaidForTheLock
  /\ contract = "boosted" => Boosted!BoostEarned

(* What is told of a position is what happened to it: see AlertsSpaced of     *)
(* PositionManager and DrawdownIsWorst of PositionAnalytics.                  *)
PositionsAreWatched ==
  /\ contract = "monitor" => Monitor!AlertsSpaced
  /\ contract = "analytics" => Analytics!DrawdownIsWorst

(* No step of one user takes from the shares the others keep, at any          *)
(* rounding or overflow: see LiquidityKeepsWorth, SimKeepsWorth and           *)
(* SharesKeepWorth.                                                           *)
WorthKept == Pool!LiquidityKeepsWorth /\ Sim!SimKeepsWorth /\ Yield!SharesKeepWorth

(* What was promised, settled or closed stays so: see StakesAreKept of        *)
(* Staking, SettledOnce of Escrow, IndexGrows of StabilityPool and            *)
(* ClosedForGood of PositionManager.                                          *)
KeptForGood == Locked!StakesAreKept /\ Held!SettledOnce /\ Stability!IndexGrows /\ Monitor!ClosedForGood
=============================================================================
