-------------------------- MODULE SyntheticProtocol --------------------------
(***************************************************************************)
(* SyntheticProtocolContract of synthetic_protocol.rs: synthetic assets    *)
(* minted against collateral, burned, liquidated; fees; stakers. Anyone    *)
(* acts for anyone.                                                        *)
(*                                                                         *)
(* The mint values collateral at the price of the asset, which the mock    *)
(* gives 8 decimals and calls 6: a unit is worth PRICE, a hundred. The     *)
(* ratio counts a unit as one. Left out: the value locked, which only      *)
(* grows and nothing reads; prices, which update_oracle_price checks and   *)
(* does not keep.                                                          *)
(***************************************************************************)
EXTENDS Integers, FiniteSets, Functions, Maps

CONSTANTS
  NumUsers, U64,
  AssetTerms,                 \* what an admin lists: min_ratio, fee_bps, active
  SynthTokens,                \* the tokens of collateral
  SynthAmounts, SynthCollaterals, SynthStakes,   \* what callers pass
  RiskSets,                   \* risk parameters
  MIN_COLLATERAL_RATIO, LIQUIDATION_PENALTY_BPS, STAKING_REWARD_RATE_BPS,
  PRICE, YEAR,
  AdminIsContract,            \* the administrator is the contract itself: the one require_admin accepts
  MaxAssets, MaxSupply, MaxFees, MaxDeposit, MaxSynthTime   \* bounds of the model

SyntheticProtocolAssumption ==
  /\ NumUsers \in Nat /\ {U64, YEAR} \subseteq Nat \ {0}
  /\ AssetTerms \subseteq [min_ratio : Nat, fee_bps : Nat, active : BOOLEAN]
  /\ RiskSets # {} /\ RiskSets \subseteq [max_debt : 0 .. (U64 - 1), threshold : Nat]
  /\ SynthAmounts \subseteq Nat /\ SynthCollaterals \subseteq Nat
  /\ {PRICE, LIQUIDATION_PENALTY_BPS} \subseteq Nat /\ MaxSupply \in 0 .. (U64 - 1)
  /\ AdminIsContract \in BOOLEAN

VARIABLES
  assets,      \* the listed assets; the code numbers them from 1, too
  positions,   \* <<user, asset>> -> position
  protocol,    \* risk parameters, pause, fees, and the statistics
  stakers,     \* user -> stake
  synth_now

Minters == 1 .. NumUsers

SynthInit ==
  /\ assets = <<>>
  /\ positions = EmptyMap
  /\ protocol \in [risk : RiskSets, paused : {FALSE}, fees : {[total |-> 0, stakers |-> 0, treasury |-> 0]},
                   supply : {0}, avg_ratio : {0}]
  /\ stakers = EmptyMap
  /\ synth_now = 0

Wrapped(x) == x % U64
require_admin == AdminIsContract
require_not_paused == ~protocol.paused

Collateral(p) == SumFunction(p.deposits)

calculate_collateral_ratio(p) == IF p.debt = 0 THEN 100000 ELSE (Collateral(p) * 10000) \div p.debt

get_user_debt(u) ==
  SumFunctionOnSet([k \in DOMAIN positions |-> positions[k].debt], {k \in DOMAIN positions : k[1] = u})

\* Mutant: the statistics are brought up to date before the position is stored.
CountedBefore(minted, burned, fee) ==
  LET ratios == SumFunction([k \in DOMAIN positions |-> calculate_collateral_ratio(positions[k])])
      stakers_share == (fee * 8000) \div 10000
  IN  protocol' = [protocol EXCEPT
        !.supply = Wrapped(@ + minted - burned),
        !.avg_ratio = IF positions = EmptyMap THEN @ ELSE ratios \div Cardinality(DOMAIN positions),
        !.fees = [total |-> @.total + fee, stakers |-> @.stakers + stakers_share,
                  treasury |-> @.treasury + (fee - stakers_share)]]

\* update_protocol_stats and distribute_fees, for the positions after the call.
Counted(minted, burned, fee) ==
  LET ratios == SumFunction([k \in DOMAIN positions' |-> calculate_collateral_ratio(positions'[k])])
      stakers_share == (fee * 8000) \div 10000
  IN  /\ protocol.fees.total + fee <= MaxFees
      /\ protocol' = [protocol EXCEPT
           !.supply = Wrapped(@ + minted - burned),
           !.avg_ratio = IF positions' = EmptyMap THEN @ ELSE ratios \div Cardinality(DOMAIN positions'),
           !.fees = [total |-> @.total + fee, stakers |-> @.stakers + stakers_share,
                     treasury |-> @.treasury + (fee - stakers_share)]]

list_asset(terms) ==
  /\ require_admin
  /\ require_not_paused
  /\ terms.min_ratio >= MIN_COLLATERAL_RATIO
  /\ terms.fee_bps <= 1000
  /\ Len(assets) < MaxAssets
  /\ assets' = Append(assets, [terms |-> terms, supply |-> 0, collateral |-> 0])
  /\ UNCHANGED <<positions, protocol, stakers, synth_now>>

\* The ratio kept with a position is the one after the last change of it.
Rated(p) == [p EXCEPT !.ratio = calculate_collateral_ratio(p)]

mint_synthetic(u, a, token, collateral, amount) ==
  LET terms  == assets[a].terms
      fee    == (amount * terms.fee_bps) \div 10000
      minted == amount - fee
      old    == GetOr(positions, <<u, a>>, [synthetic |-> 0, debt |-> 0, deposits |-> EmptyMap, ratio |-> 0])
  IN  /\ require_not_paused
      /\ terms.active
      /\ collateral * PRICE >= (amount * terms.min_ratio) \div 10000
      /\ get_user_debt(u) + amount <= protocol.risk.max_debt
      /\ assets[a].supply + minted <= MaxSupply /\ GetOr(old.deposits, token, 0) + collateral <= MaxDeposit
      /\ positions' = Put(positions, <<u, a>>,
           Rated([old EXCEPT !.synthetic = @ + minted, !.debt = @ + amount,
                             !.deposits = Put(@, token, GetOr(@, token, 0) + collateral)]))
      /\ assets' = [assets EXCEPT ![a].supply = @ + minted, ![a].collateral = Wrapped(@ + collateral)]
      /\ Counted(minted, 0, fee)
      /\ UNCHANGED <<stakers, synth_now>>

\* No ratio is asked for: all of the collateral may leave with none of the debt.
burn_synthetic(u, a, token, collateral, amount) ==
  LET old  == positions[<<u, a>>]
      held == GetOr(old.deposits, token, 0)
      left == old.synthetic - amount
  IN  /\ require_not_paused
      /\ <<u, a>> \in DOMAIN positions
      /\ old.synthetic >= amount
      /\ held >= collateral
      /\ positions' = [positions EXCEPT ![<<u, a>>] =
           Rated([old EXCEPT !.synthetic = left, !.debt = Wrapped(@ - amount),
                             !.deposits = IF left = 0 THEN Drop(@, token) ELSE Put(@, token, held - collateral)])]
      /\ assets' = [assets EXCEPT ![a].supply = Wrapped(@ - amount), ![a].collateral = Wrapped(@ - collateral)]
      /\ Counted(0, amount, 0)
      /\ UNCHANGED <<stakers, synth_now>>

\* The asset's collateral is reduced by the debt, "Simplified", and wraps.
liquidate_position(u, a) ==
  LET old     == positions[<<u, a>>]
      penalty == (old.debt * PRICE * LIQUIDATION_PENALTY_BPS) \div 10000
  IN  /\ require_not_paused
      /\ <<u, a>> \in DOMAIN positions
      /\ calculate_collateral_ratio(old) < protocol.risk.threshold
      /\ positions' = Drop(positions, <<u, a>>)
      /\ assets' = [assets EXCEPT ![a].supply = Wrapped(@ - old.synthetic), ![a].collateral = Wrapped(@ - old.debt)]
      /\ Counted(0, old.synthetic, penalty)
      /\ UNCHANGED <<stakers, synth_now>>

stake(u, amount) ==
  LET old == GetOr(stakers, u, [amount |-> 0, since |-> synth_now, claimed |-> 0])
  IN  /\ require_not_paused
      /\ amount > 0
      /\ old.amount + amount <= MaxSupply
      /\ stakers' = Put(stakers, u, [old EXCEPT !.amount = @ + amount])
      /\ UNCHANGED <<assets, positions, protocol, synth_now>>

\* Rewards are counted from the first stake on, every time. The bound is on
\* how often.
unstake(u, amount) ==
  LET rewards == (stakers[u].amount * STAKING_REWARD_RATE_BPS * (synth_now - stakers[u].since)) \div (10000 * YEAR)
  IN  /\ require_not_paused
      /\ u \in DOMAIN stakers
      /\ stakers[u].amount >= amount
      /\ stakers[u].claimed + rewards <= MaxSupply
      /\ stakers' = [stakers EXCEPT ![u].amount = @ - amount, ![u].claimed = @ + rewards]
      /\ UNCHANGED <<assets, positions, protocol, synth_now>>

SetPaused(paused) ==
  /\ require_admin
  /\ protocol' = [protocol EXCEPT !.paused = paused]
  /\ UNCHANGED <<assets, positions, stakers, synth_now>>

update_risk_params(risk) ==
  /\ require_admin
  /\ protocol' = [protocol EXCEPT !.risk = risk]
  /\ UNCHANGED <<assets, positions, stakers, synth_now>>

SynthElapse ==
  /\ synth_now < MaxSynthTime
  /\ synth_now' = synth_now + 1
  /\ UNCHANGED <<assets, positions, protocol, stakers>>

SynthNext ==
  \/ \E terms \in AssetTerms : list_asset(terms)
  \/ \E u \in Minters, a \in DOMAIN assets :
       \/ \E token \in SynthTokens, collateral \in SynthCollaterals, amount \in SynthAmounts :
            \/ mint_synthetic(u, a, token, collateral, amount)
            \/ burn_synthetic(u, a, token, collateral, amount)
       \/ liquidate_position(u, a)
  \/ \E u \in Minters, amount \in SynthStakes : stake(u, amount) \/ unstake(u, amount)
  \/ \E paused \in BOOLEAN : SetPaused(paused)
  \/ \E risk \in RiskSets : update_risk_params(risk)
  \/ SynthElapse

PositionsOf(a) == {k \in DOMAIN positions : k[2] = a}

(* Three ledgers of the same amounts agree through mints, burns and           *)
(* liquidations: the supply of an asset is what the positions hold of it, the *)
(* statistics count all supplies although each burn underflows on the way,    *)
(* and the average ratio is that of the positions there are. A position owes  *)
(* what it holds and the fees: nothing that is burned comes short of a debt.  *)
SupplyIsHeld ==
  /\ \A a \in DOMAIN assets : 
       assets[a].supply = SumFunctionOnSet([k \in DOMAIN positions |-> positions[k].synthetic], PositionsOf(a))
  /\ protocol.supply = Wrapped(SumTo([a \in DOMAIN assets |-> assets[a].supply], Len(assets)))
  /\ \A k \in DOMAIN positions :
       /\ 0 <= positions[k].synthetic /\ positions[k].synthetic <= positions[k].debt
       /\ positions[k].ratio = calculate_collateral_ratio(positions[k])
  /\ positions # EmptyMap =>
       protocol.avg_ratio = SumFunction([k \in DOMAIN positions |-> positions[k].ratio])
                              \div Cardinality(DOMAIN positions)
=============================================================================
