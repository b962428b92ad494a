------------------------- MODULE MCLendingAccounts -------------------------
(***************************************************************************)
(* One reserve, two users, a fixed price: deposits, withdrawals, borrowing *)
(* and repayment with every rounding, interest high enough to be at least  *)
(* one unit, liquidation of positions that interest made unhealthy.        *)
(***************************************************************************)
EXTENDS Lending

\* At full utilization the debt trebles in a unit of time.
Steep == [base_rate |-> 0, slope_1 |-> 20, slope_2 |-> 0, optimal_utilization |-> 10]

Reserve ==
  [collateral_factor_bps |-> 8, liquidation_threshold_bps |-> 9,
   liquidation_bonus_bps |-> 1, reserve_factor_bps |-> 5,
   flash_loan_fee_bps |-> 1, borrow_enabled |-> TRUE,
   deposit_enabled |-> TRUE, flash_loan_enabled |-> TRUE,
   supply_cap |-> 0, borrow_cap |-> 0, interest_rate_model |-> NoModel]

MCModels == {Steep}
MCConfigs == {Reserve}
MCSanity == {[max_price_age_secs |-> 0, max_price_deviation_bps |-> 0,
              min_price |-> 1, max_price |-> 0]}
MCRegistries == {{"XLM"}}

\* This run leaves the collateral flags, the pause and the close factor to others.
Focus ==
  /\ ~paused'
  /\ \A u \in Users :
       accounts'[u].collateral_enabled = accounts[u].collateral_enabled

\* No action and no property of this run reads what the last call returned, and
\* none tells the two users apart: which account is whose does not matter.
View == <<reserves, {accounts[u] : u \in Users}, configVars, oracleVars>>

\* The instance of the claim below: one user, no interest, no fee that matters.
Flat == [base_rate |-> 0, slope_1 |-> 0, slope_2 |-> 0, optimal_utilization |-> 10]
Plain == [Reserve EXCEPT !.reserve_factor_bps = 1, !.flash_loan_fee_bps = 0, !.flash_loan_enabled = FALSE]

FlatModel == {Flat}
OneConfig == {Plain}
AllAllowed == {Assets}

(* invariant_tests.rs:10-13, for every sequence of operations: what the users' *)
(* supply shares are worth adds up to what backs them, so that the shares add  *)
(* up to the total. A withdraw without liquidity burns the user's side alone.  *)
SupplySharesMatch ==
  \A a \in Listed : SumTo(SupplyOf(a), NumUsers) = reserves[a].total_supply_shares
=============================================================================
