-------------------------- MODULE MCLendingAdmin --------------------------
(***************************************************************************)
(* One user and one reserve under an administrator who changes everything  *)
(* that can be changed, in the middle of positions: configurations, caps,  *)
(* models, factors, the pause, the registry and the collected fees.        *)
(***************************************************************************)
EXTENDS Lending

Flat  == [base_rate |-> 0, slope_1 |-> 0, slope_2 |-> 0, optimal_utilization |-> 10]
Kinked == [base_rate |-> 2, slope_1 |-> 8, slope_2 |-> 10, optimal_utilization |-> 5]

Open ==
  [collateral_factor_bps |-> 10, liquidation_threshold_bps |-> 10,
   liquidation_bonus_bps |-> 0, reserve_factor_bps |-> 10,
   flash_loan_fee_bps |-> 0, borrow_enabled |-> TRUE,
   deposit_enabled |-> TRUE, flash_loan_enabled |-> TRUE,
   supply_cap |-> 0, borrow_cap |-> 0, interest_rate_model |-> NoModel]

Closed == [Open EXCEPT !.borrow_enabled = FALSE, !.deposit_enabled = FALSE,
                       !.flash_loan_enabled = FALSE, !.reserve_factor_bps = 0]

MCModels == {Flat, Kinked}
MCConfigs == {Open, Closed}
MCSanity == {[max_price_age_secs |-> 0, max_price_deviation_bps |-> 0,
              min_price |-> 1, max_price |-> 10]}
MCRegistries == {{}, {"XLM"}}

Focus == \A u \in Users :
           accounts'[u].collateral_enabled = accounts[u].collateral_enabled

View == <<reserves, accounts, configVars, oracleVars>>
=============================================================================
