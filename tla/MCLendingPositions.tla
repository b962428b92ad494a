------------------------- MODULE MCLendingPositions -------------------------
(***************************************************************************)
(* One user, two assets whose prices move: collateral of one asset against *)
(* debt in the other, collateral switched off and on, prices missing, and  *)
(* liquidation after a price moved.                                        *)
(***************************************************************************)
EXTENDS Lending

Flat == [base_rate |-> 0, slope_1 |-> 0, slope_2 |-> 0, optimal_utilization |-> 8]

Reserve ==
  [collateral_factor_bps |-> 8, liquidation_threshold_bps |-> 9,
   liquidation_bonus_bps |-> 1, reserve_factor_bps |-> 1,
   flash_loan_fee_bps |-> 1, borrow_enabled |-> TRUE,
   deposit_enabled |-> TRUE, flash_loan_enabled |-> FALSE,
   supply_cap |-> 0, borrow_cap |-> 0, interest_rate_model |-> NoModel]

MCModels == {Flat}
MCConfigs == {Reserve}
MCSanity == {[max_price_age_secs |-> 0, max_price_deviation_bps |-> 0,
              min_price |-> 1, max_price |-> 0]}
MCRegistries == {{"XLM", "USDC"}}

\* Only XLM's price moves, and the pause is left to others.
Focus == ~paused' /\ prices'["USDC"].price \in {0, 10}

\* No action reads what the last call returned, and the properties only read
\* what a step returns.
View == <<reserves, accounts, configVars, oracleVars>>
=============================================================================
