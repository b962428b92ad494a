---------------------------- MODULE MCLendingGov ----------------------------
(***************************************************************************)
(* Two administrators who sign together; the second multisig asks for more *)
(* signatures than it has members, the third lets one act alone. Every     *)
(* kind of action is proposed, twice at most, over one reserve; a proposal *)
(* with a negative amount books the fees another one then collects.        *)
(***************************************************************************)
EXTENDS LendingGov

Flat == [base_rate |-> 0, slope_1 |-> 0, slope_2 |-> 0, optimal_utilization |-> 10]

Reserve ==
  [collateral_factor_bps |-> 8, liquidation_threshold_bps |-> 9,
   liquidation_bonus_bps |-> 1, reserve_factor_bps |-> 10,
   flash_loan_fee_bps |-> 0, borrow_enabled |-> FALSE,
   deposit_enabled |-> TRUE, flash_loan_enabled |-> TRUE,
   supply_cap |-> 0, borrow_cap |-> 0, interest_rate_model |-> NoModel]

Cautious == [Reserve EXCEPT !.collateral_factor_bps = 5, !.deposit_enabled = FALSE]

MCModels == {Flat}
MCConfigs == {Reserve, Cautious}
MCSanity == {[max_price_age_secs |-> 0, max_price_deviation_bps |-> 0,
              min_price |-> 1, max_price |-> 0]}
MCRegistries == {{"XLM"}}

Both        == [admins |-> {"ann", "bob"}, threshold |-> 2]
Stuck       == [admins |-> {"ann"}, threshold |-> 2]
OneIsEnough == [admins |-> {"ann"}, threshold |-> 1]

MCFeeRequests == {1, -1}
MCMultiSigs == {Both, Stuck, OneIsEnough}
MCActions ==
  {[kind |-> "SetCloseFactor", bps |-> 10],
   [kind |-> "RegisterAsset", asset |-> "XLM", config |-> Reserve],
   [kind |-> "UpdateReserveConfig", asset |-> "XLM", config |-> Cautious],
   [kind |-> "UpdateMultiSig", config |-> Stuck],
   [kind |-> "UpdateMultiSig", config |-> OneIsEnough],
   [kind |-> "CollectProtocolFees", asset |-> "XLM", amount |-> 1],
   [kind |-> "CollectProtocolFees", asset |-> "XLM", amount |-> -1]}

\* Users, prices and the pause play no part here.
Focus == ~paused' /\ UNCHANGED <<accounts, oracleVars>>

View == <<reserves, accounts, configVars, oracleVars, govVars>>
=============================================================================
