------------------------------ MODULE Lending ------------------------------
(***************************************************************************)
(* The lending protocol of contracts/lending.rs: reserves with supply and  *)
(* debt shares, accounts, interest accrued lazily by every operation,      *)
(* collateral checks against the price oracle, liquidation, flash loans,   *)
(* fees, the emergency pause and the administrator's setters.              *)
(*                                                                         *)
(* One action is one call. A call that is rejected before it changes       *)
(* anything is not a step. A call that fails later keeps what it had       *)
(* already changed: the struct is mutated in place and `?' returns early,  *)
(* nothing is rolled back unless the code does it itself. `result' is what *)
(* the last call returned. Every call carries its own timestamp, as in the *)
(* code, where `now' is a parameter.                                       *)
(***************************************************************************)
EXTENDS LendingMath, OracleSim, Maps, Functions

CONSTANTS NumUsers,        \* the users are 1..NumUsers
          Amounts,         \* the amounts users pass
          Timestamps,      \* the times at which calls are made
          Models, NoModel, \* interest rate models, and the absence of one
          Configs,         \* the reserve configurations administrators use
          CloseFactors, ReserveFactors, Caps, FeeRequests,
          Registries,      \* the sets of assets a registry may allow
          MaxCash, MaxDebt \* bounds on what one reserve holds and is owed

Users == 1..NumUsers

InterestRateModel ==
  [base_rate : Nat, slope_1 : Nat, slope_2 : Nat, optimal_utilization : Nat \ {0}]

ReserveConfig ==
  [collateral_factor_bps : Nat, liquidation_threshold_bps : Nat,
   liquidation_bonus_bps : Nat, reserve_factor_bps : Nat,
   flash_loan_fee_bps : Nat, borrow_enabled : BOOLEAN,
   deposit_enabled : BOOLEAN, flash_loan_enabled : BOOLEAN,
   supply_cap : Nat, borrow_cap : Nat, interest_rate_model : Models \cup {NoModel}]

ASSUME LendingAssumption ==
  /\ NumUsers \in Nat
  /\ Amounts \subseteq Nat \ {0}
  /\ Timestamps \subseteq Nat
  /\ Models \subseteq InterestRateModel
  /\ Models # {}
  /\ NoModel \notin Models
  /\ Configs \subseteq ReserveConfig
  /\ CloseFactors \subseteq Nat
  /\ ReserveFactors \subseteq Nat
  /\ Caps \subseteq Nat
  /\ FeeRequests \subseteq Int
  /\ Registries \subseteq SUBSET Assets
  /\ MaxCash \in Nat
  /\ MaxDebt \in Nat

VARIABLES
  reserves,                     \* asset -> ReserveState
  reserve_configs,              \* asset -> ReserveConfig
  accounts,                     \* user -> AccountPosition
  default_interest_rate_model,
  close_factor_bps,
  paused,
  approved,                     \* the assets the attached registry allows
  result                        \* "Ok" or "Err": what the last call returned

configVars == <<reserve_configs, default_interest_rate_model, close_factor_bps,
                paused, approved>>
vars == <<reserves, accounts, configVars, oracleVars, result>>

ReserveState ==
  [total_cash : Int, total_debt : Int, total_supply_shares : Int,
   total_debt_shares : Int, protocol_fees : Int, last_accrual_ts : Nat]

AccountPosition(supplied, debt, enabled) ==
  [supplied_shares |-> supplied, debt_shares |-> debt, collateral_enabled |-> enabled]

IsAccountPosition(p) ==
  /\ p = AccountPosition(p.supplied_shares, p.debt_shares, p.collateral_enabled)
  /\ IsMap(p.supplied_shares, Assets, Int)
  /\ IsMap(p.debt_shares, Assets, Int)
  /\ p.collateral_enabled \in [Assets -> BOOLEAN]

Listed == DOMAIN reserve_configs

TypeOK ==
  /\ OracleTypeOK
  /\ IsMap(reserve_configs, Assets, ReserveConfig)
  /\ reserves \in [Listed -> ReserveState]
  /\ accounts = [u \in Users |-> accounts[u]]
  /\ \A u \in Users : IsAccountPosition(accounts[u])
  /\ default_interest_rate_model \in Models
  /\ close_factor_bps \in Nat
  /\ paused \in BOOLEAN
  /\ approved \subseteq Assets
  /\ result \in {"Ok", "Err"}

NoPosition == AccountPosition(EmptyMap, EmptyMap, [a \in Assets |-> TRUE])

Init ==
  /\ OracleInit
  /\ reserves = EmptyMap
  /\ reserve_configs = EmptyMap
  /\ accounts = [u \in Users |-> NoPosition]
  /\ default_interest_rate_model \in Models
  /\ close_factor_bps = BPS_DENOMINATOR \div 2
  /\ paused = FALSE
  /\ approved = Assets
  /\ result = "Ok"

-----------------------------------------------------------------------------
(* What a call leaves behind *)

\* The model's bound: no reserve outgrows MaxCash and MaxDebt.
Bounded(res) ==
  \A a \in DOMAIN res :
    res[a].total_cash <= MaxCash /\ res[a].total_debt <= MaxDebt

Returns(answer, res, accts) ==
  /\ Bounded(res)
  /\ reserves' = res
  /\ accounts' = accts
  /\ result' = answer

Succeeds(res, accts) == Returns("Ok", res, accts)
Fails(res, accts)    == Returns("Err", res, accts)

\* Mutant: a guard that was dropped.
NotPausedUnchecked == TRUE
AnyAssetAllowed(a) == a \in Assets

ensure_not_paused == ~paused

\* Looked at by deposit and borrow only.
ensure_asset_allowed(a) == a \in approved

-----------------------------------------------------------------------------
(* Interest *)

RateModel(a) ==
  IF reserve_configs[a].interest_rate_model = NoModel
    THEN default_interest_rate_model
    ELSE reserve_configs[a].interest_rate_model

Accrued(a, t) ==
  Accrue(reserves[a], RateModel(a), reserve_configs[a].reserve_factor_bps, t)

\* The reserves, those of S that exist brought up to time t.
AccruedReserves(S, t) ==
  [a \in Listed |-> IF a \in S THEN Accrued(a, t) ELSE reserves[a]]

accrue_interest(a, t) ==
  /\ a \in Listed
  /\ Succeeds(AccruedReserves({a}, t), accounts)
  /\ UNCHANGED <<configVars, oracleVars>>

-----------------------------------------------------------------------------
(* Positions: `res' are the reserves and `acct' the account they are read from *)

Shares(holdings, a) == GetOr(holdings, a, 0)

\* An entry without a flag counts as enabled, which is the initial TRUE.
Collateral(acct) == {a \in DOMAIN acct.supplied_shares : acct.collateral_enabled[a]}

Priced(acct) == \A a \in Collateral(acct) \cup DOMAIN acct.debt_shares : HasPrice(a)

Value(a, amount) == mul_div(amount, get_price(a), WAD)

SuppliedValue(res, acct, a) ==
  Value(a, supply_shares_to_amount(res[a], acct.supplied_shares[a]))

collateral_value(res, acct) ==
  SumFunction([a \in Collateral(acct) |->
    bps_mul(SuppliedValue(res, acct, a), reserve_configs[a].collateral_factor_bps)])

liquidation_value(res, acct) ==
  SumFunction([a \in Collateral(acct) |->
    bps_mul(SuppliedValue(res, acct, a), reserve_configs[a].liquidation_threshold_bps)])

debt_value(res, acct) ==
  SumFunction([a \in DOMAIN acct.debt_shares |->
    Value(a, debt_shares_to_amount(res[a], acct.debt_shares[a]))])

\* debt_value > 0 and health_factor < WAD
Unhealthy(res, acct) ==
  /\ debt_value(res, acct) > 0
  /\ wad_div(liquidation_value(res, acct), debt_value(res, acct)) < WAD

-----------------------------------------------------------------------------
(* Users' operations. Each fails with an error that leaves only the accrual, *)
(* fails half-way, or succeeds.                                              *)

AddShares(holdings, a, n) == Put(holdings, a, Shares(holdings, a) + n)

\* The accounts after u gains n shares, or loses -n.
AddSupply(accts, u, a, n) ==
  [accts EXCEPT ![u].supplied_shares = AddShares(@, a, n)]
AddDebt(accts, u, a, n) ==
  [accts EXCEPT ![u].debt_shares = AddShares(@, a, n)]

deposit(u, a, amount, t) ==
  /\ ensure_not_paused
  /\ ensure_asset_allowed(a)
  /\ a \in Listed
  /\ LET accrued == AccruedReserves({a}, t)
         r       == accrued[a]
         cap     == reserve_configs[a].supply_cap
         shares  == amount_to_supply_shares(r, amount)
         allowed == /\ reserve_configs[a].deposit_enabled
                    /\ cap > 0 => NetAssets(r) + amount <= cap
     IN  \/ ~allowed /\ Fails(accrued, accounts)
         \/ /\ allowed
            /\ Succeeds([accrued EXCEPT ![a] = Supplied(r, amount, shares)],
                        AddSupply(accounts, u, a, shares))
  /\ UNCHANGED <<configVars, oracleVars>>

withdraw(u, a, amount, t) ==
  /\ ensure_not_paused
  /\ a \in Listed
  /\ LET accrued == AccruedReserves({a}, t)
         r       == accrued[a]
         held    == Shares(accounts[u].supplied_shares, a)
         shares  == amount_to_supply_shares_rounded_up(r, amount)
         burnt   == AddSupply(accounts, u, a, -shares)
         paid    == [accrued EXCEPT ![a] = Redeemed(r, amount, shares)]
     IN  \/ held < shares /\ Fails(accrued, accounts)
         \/ \* InsufficientLiquidity: the user's shares are already burnt
            held >= shares /\ r.total_cash < amount /\ Fails(accrued, burnt)
         \/ /\ held >= shares /\ r.total_cash >= amount
            /\ \/ ~Priced(burnt[u]) /\ Fails(paid, burnt)
               \/ Priced(burnt[u]) /\ Unhealthy(paid, burnt[u]) /\ Fails(accrued, accounts)
               \/ Priced(burnt[u]) /\ ~Unhealthy(paid, burnt[u]) /\ Succeeds(paid, burnt)
  /\ UNCHANGED <<configVars, oracleVars>>

\* Mutant: the position is checked before the flag is changed.
CollateralToggledAfterCheck(u, a, enabled) ==
  /\ LET after == [accounts EXCEPT ![u].collateral_enabled[a] = enabled]
     IN  /\ ~enabled => Priced(accounts[u]) /\ ~Unhealthy(reserves, accounts[u])
         /\ Succeeds(reserves, after)
  /\ UNCHANGED <<configVars, oracleVars>>

\* Neither paused nor the asset's registration is looked at.
set_collateral_enabled(u, a, enabled) ==
  /\ LET after == [accounts EXCEPT ![u].collateral_enabled[a] = enabled]
     IN  \/ enabled /\ Succeeds(reserves, after)
         \/ /\ ~enabled
            /\ \/ ~Priced(after[u]) /\ Fails(reserves, after)
               \/ Priced(after[u]) /\ Unhealthy(reserves, after[u]) /\ Fails(reserves, accounts)
               \/ Priced(after[u]) /\ ~Unhealthy(reserves, after[u]) /\ Succeeds(reserves, after)
  /\ UNCHANGED <<configVars, oracleVars>>

borrow(u, a, amount, t) ==
  /\ ensure_not_paused
  /\ ensure_asset_allowed(a)
  /\ a \in Listed
  /\ LET accrued == AccruedReserves({a}, t)
         r       == accrued[a]
         cap     == reserve_configs[a].borrow_cap
         shares  == amount_to_debt_shares(r, amount)
         allowed == /\ reserve_configs[a].borrow_enabled
                    /\ r.total_cash >= amount
                    /\ cap > 0 => r.total_debt + amount <= cap
         lent    == [accrued EXCEPT ![a] = Lent(r, amount, shares)]
         booked  == AddDebt(accounts, u, a, shares)
         \* the rollback takes the shares back and leaves the entry
         undone  == AddDebt(accounts, u, a, 0)
         covered == debt_value(lent, booked[u]) <= collateral_value(lent, booked[u])
     IN  \/ ~allowed /\ Fails(accrued, accounts)
         \/ allowed /\ ~Priced(booked[u]) /\ Fails(lent, booked)
         \/ allowed /\ Priced(booked[u]) /\ ~covered /\ Fails(accrued, undone)
         \/ allowed /\ Priced(booked[u]) /\ covered /\ Succeeds(lent, booked)
  /\ UNCHANGED <<configVars, oracleVars>>

repay(u, a, amount, t) ==
  /\ ensure_not_paused
  /\ a \in Listed
  /\ LET accrued == AccruedReserves({a}, t)
         r       == accrued[a]
         held    == Shares(accounts[u].debt_shares, a)
         owed    == debt_shares_to_amount(r, held)
         actual  == min(amount, owed)
         shares  == amount_to_debt_shares_rounded_up(r, actual)
     IN  \/ owed = 0 /\ Fails(accrued, accounts)
         \/ /\ owed # 0
            /\ Succeeds([accrued EXCEPT ![a] = Repaid(r, actual, shares)],
                        AddDebt(accounts, u, a, -min(held, shares)))
  /\ UNCHANGED <<configVars, oracleVars>>

\* The borrower u's debt in d is repaid and its collateral in c is seized. The
\* debt side is booked before the collateral entry is looked up (line 982).
liquidate(u, d, c, requested, t) ==
  /\ ensure_not_paused
  /\ d \in Listed
  /\ \/ c \notin Listed /\ Fails(AccruedReserves({d}, t), accounts)
     \/ /\ c \in Listed
        /\ LET accrued == AccruedReserves({d, c}, t)
               acct    == accounts[u]
               owes    == Shares(acct.debt_shares, d)
               holds   == Shares(acct.supplied_shares, c)
               repaid  == min(requested,
                              bps_mul(debt_shares_to_amount(accrued[d], owes),
                                      close_factor_bps))
               value   == mul_div(repaid, get_price(d), WAD)
               bonus   == BPS_DENOMINATOR + reserve_configs[c].liquidation_bonus_bps
               seized  == mul_div(bps_mul(value, bonus), WAD, get_price(c))
               allowed == /\ Priced(acct) /\ Unhealthy(accrued, acct)
                          /\ HasPrice(d) /\ HasPrice(c)
                          /\ supply_shares_to_amount(accrued[c], holds) >= seized
                          /\ accrued[c].total_cash >= seized
               debtBurnt ==
                 min(amount_to_debt_shares_rounded_up(accrued[d], repaid), owes)
               shares  == amount_to_supply_shares_rounded_up(accrued[c], seized)
               seizable == c \in DOMAIN acct.supplied_shares /\ holds >= shares
               relieved == AddDebt(accounts, u, d, -debtBurnt)
               repaidTo == [accrued EXCEPT ![d] = Repaid(@, repaid, debtBurnt)]
           IN  \/ ~allowed /\ Fails(accrued, accounts)
               \/ allowed /\ ~seizable /\ Fails(repaidTo, relieved)
               \/ /\ allowed /\ seizable
                  /\ Succeeds([repaidTo EXCEPT ![c] = Redeemed(@, seized, shares)],
                              AddSupply(relieved, u, c, -shares))
  /\ UNCHANGED <<configVars, oracleVars>>

\* The receiver's code runs outside the protocol; the caller states what it returned.
flash_loan(a, amount, returned, t) ==
  /\ ensure_not_paused
  /\ a \in Listed
  /\ LET accrued == AccruedReserves({a}, t)
         cfg     == reserve_configs[a]
         extra   == returned - amount
         allowed == /\ cfg.flash_loan_enabled
                    /\ accrued[a].total_cash >= amount
                    /\ extra >= bps_mul(amount, cfg.flash_loan_fee_bps)
     IN  \/ ~allowed /\ Fails(accrued, accounts)
         \/ /\ allowed
            /\ Succeeds(
                 [accrued EXCEPT
                    ![a] = FlashFeePaid(@, extra, bps_mul(extra, cfg.reserve_factor_bps))],
                 accounts)
  /\ UNCHANGED <<configVars, oracleVars>>

-----------------------------------------------------------------------------
(* Administration. Who may call is the business of LendingGov. *)

\* A direct call asks for a positive amount; a proposal's amount is not checked.
collect_protocol_fees(a, requested) ==
  /\ a \in Listed
  /\ LET actual == min(requested, reserves[a].protocol_fees)
     IN  /\ reserves[a].total_cash >= actual
         /\ Succeeds([reserves EXCEPT ![a] = FeesCollected(@, actual)], accounts)
  /\ UNCHANGED <<configVars, oracleVars>>

\* Mutant: the configuration is stored and the reserve is not.
RegisteredWithoutReserve(a, cfg, t) ==
  /\ a \notin Listed
  /\ reserve_configs' = Put(reserve_configs, a, cfg)
  /\ Succeeds(reserves, accounts)
  /\ UNCHANGED <<default_interest_rate_model, close_factor_bps, paused, approved,
                 oracleVars>>

register_asset(a, cfg, t) ==
  /\ a \notin Listed
  /\ reserve_configs' = Put(reserve_configs, a, cfg)
  /\ Succeeds(Put(reserves, a, NewReserve(t)), accounts)
  /\ UNCHANGED <<default_interest_rate_model, close_factor_bps, paused, approved,
                 oracleVars>>

\* One setter after another leaves everything but its own field alone.
Configure(a, cfg) ==
  /\ a \in Listed
  /\ reserve_configs' = [reserve_configs EXCEPT ![a] = cfg]
  /\ result' = "Ok"
  /\ UNCHANGED <<reserves, accounts, default_interest_rate_model,
                 close_factor_bps, paused, approved, oracleVars>>

update_reserve_config(a, cfg) == Configure(a, cfg)

set_asset_interest_rate_model(a, model) ==
  Configure(a, [reserve_configs[a] EXCEPT !.interest_rate_model = model])

set_supply_cap(a, cap) == Configure(a, [reserve_configs[a] EXCEPT !.supply_cap = cap])

set_borrow_cap(a, cap) == Configure(a, [reserve_configs[a] EXCEPT !.borrow_cap = cap])

\* Mutant: the factor is not checked.
AnyReserveFactor(a, bps) ==
  Configure(a, [reserve_configs[a] EXCEPT !.reserve_factor_bps = bps])

set_reserve_factor(a, bps) ==
  /\ bps <= BPS_DENOMINATOR
  /\ Configure(a, [reserve_configs[a] EXCEPT !.reserve_factor_bps = bps])

set_default_interest_rate_model(model) ==
  /\ default_interest_rate_model' = model
  /\ result' = "Ok"
  /\ UNCHANGED <<reserves, accounts, reserve_configs, close_factor_bps, paused,
                 approved, oracleVars>>

set_close_factor(bps) ==
  /\ close_factor_bps' = bps
  /\ result' = "Ok"
  /\ UNCHANGED <<reserves, accounts, reserve_configs, default_interest_rate_model,
                 paused, approved, oracleVars>>

SetPaused(value) ==
  /\ paused' = value
  /\ result' = "Ok"
  /\ UNCHANGED <<reserves, accounts, reserve_configs, default_interest_rate_model,
                 close_factor_bps, approved, oracleVars>>

pause == SetPaused(TRUE)
unpause == SetPaused(FALSE)

-----------------------------------------------------------------------------
(* The world around the protocol *)

\* attach_asset_registry, or a change of the attached one (asset_registry_mut).
RegistryChanges(assets) ==
  /\ approved' = assets
  /\ UNCHANGED <<reserves, accounts, reserve_configs, default_interest_rate_model,
                 close_factor_bps, paused, result, oracleVars>>

OracleMoves ==
  /\ OracleNext
  /\ UNCHANGED <<reserves, accounts, configVars, result>>

-----------------------------------------------------------------------------

UserOperation ==
  \/ \E u \in Users, a \in Assets, x \in Amounts, t \in Timestamps :
       \/ deposit(u, a, x, t)
       \/ withdraw(u, a, x, t)
       \/ borrow(u, a, x, t)
       \/ repay(u, a, x, t)
  \/ \E u \in Users, a \in Assets, enabled \in BOOLEAN :
       set_collateral_enabled(u, a, enabled)
  \/ \E u \in Users, d, c \in Assets, x \in Amounts, t \in Timestamps :
       liquidate(u, d, c, x, t)
  \/ \E a \in Assets, x, returned \in Amounts, t \in Timestamps :
       flash_loan(a, x, returned, t)
  \/ \E a \in Assets, t \in Timestamps : accrue_interest(a, t)

\* The administrator's operations that a proposal can also carry out ...
Governed ==
  \/ \E a \in Assets, x \in FeeRequests : collect_protocol_fees(a, x)
  \/ \E a \in Assets, cfg \in Configs, t \in Timestamps : register_asset(a, cfg, t)
  \/ \E a \in Assets, cfg \in Configs : update_reserve_config(a, cfg)
  \/ \E bps \in CloseFactors : set_close_factor(bps)

\* ... and those any single administrator calls.
Administered ==
  \/ \E a \in Assets :
       \/ \E model \in Models \cup {NoModel} : set_asset_interest_rate_model(a, model)
       \/ \E cap \in Caps : set_supply_cap(a, cap) \/ set_borrow_cap(a, cap)
       \/ \E bps \in ReserveFactors : set_reserve_factor(a, bps)
  \/ \E model \in Models : set_default_interest_rate_model(model)
  \/ pause
  \/ unpause

Environment ==
  \/ \E assets \in Registries : RegistryChanges(assets)
  \/ OracleMoves

Next == UserOperation \/ Governed \/ Administered \/ Environment

Spec == Init /\ [][Next]_vars

-----------------------------------------------------------------------------
(* Properties *)

\* No administrator installs a reserve factor or a close factor above 100%.
\* set_reserve_factor checks it; register_asset, update_reserve_config and
\* set_close_factor do not.
SaneLimits ==
  /\ \A cfg \in Configs : cfg.reserve_factor_bps <= BPS_DENOMINATOR
  /\ CloseFactors \subseteq 0..BPS_DENOMINATOR

SupplyOf(a) == [u \in Users |-> Shares(accounts[u].supplied_shares, a)]
DebtOf(a)   == [u \in Users |-> Shares(accounts[u].debt_shares, a)]

\* The debt shares the users hold add up to the total of the reserve, through
\* roundings, partial repayments, liquidations and operations that fail
\* half-way (borrow, repay and liquidate each write the two sides apart).
DebtSharesMatch ==
  \A a \in Listed : SumTo(DebtOf(a), NumUsers) = reserves[a].total_debt_shares

\* The supply shares of the users never exceed the total of the reserve. They
\* may fall short: a withdraw without cash burns the user's side only.
SupplySharesCovered ==
  \A a \in Listed : SumTo(SupplyOf(a), NumUsers) <= reserves[a].total_supply_shares

\* What was issued is accounted for, on both sides of every reserve.
SharesAddUp == DebtSharesMatch /\ SupplySharesCovered

\* The tests' assert_reserve_solvent, made stronger: no total is negative,
\* every supply share is backed by at least one unit of net assets, and every
\* debt share stands for at least one unit of debt (so that a repayment capped
\* at the borrower's debt can neither make the total debt negative nor leave
\* shares behind that owe nothing), whatever is deposited, lent, repaid,
\* flash-borrowed, liquidated or accrued.
Solvent ==
  \A a \in Listed :
    LET r == reserves[a]
    IN  /\ r.total_cash >= 0 /\ r.protocol_fees >= 0 /\ r.total_supply_shares >= 0
        /\ NetAssets(r) >= r.total_supply_shares
        /\ r.total_debt >= r.total_debt_shares

\* What every user could redeem at once never exceeds what backs it
\* (invariant_tests.rs, "no free collateral creation").
NoFreeRedemption ==
  \A a \in Listed :
    SumTo([u \in Users |-> supply_shares_to_amount(reserves[a], SupplyOf(a)[u])],
          NumUsers) <= NetAssets(reserves[a])

\* What a supply share is worth and what a debt share owes, after a step.
PricesKept ==
  \A a \in Listed : /\ SupplyPriceKept(reserves[a], reserves'[a])
                    /\ DebtPriceKept(reserves[a], reserves'[a])

\* No call ever lowers the value of a supply share or what a debt share owes:
\* the rounding of every call goes against the user who calls, interest and
\* fees only add, so no supplier loses to another, and no borrower's debt is
\* forgiven by what another one borrows or repays.
SharePricesNeverFall == [][PricesKept]_vars

\* While the protocol is paused no user's shares move and no cash goes out
\* except protocol fees.
PausedFreezesFunds ==
  [][paused /\ paused' =>
       /\ \A u \in Users : /\ accounts'[u].supplied_shares = accounts[u].supplied_shares
                           /\ accounts'[u].debt_shares = accounts[u].debt_shares
       /\ \A a \in Listed :
            reserves'[a].total_cash < reserves[a].total_cash =>
              reserves[a].total_cash - reserves'[a].total_cash
                = reserves[a].protocol_fees - reserves'[a].protocol_fees
    ]_vars

\* The collateral factors that make a fresh loan healthy: register_asset and
\* update_reserve_config do not relate the two.
SaneCollateral ==
  \A cfg \in Configs : cfg.collateral_factor_bps <= cfg.liquidation_threshold_bps

\* u itself takes risk: it borrows, withdraws without its debt falling, or
\* stops an asset from counting as collateral.
TakesRisk(u) ==
  LET old == accounts[u]
      new == accounts'[u]
  IN  \/ \E a \in Listed :
           Shares(new.debt_shares, a) > Shares(old.debt_shares, a)
      \/ /\ \E a \in Listed :
              Shares(new.supplied_shares, a) < Shares(old.supplied_shares, a)
         /\ new.debt_shares = old.debt_shares
      \/ \E a \in Assets : old.collateral_enabled[a] /\ ~new.collateral_enabled[a]

\* No user can make its own position liquidatable: whatever it does to its
\* collateral or its debt, in any order over several assets and at any prices,
\* a call that succeeds leaves it healthy.
OwnStepsStayHealthy ==
  [][result' = "Ok" =>
       \A u \in Users : TakesRisk(u) => ~Unhealthy(reserves', accounts'[u])]_vars

CashIn(a) == reserves'[a].total_cash - reserves[a].total_cash
CashOut(a) == reserves[a].total_cash - reserves'[a].total_cash

\* A liquidation that succeeds pays for what it takes: when cash comes in for
\* debt in one asset and a user's collateral in another goes out in the same
\* step, that user's debt fell, and the value seized is at most the value paid
\* in and the bonus on it, whatever interest the step accrued.
SeizureIsPaidFor ==
  [][\A u \in Users, c, d \in Listed :
       /\ result' = "Ok"
       /\ c # d
       /\ CashIn(d) > 0
       /\ Shares(accounts'[u].supplied_shares, c) < Shares(accounts[u].supplied_shares, c)
       => /\ Shares(accounts'[u].debt_shares, d) < Shares(accounts[u].debt_shares, d)
          /\ CashOut(c) * get_price(c) * BPS_DENOMINATOR
               <= CashIn(d) * get_price(d)
                    * (BPS_DENOMINATOR + reserve_configs[c].liquidation_bonus_bps)
    ]_vars

\* An asset the registry stops allowing is wound down: no call mints supply or
\* debt shares in it any more, while withdrawals, repayments and liquidations
\* of what is there still go through.
BlockedAssetsOnlyShrink ==
  [][\A a \in Listed \ approved :
       /\ reserves'[a].total_supply_shares <= reserves[a].total_supply_shares
       /\ reserves'[a].total_debt_shares <= reserves[a].total_debt_shares]_vars
=============================================================================
