----------------------------- MODULE Stablecoin -----------------------------
(***************************************************************************)
(* StablecoinContract of stablecoin.rs: coins minted against collateral,   *)
(* redeemed and liquidated. Any caller acts for any owner. Amounts are 64  *)
(* bits wide and wrap in the release profile: a liquidator who repays more *)
(* than the debt leaves a huge one. Every collateral is worth 1.00.        *)
(***************************************************************************)
EXTENDS Integers, Functions, Maps

CONSTANTS
  NumUsers, U64,
  Collaterals,
  CoinAmounts, CollateralAmounts,    \* what callers pass
  MinRatios, CoinFees,               \* what an admin asks for, in bps
  MIN_DEBT, MAX_DEBT, MIN_COLLATERAL_RATIO, LIQUIDATION_PENALTY_BPS,
  AdminIsContract,   \* the administrator is the contract itself: the one require_admin accepts
  MaxCollateral      \* bound of the model

StablecoinAssumption ==
  /\ NumUsers \in Nat /\ U64 \in Nat \ {0}
  /\ CoinAmounts \subseteq 0 .. (U64 - 1) /\ CollateralAmounts \subseteq Nat
  /\ CoinFees \subseteq Nat /\ LIQUIDATION_PENALTY_BPS \in Nat
  /\ AdminIsContract \in BOOLEAN

VARIABLES
  coin,     \* supply, total collateral, the stability pool's deposits, fees, the pause; minted_fees, history
  vaults,   \* owner -> debt and deposits
  ratios    \* collateral -> min_collateral_ratio

CoinInit ==
  /\ coin = [supply |-> 0, collateral |-> 0, pool |-> 0, minting_fee |-> 50, redemption_fee |-> 50,
             paused |-> FALSE, minted_fees |-> 0]
  /\ vaults = EmptyMap
  /\ ratios = EmptyMap

Wrapped(x) == x % U64
Owners == 1 .. NumUsers

require_not_paused == ~coin.paused
require_admin == AdminIsContract

get_vault_position(u) == GetOr(vaults, u, [debt |-> 0, deposits |-> EmptyMap])

\* A vault without debt and without entries is removed.
set_vault_position(u, v) ==
  vaults' = IF v.debt = 0 /\ v.deposits = EmptyMap THEN Drop(vaults, u) ELSE Put(vaults, u, v)

Deposits(v) == SumFunction(v.deposits)

\* Of a vault with debt.
calculate_collateral_ratio(v) == (Deposits(v) * 10000) \div v.debt

mint(u, c, collateral_amount, amount) ==
  LET old == get_vault_position(u)
      new == [debt |-> Wrapped(old.debt + amount),
              deposits |-> Put(old.deposits, c, GetOr(old.deposits, c, 0) + collateral_amount)]
      fee == (amount * coin.minting_fee) \div 10000
  IN  /\ require_not_paused
      /\ MIN_DEBT <= amount /\ amount <= MAX_DEBT
      /\ c \in DOMAIN ratios
      /\ new.debt > 0 => calculate_collateral_ratio(new) >= ratios[c]
      /\ coin.collateral + collateral_amount <= MaxCollateral
      /\ set_vault_position(u, new)
      /\ coin' = [coin EXCEPT !.supply = Wrapped(@ + amount - fee), !.collateral = @ + collateral_amount,
                              !.minted_fees = Wrapped(@ + fee)]
      /\ UNCHANGED ratios

\* Mutant: set with nothing deposited is a deposit of the whole collateral.
ReducedFully(v, c, amount, collateral_amount) ==
  [debt |-> Wrapped(v.debt - amount), deposits |-> Put(v.deposits, c, GetOr(v.deposits, c, 0))]

\* Without debt, all of the collateral is gone from the vault; otherwise what
\* is asked for.
Reduced(v, c, amount, collateral_amount) ==
  LET debt == Wrapped(v.debt - amount)
  IN  [debt |-> debt,
       deposits |-> IF debt = 0 THEN Drop(v.deposits, c)
                    ELSE Put(v.deposits, c, GetOr(v.deposits, c, 0) - collateral_amount)]

\* The redemption fee is computed, and charged to no one.
redeem(u, c, amount, collateral_amount) ==
  LET old == get_vault_position(u)
      new == Reduced(old, c, amount, collateral_amount)
  IN  /\ require_not_paused
      /\ old.debt >= amount
      /\ GetOr(old.deposits, c, 0) >= collateral_amount
      /\ new.debt > 0 => c \in DOMAIN ratios /\ calculate_collateral_ratio(new) >= ratios[c]
      /\ set_vault_position(u, new)
      /\ coin' = [coin EXCEPT !.supply = Wrapped(@ - amount), !.collateral = @ - collateral_amount]
      /\ UNCHANGED ratios

\* Nothing compares the amount with the debt.
liquidate(u, c, amount) ==
  LET old  == get_vault_position(u)
      seen == (amount * (10000 + LIQUIDATION_PENALTY_BPS)) \div 10000
  IN  /\ require_not_paused
      /\ old.debt > 0
      /\ c \in DOMAIN ratios
      /\ calculate_collateral_ratio(old) < ratios[c]
      /\ GetOr(old.deposits, c, 0) >= seen
      /\ set_vault_position(u, Reduced(old, c, amount, seen))
      /\ coin' = [coin EXCEPT !.supply = Wrapped(@ - amount), !.collateral = @ - seen]
      /\ UNCHANGED ratios

\* The pool keeps one sum for all depositors.
deposit_stability_pool(amount) ==
  /\ require_not_paused
  /\ amount > 0
  /\ coin.pool + amount <= MaxCollateral
  /\ coin' = [coin EXCEPT !.pool = @ + amount]
  /\ UNCHANGED <<vaults, ratios>>

withdraw_stability_pool(amount) ==
  /\ require_not_paused
  /\ coin.pool >= amount
  /\ coin' = [coin EXCEPT !.pool = @ - amount]
  /\ UNCHANGED <<vaults, ratios>>

\* A collateral that is added again gets a new ratio, for the vaults there are too.
add_collateral(c, min_ratio) ==
  /\ require_admin
  /\ min_ratio >= MIN_COLLATERAL_RATIO
  /\ ratios' = Put(ratios, c, min_ratio)
  /\ UNCHANGED <<coin, vaults>>

\* pause, unpause and emergency_shutdown
SetPaused(paused) ==
  /\ require_admin
  /\ coin' = [coin EXCEPT !.paused = paused]
  /\ UNCHANGED <<vaults, ratios>>

set_minting_fee(fee) ==
  /\ require_admin
  /\ fee <= 1000
  /\ coin' = [coin EXCEPT !.minting_fee = fee]
  /\ UNCHANGED <<vaults, ratios>>

set_redemption_fee(fee) ==
  /\ require_admin
  /\ fee <= 1000
  /\ coin' = [coin EXCEPT !.redemption_fee = fee]
  /\ UNCHANGED <<vaults, ratios>>

CoinNext ==
  \/ \E u \in Owners, c \in Collaterals, amount \in CoinAmounts :
       \/ \E collateral_amount \in CollateralAmounts :
            mint(u, c, collateral_amount, amount) \/ redeem(u, c, amount, collateral_amount)
       \/ liquidate(u, c, amount)
  \/ \E amount \in CoinAmounts : deposit_stability_pool(amount) \/ withdraw_stability_pool(amount)
  \/ \E c \in Collaterals, min_ratio \in MinRatios : add_collateral(c, min_ratio)
  \/ \E paused \in BOOLEAN : SetPaused(paused)
  \/ \E fee \in CoinFees : set_minting_fee(fee) \/ set_redemption_fee(fee)

(* Coins and debts are one: what is owed is what circulates and what minting  *)
(* charged, in the width of the amounts, even after a debt has wrapped. The   *)
(* contract never counts less collateral than the vaults hold, though it      *)
(* counts what a redeemer leaves behind when the debt is paid.                *)
CoinsAreOwed ==
  /\ Wrapped(SumFunction([u \in DOMAIN vaults |-> vaults[u].debt])) = Wrapped(coin.supply + coin.minted_fees)
  /\ SumFunction([u \in DOMAIN vaults |-> Deposits(vaults[u])]) <= coin.collateral
  /\ \A u \in DOMAIN vaults :
       /\ vaults[u].debt \in 0 .. (U64 - 1)
       /\ vaults[u].debt > 0 \/ vaults[u].deposits # EmptyMap
       /\ \A c \in DOMAIN vaults[u].deposits : vaults[u].deposits[c] >= 0
=============================================================================
