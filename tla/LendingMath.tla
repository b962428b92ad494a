---------------------------- MODULE LendingMath ----------------------------
(***************************************************************************)
(* The integer arithmetic of the lending protocol: the fixed-point helpers *)
(* of src/utils/fixed_point.rs, the kinked interest curve of               *)
(* types/lending.rs and the share conversions of contracts/lending.rs.     *)
(* The scales (WAD = 10^9, BPS_DENOMINATOR = 10^4, YEAR_IN_SECONDS) are    *)
(* parameters, so that TLC can run the same formulas on small numbers.     *)
(* i128 overflow is out of reach of the amounts modelled and is left out.  *)
(***************************************************************************)
EXTENDS Integers

CONSTANTS WAD, BPS_DENOMINATOR, YEAR_IN_SECONDS

ASSUME ScaleAssumption ==
  /\ WAD \in Nat \ {0}
  /\ BPS_DENOMINATOR \in Nat \ {0}
  /\ YEAR_IN_SECONDS \in Nat \ {0}

Magnitude(n) == IF n < 0 THEN -n ELSE n

min(a, b) == IF a <= b THEN a ELSE b

\* Rust's integer division rounds toward zero; TLA+'s \div rounds down.
Quotient(a, b) ==
  LET q == Magnitude(a) \div Magnitude(b)
  IN  IF (a < 0) = (b < 0) THEN q ELSE -q

\* Mutant: rounds up.
MulDivUp(a, b, denominator) == (a * b + denominator - 1) \div denominator

mul_div(a, b, denominator) == Quotient(a * b, denominator)
wad_div(a, b)  == mul_div(a, WAD, b)
bps_mul(amount, bps) == mul_div(amount, bps, BPS_DENOMINATOR)

-----------------------------------------------------------------------------
(* The two-slope borrow rate, a function of the utilization of a reserve. *)
borrow_rate(model, utilization) ==
  IF utilization <= model.optimal_utilization
    THEN model.base_rate
           + Quotient(utilization * model.slope_1, model.optimal_utilization)
  ELSE IF model.optimal_utilization >= WAD
    THEN model.base_rate + model.slope_1
  ELSE model.base_rate + model.slope_1
         + Quotient((utilization - model.optimal_utilization) * model.slope_2,
                    WAD - model.optimal_utilization)

(* What backs the supply shares of a reserve r. *)
NetAssets(r) == r.total_cash + r.total_debt - r.protocol_fees

Utilization(r) ==
  IF NetAssets(r) <= 0 THEN 0 ELSE wad_div(r.total_debt, NetAssets(r))

(* The interest that accrues on the debt of r in `elapsed' seconds. *)
InterestOn(r, model, elapsed) ==
  mul_div(r.total_debt, borrow_rate(model, Utilization(r)) * elapsed,
          YEAR_IN_SECONDS * WAD)

(* accrue_interest: the reserve r, brought up to time t. *)
Accrue(r, model, reserve_factor_bps, t) ==
  IF t <= r.last_accrual_ts \/ r.total_debt = 0
    THEN [r EXCEPT !.last_accrual_ts = t]
    ELSE LET accrued == InterestOn(r, model, t - r.last_accrual_ts)
         IN  [r EXCEPT !.total_debt = @ + accrued,
                       !.protocol_fees = @ + bps_mul(accrued, reserve_factor_bps),
                       !.last_accrual_ts = t]

-----------------------------------------------------------------------------
(* Shares: `total' of them stand for the amount `pot'. *)

\* Mutant: rounds in favour of the holder.
ToAmountUp(total, pot, shares) ==
  IF total = 0 THEN 0 ELSE (shares * pot + total - 1) \div total

ToAmount(total, pot, shares) ==
  IF total = 0 THEN 0 ELSE mul_div(shares, pot, total)

ToShares(total, pot, amount) ==
  IF total = 0 \/ pot = 0 THEN amount ELSE mul_div(amount, total, pot)

\* One share more than rounding down gives, where that redeems too little.
ToSharesUp(total, pot, amount) ==
  LET shares == ToShares(total, pot, amount)
  IN  IF ToAmount(total, pot, shares) < amount THEN shares + 1 ELSE shares

(* Supply shares: a claim on the net assets of the reserve. *)
supply_shares_to_amount(r, shares) == ToAmount(r.total_supply_shares, NetAssets(r), shares)

\* Mutant: a deposit rounds in favour of the depositor.
SupplySharesForDepositor(r, amount) ==
  ToSharesUp(r.total_supply_shares, NetAssets(r), amount)

amount_to_supply_shares(r, amount) == ToShares(r.total_supply_shares, NetAssets(r), amount)
amount_to_supply_shares_rounded_up(r, amount) ==
  ToSharesUp(r.total_supply_shares, NetAssets(r), amount)

(* Debt shares: a part of the debt owed to the reserve. *)
debt_shares_to_amount(r, shares) == ToAmount(r.total_debt_shares, r.total_debt, shares)
amount_to_debt_shares(r, amount) == ToShares(r.total_debt_shares, r.total_debt, amount)
amount_to_debt_shares_rounded_up(r, amount) ==
  ToSharesUp(r.total_debt_shares, r.total_debt, amount)

-----------------------------------------------------------------------------
(* How an operation moves the totals of a reserve. *)

\* Mutants: one side of the books is forgotten.
SuppliedWithoutShares(r, amount, shares) == [r EXCEPT !.total_cash = @ + amount]
LentWithoutShares(r, amount, shares) ==
  [r EXCEPT !.total_cash = @ - amount, !.total_debt = @ + amount]
RepaidWithoutShares(r, amount, shares) ==
  [r EXCEPT !.total_cash = @ + amount, !.total_debt = @ - amount]

Supplied(r, amount, shares) ==
  [r EXCEPT !.total_cash = @ + amount, !.total_supply_shares = @ + shares]

Redeemed(r, amount, shares) ==
  [r EXCEPT !.total_cash = @ - amount, !.total_supply_shares = @ - shares]

Lent(r, amount, shares) ==
  [r EXCEPT !.total_cash = @ - amount, !.total_debt = @ + amount,
            !.total_debt_shares = @ + shares]

Repaid(r, amount, shares) ==
  [r EXCEPT !.total_cash = @ + amount, !.total_debt = @ - amount,
            !.total_debt_shares = @ - min(@, shares)]

FlashFeePaid(r, extra, protocol_fee) ==
  [r EXCEPT !.total_cash = @ + extra, !.protocol_fees = @ + protocol_fee]

FeesCollected(r, amount) ==
  [r EXCEPT !.total_cash = @ - amount, !.protocol_fees = @ - amount]

NewReserve(t) ==
  [total_cash |-> 0, total_debt |-> 0, total_supply_shares |-> 0,
   total_debt_shares |-> 0, protocol_fees |-> 0, last_accrual_ts |-> t]

(* From r to s no share of the reserve lost value; fractions are compared by *)
(* multiplying across.                                                       *)
SupplyPriceKept(r, s) ==
  r.total_supply_shares > 0 =>
    NetAssets(s) * r.total_supply_shares >= NetAssets(r) * s.total_supply_shares

DebtPriceKept(r, s) ==
  r.total_debt_shares > 0 =>
    s.total_debt * r.total_debt_shares >= r.total_debt * s.total_debt_shares
=============================================================================
