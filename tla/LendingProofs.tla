--------------------------- MODULE LendingProofs ---------------------------
(***************************************************************************)
(* Theorems about Lending, for every set of users, assets, amounts and     *)
(* configurations that respect SaneLimits. First the arithmetic of         *)
(* LendingMath: which way each conversion rounds, and why a reserve whose  *)
(* net assets cover its supply shares, and whose debt covers its debt      *)
(* shares, stays so. Then the inductive invariant IInv: it says of every   *)
(* reserve at once that its totals are backed and that they agree with     *)
(* what the accounts hold; each operation is a move of shares, after an    *)
(* accrual, that keeps it.                                                 *)
(***************************************************************************)
EXTENDS Lending, SumLemmas

-----------------------------------------------------------------------------
(* Products and quotients of naturals *)

LEMMA TimesMonotone ==
  ASSUME NEW a \in Int, NEW b \in Int, NEW c \in Nat, a <= b
  PROVE  a * c <= b * c /\ c * a <= c * b
OBVIOUS

LEMMA TimesCancels ==
  ASSUME NEW a \in Int, NEW b \in Int, NEW c \in Nat \ {0}, a * c <= b * c
  PROVE  a <= b
<1>1. SUFFICES ASSUME b + 1 <= a PROVE FALSE
  OBVIOUS
<1>2. (b + 1) * c <= a * c
  BY <1>1, TimesMonotone
<1>3. (b + 1) * c = b * c + c
  OBVIOUS
<1>4. b * c \in Int /\ a * c \in Int
  OBVIOUS
<1>5. QED BY <1>2, <1>3, <1>4

LEMMA NatProduct ==
  ASSUME NEW a \in Nat, NEW b \in Nat
  PROVE  a * b \in Nat
OBVIOUS

LEMMA DivBounds ==
  ASSUME NEW a \in Nat, NEW b \in Nat \ {0}
  PROVE  /\ a \div b \in Nat
         /\ (a \div b) * b <= a
         /\ a < (a \div b) * b + b
OBVIOUS

(* On naturals the truncating quotient is the flooring one. *)
LEMMA QuotientOfNats ==
  ASSUME NEW a \in Nat, NEW b \in Nat \ {0}
  PROVE  /\ Quotient(a, b) = a \div b
         /\ Quotient(a, b) \in Nat
         /\ Quotient(a, b) * b <= a
         /\ a < Quotient(a, b) * b + b
<1>1. ~(a < 0) /\ ~(b < 0)
  OBVIOUS
<1>2. Quotient(a, b) = a \div b
  BY <1>1 DEF Quotient, Magnitude
<1>3. QED BY <1>2, DivBounds

LEMMA MulDivOfNats ==
  ASSUME NEW a \in Nat, NEW b \in Nat, NEW d \in Nat \ {0}
  PROVE  /\ mul_div(a, b, d) \in Nat
         /\ mul_div(a, b, d) * d <= a * b
         /\ a * b < mul_div(a, b, d) * d + d
BY NatProduct, QuotientOfNats DEF mul_div

(* A share of at most the whole is at most the amount. *)
LEMMA BpsPart ==
  ASSUME NEW amount \in Nat, NEW bps \in 0..BPS_DENOMINATOR
  PROVE  bps_mul(amount, bps) \in 0..amount
<1> DEFINE q == bps_mul(amount, bps)
<1>0. BPS_DENOMINATOR \in Nat \ {0}
  BY ScaleAssumption
<1>1. q \in Nat /\ q * BPS_DENOMINATOR <= amount * bps
  BY <1>0, MulDivOfNats DEF bps_mul
<1>2. amount * bps <= amount * BPS_DENOMINATOR
  BY <1>0, TimesMonotone
<1>3. amount * bps \in Int /\ amount * BPS_DENOMINATOR \in Int /\ q * BPS_DENOMINATOR \in Int
  BY <1>0, <1>1
<1> HIDE DEF q
<1>4. q * BPS_DENOMINATOR <= amount * BPS_DENOMINATOR
  BY <1>1, <1>2, <1>3
<1>5. q <= amount
  BY <1>0, <1>1, <1>4, TimesCancels
<1>6. QED BY <1>1, <1>5 DEF q

-----------------------------------------------------------------------------
(* Shares of a pot: N is what backs S shares, S <= N. *)

(* Minting the shares of x, rounded down, keeps the pot backed and lowers the *)
(* value of no share.                                                         *)
LEMMA Minting ==
  ASSUME NEW N \in Nat, NEW S \in Nat, NEW x \in Nat, NEW q \in Nat,
         S <= N, N > 0, q * N <= x * S
  PROVE  /\ q <= x
         /\ S + q <= N + x
         /\ N * (S + q) <= (N + x) * S
<1>1. x * S <= x * N
  BY TimesMonotone
<1>2. /\ q * N \in Int /\ x * S \in Int /\ x * N \in Int /\ N * S \in Int /\ N * q \in Int
  OBVIOUS
<1>3. q * N <= x * N
  BY <1>1, <1>2
<1>4. q <= x
  BY <1>3, TimesCancels
<1>5. N * (S + q) = N * S + q * N /\ (N + x) * S = N * S + x * S
  OBVIOUS
<1>6. QED BY <1>2, <1>4, <1>5

(* Burning sh shares for x, when sh is worth at least x, likewise. *)
LEMMA Burning ==
  ASSUME NEW N \in Nat, NEW S \in Nat, NEW x \in Nat, NEW sh \in Nat,
         S <= N, S > 0, sh <= S, x * S <= sh * N
  PROVE  /\ x <= N
         /\ S - sh <= N - x
         /\ N * (S - sh) <= (N - x) * S
<1>1. sh * N <= S * N
  BY TimesMonotone
<1>2. /\ x * S \in Int /\ sh * N \in Int /\ S * N \in Int /\ N * S = S * N
  OBVIOUS
<1>3. x * S <= N * S
  BY <1>1, <1>2
<1>4. x <= N
  BY <1>3, TimesCancels
<1>5. N * (S - sh) = N * S - sh * N /\ (N - x) * S = N * S - x * S
  OBVIOUS
<1>6. N * (S - sh) <= (N - x) * S
  BY <1>2, <1>5
<1>7. S * (S - sh) <= N * (S - sh)
  BY TimesMonotone
<1>8. /\ (S - sh) * S = S * (S - sh)
      /\ N * (S - sh) \in Int /\ (N - x) * S \in Int /\ (S - sh) * S \in Int
  OBVIOUS
<1>9. (S - sh) * S <= (N - x) * S
  BY <1>6, <1>7, <1>8
<1>10. S - sh <= N - x
  <2>1. S - sh \in Int /\ N - x \in Int
    OBVIOUS
  <2>2. QED BY <1>9, <2>1, TimesCancels
<1>11. QED BY <1>4, <1>6, <1>10

(* The shares of x rounded up: k rounded down, one more if k redeems less. *)
LEMMA RoundingUp ==
  ASSUME NEW N \in Nat, NEW S \in Nat, NEW x \in Nat, NEW k \in Nat, NEW v \in Nat,
         NEW sh, S > 0, N > 0,
         x * S < k * N + N, v * S <= k * N,
         sh = IF v < x THEN k + 1 ELSE k
  PROVE  /\ sh \in Nat
         /\ x * S <= sh * N
         /\ x > 0 => sh > 0
<1>1. x * S \in Int /\ k * N \in Int /\ v * S \in Int /\ (k + 1) * N = k * N + N
  OBVIOUS
<1>2. CASE v < x
  BY <1>1, <1>2
<1>3. CASE x <= v
  <2>1. x * S <= v * S
    BY <1>3, TimesMonotone
  <2>2. x * S <= k * N
    BY <1>1, <2>1
  <2>3. x > 0 => k > 0
    <3>1. SUFFICES ASSUME x > 0, k = 0 PROVE FALSE
      OBVIOUS
    <3>2. 1 * S <= x * S
      BY <3>1, TimesMonotone
    <3>3. QED BY <1>1, <2>2, <3>1, <3>2
  <2>4. QED BY <1>3, <2>2, <2>3
<1>4. QED BY <1>2, <1>3

(* They are no more than held, when x is at most what held redeems. *)
LEMMA RoundingUpWithin ==
  ASSUME NEW N \in Nat, NEW S \in Nat, NEW x \in Nat, NEW k \in Nat, NEW v \in Nat,
         NEW held \in Nat, NEW worth \in Nat,
         S > 0, N > 0,
         k * N <= x * S, x <= worth, worth * S <= held * N,
         k = held => v = worth
  PROVE  (IF v < x THEN k + 1 ELSE k) <= held
<1>1. x * S <= worth * S
  BY TimesMonotone
<1>2. /\ k * N \in Int /\ x * S \in Int /\ worth * S \in Int /\ held * N \in Int
  OBVIOUS
<1>3. k * N <= held * N
  BY <1>1, <1>2
<1>4. k <= held
  BY <1>3, TimesCancels
<1>5. QED BY <1>4


LEMMA ToAmountLemma ==
  ASSUME NEW S \in Nat, NEW N \in Nat, NEW s \in Nat
  PROVE  ToAmount(S, N, s) \in Nat /\ ToAmount(S, N, s) * S <= s * N
<1>1. CASE S = 0
  BY <1>1, NatProduct DEF ToAmount
<1>2. CASE S # 0
  BY <1>2, MulDivOfNats DEF ToAmount
<1>3. QED BY <1>1, <1>2

(* What a mint of x may count on. *)
LEMMA ToSharesLemma ==
  ASSUME NEW S \in Nat, NEW N \in Nat, S <= N, NEW x \in Nat
  PROVE  LET q == ToShares(S, N, x)
         IN  /\ q \in Nat
             /\ q <= x
             /\ S + q <= N + x
             /\ S > 0 => N * (S + q) <= (N + x) * S
<1>1. CASE S = 0
  BY <1>1 DEF ToShares
<1>2. CASE S # 0
  <2>1. N > 0
    BY <1>2
  <2>2. /\ ToShares(S, N, x) \in Nat
        /\ ToShares(S, N, x) * N <= x * S
    BY <1>2, <2>1, MulDivOfNats DEF ToShares
  <2>3. QED BY <2>1, <2>2, Minting, Zenon
<1>3. QED BY <1>1, <1>2

(* What a burn of the shares for x may count on, if no more than S are burnt. *)
LEMMA ToSharesUpLemma ==
  ASSUME NEW S \in Nat, NEW N \in Nat, S <= N, NEW x \in Nat
  PROVE  LET sh == ToSharesUp(S, N, x)
         IN  /\ sh \in Nat
             /\ x > 0 => sh > 0
             /\ sh <= S => /\ x <= N
                           /\ S - sh <= N - x
                           /\ N * (S - sh) <= (N - x) * S
<1> DEFINE k == ToShares(S, N, x)
           v == ToAmount(S, N, k)
           sh == ToSharesUp(S, N, x)
<1>0. sh = IF v < x THEN k + 1 ELSE k
  BY DEF ToSharesUp
<1>1. CASE S = 0
  <2>1. k = x /\ v = 0
    BY <1>1 DEF ToShares, ToAmount
  <2>2. sh = IF 0 < x THEN x + 1 ELSE x
    BY <1>0, <2>1
  <2>3. x = 0 => sh = 0
    BY <2>2
  <2>4. N * 0 <= N * 0 /\ N * 0 = 0
    OBVIOUS
  <2> HIDE DEF sh, k, v
  <2>5. CASE x = 0
    BY <1>1, <2>3, <2>4, <2>5 DEF sh
  <2>6. CASE x # 0
    BY <1>1, <2>2, <2>6 DEF sh
  <2>7. QED BY <2>5, <2>6
<1>2. CASE S # 0
  <2>1. S > 0 /\ N > 0
    BY <1>2
  <2>2. k \in Nat /\ k * N <= x * S /\ x * S < k * N + N
    BY <1>2, <2>1, MulDivOfNats DEF ToShares
  <2>3. v \in Nat /\ v * S <= k * N
    BY <2>2, ToAmountLemma
  <2> HIDE DEF sh, k, v
  <2>4. sh \in Nat /\ x * S <= sh * N /\ (x > 0 => sh > 0)
    BY <1>0, <2>1, <2>2, <2>3, RoundingUp
  <2>5. ASSUME sh <= S
        PROVE  x <= N /\ S - sh <= N - x /\ N * (S - sh) <= (N - x) * S
    BY <2>1, <2>4, <2>5, Burning, Zenon
  <2>6. QED BY <2>4, <2>5 DEF sh
<1>3. QED BY <1>1, <1>2

(* Redeeming at most what `held' shares are worth burns at most those. *)
LEMMA ToSharesUpWithin ==
  ASSUME NEW S \in Nat, NEW N \in Nat, S <= N, NEW held \in 0..S,
         NEW x \in Nat, x <= ToAmount(S, N, held)
  PROVE  ToSharesUp(S, N, x) <= held
<1> DEFINE k == ToShares(S, N, x)
           v == ToAmount(S, N, k)
           worth == ToAmount(S, N, held)
<1>0. ToSharesUp(S, N, x) = IF v < x THEN k + 1 ELSE k
  BY DEF ToSharesUp
<1>1. CASE S = 0
  <2>1. x = 0 /\ held = 0
    BY <1>1 DEF ToAmount
  <2>2. k = 0 /\ v = 0
    BY <1>1, <2>1 DEF ToShares, ToAmount
  <2>3. QED BY <1>0, <2>1, <2>2
<1>2. CASE S # 0
  <2>1. S > 0 /\ N > 0 /\ held \in Nat
    BY <1>2
  <2>2. k \in Nat /\ k * N <= x * S
    <3>1. k = mul_div(x, S, N)
      BY <2>1 DEF ToShares
    <3> HIDE DEF k
    <3>2. QED BY <2>1, <3>1, MulDivOfNats
  <2>3. v \in Nat
    BY <2>2, ToAmountLemma
  <2>4. worth \in Nat /\ worth * S <= held * N
    BY <2>1, ToAmountLemma
  <2>5. k = held => v = worth
    OBVIOUS
  <2>6. x <= worth
    OBVIOUS
  <2> HIDE DEF k, v, worth
  <2>7. (IF v < x THEN k + 1 ELSE k) <= held
    BY <2>1, <2>2, <2>3, <2>4, <2>5, <2>6, RoundingUpWithin
  <2>8. QED BY <1>0, <2>7
<1>3. QED BY <1>1, <1>2

-----------------------------------------------------------------------------
(* Reserves *)

IsReserve(r) ==
  r \in [total_cash : Int, total_debt : Int, total_supply_shares : Int,
         total_debt_shares : Int, protocol_fees : Int, last_accrual_ts : Nat]

IsModel(m) ==
  m \in [base_rate : Nat, slope_1 : Nat, slope_2 : Nat,
         optimal_utilization : Nat \ {0}]

(* No total is negative, every supply share is backed by a unit of net       *)
(* assets and every debt share by a unit of debt.                            *)
BackedReserve(r) ==
  /\ r.total_cash >= 0 /\ r.total_debt >= 0 /\ r.protocol_fees >= 0
  /\ r.total_supply_shares >= 0 /\ r.total_debt_shares >= 0
  /\ r.total_supply_shares <= NetAssets(r)
  /\ r.total_debt_shares <= r.total_debt

LEMMA NetAssetsType ==
  ASSUME NEW r, IsReserve(r)
  PROVE  NetAssets(r) \in Int
BY DEF IsReserve, NetAssets

LEMMA BorrowRateType ==
  ASSUME NEW m, IsModel(m), NEW u \in Nat
  PROVE  borrow_rate(m, u) \in Nat
<1>0. /\ m.base_rate \in Nat /\ m.slope_1 \in Nat /\ m.slope_2 \in Nat
      /\ m.optimal_utilization \in Nat \ {0} /\ WAD \in Nat \ {0}
  BY ScaleAssumption DEF IsModel
<1>1. CASE u <= m.optimal_utilization
  <2>1. u * m.slope_1 \in Nat
    BY <1>0, NatProduct
  <2>2. Quotient(u * m.slope_1, m.optimal_utilization) \in Nat
    BY <1>0, <2>1, QuotientOfNats
  <2>3. QED BY <1>0, <1>1, <2>2 DEF borrow_rate
<1>2. CASE ~(u <= m.optimal_utilization) /\ m.optimal_utilization >= WAD
  BY <1>0, <1>2 DEF borrow_rate
<1>3. CASE ~(u <= m.optimal_utilization) /\ ~(m.optimal_utilization >= WAD)
  <2>1. /\ u - m.optimal_utilization \in Nat
        /\ WAD - m.optimal_utilization \in Nat \ {0}
    BY <1>0, <1>3
  <2>2. (u - m.optimal_utilization) * m.slope_2 \in Nat
    BY <1>0, <2>1, NatProduct
  <2>3. Quotient((u - m.optimal_utilization) * m.slope_2,
                 WAD - m.optimal_utilization) \in Nat
    BY <2>1, <2>2, QuotientOfNats
  <2>4. QED BY <1>0, <1>3, <2>3 DEF borrow_rate
<1>4. QED BY <1>1, <1>2, <1>3

LEMMA UtilizationType ==
  ASSUME NEW r, IsReserve(r), r.total_debt >= 0
  PROVE  Utilization(r) \in Nat
<1>1. /\ r.total_debt \in Nat /\ NetAssets(r) \in Int /\ WAD \in Nat
  BY NetAssetsType, ScaleAssumption DEF IsReserve
<1>2. CASE NetAssets(r) <= 0
  BY <1>2 DEF Utilization
<1>3. CASE ~(NetAssets(r) <= 0)
  <2>1. NetAssets(r) \in Nat \ {0}
    BY <1>1, <1>3
  <2>2. mul_div(r.total_debt, WAD, NetAssets(r)) \in Nat
    BY <1>1, <2>1, MulDivOfNats
  <2>3. QED BY <1>3, <2>2 DEF Utilization, wad_div
<1>4. QED BY <1>2, <1>3

LEMMA InterestType ==
  ASSUME NEW r, IsReserve(r), r.total_debt >= 0, NEW m, IsModel(m), NEW dt \in Nat
  PROVE  InterestOn(r, m, dt) \in Nat
<1>1. borrow_rate(m, Utilization(r)) \in Nat
  BY UtilizationType, BorrowRateType
<1>2. borrow_rate(m, Utilization(r)) * dt \in Nat
  BY <1>1, NatProduct
<1>3. YEAR_IN_SECONDS * WAD \in Nat \ {0}
  <2>1. YEAR_IN_SECONDS \in Nat \ {0} /\ WAD \in Nat \ {0}
    BY ScaleAssumption
  <2>2. 1 * WAD <= YEAR_IN_SECONDS * WAD
    BY <2>1, TimesMonotone
  <2>3. QED BY <2>1, <2>2, NatProduct
<1>4. r.total_debt \in Nat
  BY DEF IsReserve
<1>5. QED BY <1>2, <1>3, <1>4, MulDivOfNats DEF InterestOn

(* Accruing interest only adds: to the debt, and, the protocol's cut being a *)
(* part of it, to the net assets. A reserve that is backed stays backed.     *)
LEMMA AccrueLemma ==
  ASSUME NEW r, IsReserve(r), BackedReserve(r), NEW m, IsModel(m),
         NEW rf \in 0..BPS_DENOMINATOR, NEW t \in Nat
  PROVE  LET s == Accrue(r, m, rf, t)
         IN  /\ IsReserve(s) /\ BackedReserve(s)
             /\ s.total_cash = r.total_cash
             /\ s.total_supply_shares = r.total_supply_shares
             /\ s.total_debt_shares = r.total_debt_shares
             /\ r.total_debt <= s.total_debt
             /\ r.protocol_fees <= s.protocol_fees
             /\ NetAssets(r) <= NetAssets(s)
<1>1. CASE t <= r.last_accrual_ts \/ r.total_debt = 0
  <2>1. Accrue(r, m, rf, t) = [r EXCEPT !.last_accrual_ts = t]
    BY <1>1 DEF Accrue
  <2>2. QED BY <2>1 DEF IsReserve, BackedReserve, NetAssets
<1>2. CASE ~(t <= r.last_accrual_ts \/ r.total_debt = 0)
  <2> DEFINE i == InterestOn(r, m, t - r.last_accrual_ts)
             cut == bps_mul(i, rf)
  <2>1. t - r.last_accrual_ts \in Nat
    BY <1>2 DEF IsReserve
  <2>2. i \in Nat
    BY <2>1, InterestType DEF BackedReserve
  <2>3. cut \in 0..i
    BY <2>2, BpsPart
  <2>4. Accrue(r, m, rf, t) = [r EXCEPT !.total_debt = @ + i,
                                        !.protocol_fees = @ + cut,
                                        !.last_accrual_ts = t]
    BY <1>2 DEF Accrue
  <2> HIDE DEF i, cut
  <2>5. IsReserve(Accrue(r, m, rf, t))
    <3>1. r.total_debt + i \in Int /\ r.protocol_fees + cut \in Int
      BY <2>2, <2>3 DEF IsReserve
    <3>2. QED BY <2>4, <3>1 DEF IsReserve
  <2>6. /\ Accrue(r, m, rf, t).total_cash = r.total_cash
        /\ Accrue(r, m, rf, t).total_debt = r.total_debt + i
        /\ Accrue(r, m, rf, t).protocol_fees = r.protocol_fees + cut
        /\ Accrue(r, m, rf, t).total_supply_shares = r.total_supply_shares
        /\ Accrue(r, m, rf, t).total_debt_shares = r.total_debt_shares
    BY <2>4 DEF IsReserve
  <2> HIDE <2>4
  <2>7. QED BY <2>2, <2>3, <2>5, <2>6 DEF IsReserve, BackedReserve, NetAssets
<1>3. QED BY <1>1, <1>2


-----------------------------------------------------------------------------
(* Operations on a reserve *)

(* What an operation does to a reserve: it stays a backed reserve and no     *)
(* share of it loses value.                                                  *)
GoodStep(r, s) ==
  /\ IsReserve(s) /\ BackedReserve(s)
  /\ SupplyPriceKept(r, s) /\ DebtPriceKept(r, s)

(* The totals of a backed reserve, as naturals. *)
LEMMA BackedTotals ==
  ASSUME NEW r, IsReserve(r), BackedReserve(r)
  PROVE  /\ r.total_cash \in Nat /\ r.total_debt \in Nat /\ r.protocol_fees \in Nat
         /\ r.total_supply_shares \in Nat /\ r.total_debt_shares \in Nat
         /\ NetAssets(r) \in Nat
         /\ r.last_accrual_ts \in Nat
         /\ r.total_supply_shares <= NetAssets(r)
         /\ r.total_debt_shares <= r.total_debt
         /\ NetAssets(r) = r.total_cash + r.total_debt - r.protocol_fees
BY NetAssetsType DEF IsReserve, BackedReserve, NetAssets

LEMMA SuppliedLemma ==
  ASSUME NEW r, IsReserve(r), BackedReserve(r), NEW x \in Nat
  PROVE  LET q == amount_to_supply_shares(r, x)
         IN  q \in Nat /\ GoodStep(r, Supplied(r, x, q))
<1> DEFINE q == amount_to_supply_shares(r, x)
           s == Supplied(r, x, q)
           S == r.total_supply_shares
           N == NetAssets(r)
<1>1. /\ q \in Nat
      /\ S + q <= N + x
      /\ S > 0 => N * (S + q) <= (N + x) * S
  BY BackedTotals, ToSharesLemma DEF amount_to_supply_shares
<1> HIDE DEF q
<1>2. IsReserve(s)
  <2>1. r.total_cash + x \in Int /\ r.total_supply_shares + q \in Int
    BY <1>1, BackedTotals
  <2>2. QED BY <2>1 DEF IsReserve, Supplied
<1>3. /\ s.total_cash = r.total_cash + x /\ s.total_supply_shares = S + q
      /\ s.total_debt = r.total_debt /\ s.total_debt_shares = r.total_debt_shares
      /\ s.protocol_fees = r.protocol_fees
  BY DEF IsReserve, Supplied
<1> HIDE DEF s
<1>4. NetAssets(s) = N + x
  BY <1>3, BackedTotals DEF NetAssets
<1>5. BackedReserve(s)
  BY <1>1, <1>3, <1>4, BackedTotals DEF BackedReserve
<1>6. SupplyPriceKept(r, s) /\ DebtPriceKept(r, s)
  <2>1. r.total_debt * r.total_debt_shares \in Int
    BY BackedTotals
  <2>2. QED BY <1>1, <1>3, <1>4, <2>1 DEF SupplyPriceKept, DebtPriceKept
<1>7. QED BY <1>1, <1>2, <1>5, <1>6 DEF GoodStep, q, s

LEMMA RedeemedLemma ==
  ASSUME NEW r, IsReserve(r), BackedReserve(r), NEW x \in Nat, x <= r.total_cash
  PROVE  LET sh == amount_to_supply_shares_rounded_up(r, x)
         IN  /\ sh \in Nat /\ (x > 0 => sh > 0)
             /\ sh <= r.total_supply_shares => GoodStep(r, Redeemed(r, x, sh))
<1> DEFINE sh == amount_to_supply_shares_rounded_up(r, x)
           s == Redeemed(r, x, sh)
           S == r.total_supply_shares
           N == NetAssets(r)
<1>1. /\ sh \in Nat
      /\ x > 0 => sh > 0
      /\ sh <= S => x <= N /\ S - sh <= N - x /\ N * (S - sh) <= (N - x) * S
  BY BackedTotals, ToSharesUpLemma DEF amount_to_supply_shares_rounded_up
<1> HIDE DEF sh
<1>2. IsReserve(s)
  <2>1. r.total_cash - x \in Int /\ r.total_supply_shares - sh \in Int
    BY <1>1, BackedTotals
  <2>2. QED BY <2>1 DEF IsReserve, Redeemed
<1>3. /\ s.total_cash = r.total_cash - x /\ s.total_supply_shares = S - sh
      /\ s.total_debt = r.total_debt /\ s.total_debt_shares = r.total_debt_shares
      /\ s.protocol_fees = r.protocol_fees
  BY DEF IsReserve, Redeemed
<1> HIDE DEF s
<1>4. NetAssets(s) = N - x
  BY <1>3, BackedTotals DEF NetAssets
<1>5. ASSUME sh <= S PROVE GoodStep(r, s)
  <2>1. BackedReserve(s)
    BY <1>1, <1>3, <1>4, <1>5, BackedTotals DEF BackedReserve
  <2>2. r.total_debt * r.total_debt_shares \in Int
    BY BackedTotals
  <2>3. SupplyPriceKept(r, s) /\ DebtPriceKept(r, s)
    BY <1>1, <1>3, <1>4, <1>5, <2>2 DEF SupplyPriceKept, DebtPriceKept
  <2>4. QED BY <1>2, <2>1, <2>3 DEF GoodStep
<1>6. QED BY <1>1, <1>5 DEF sh, s

LEMMA LentLemma ==
  ASSUME NEW r, IsReserve(r), BackedReserve(r), NEW x \in Nat, x <= r.total_cash
  PROVE  LET q == amount_to_debt_shares(r, x)
         IN  q \in Nat /\ GoodStep(r, Lent(r, x, q))
<1> DEFINE q == amount_to_debt_shares(r, x)
           s == Lent(r, x, q)
           T == r.total_debt_shares
           D == r.total_debt
<1>1. /\ q \in Nat
      /\ T + q <= D + x
      /\ T > 0 => D * (T + q) <= (D + x) * T
  BY BackedTotals, ToSharesLemma DEF amount_to_debt_shares
<1> HIDE DEF q
<1>2. IsReserve(s)
  <2>1. r.total_cash - x \in Int /\ D + x \in Int /\ T + q \in Int
    BY <1>1, BackedTotals
  <2>2. QED BY <2>1 DEF IsReserve, Lent
<1>3. /\ s.total_cash = r.total_cash - x /\ s.total_debt = D + x
      /\ s.total_debt_shares = T + q
      /\ s.total_supply_shares = r.total_supply_shares
      /\ s.protocol_fees = r.protocol_fees
  BY DEF IsReserve, Lent
<1> HIDE DEF s
<1>4. NetAssets(s) = NetAssets(r)
  BY <1>3, BackedTotals DEF NetAssets
<1>5. BackedReserve(s)
  BY <1>1, <1>3, <1>4, BackedTotals DEF BackedReserve
<1>6. SupplyPriceKept(r, s) /\ DebtPriceKept(r, s)
  <2>1. NetAssets(r) * r.total_supply_shares \in Int
    BY BackedTotals
  <2>2. QED BY <1>1, <1>3, <1>4, <2>1 DEF SupplyPriceKept, DebtPriceKept
<1>7. QED BY <1>1, <1>2, <1>5, <1>6 DEF GoodStep, q, s

(* The shares burnt for x are within those held, if x is within their worth. *)
LEMMA RepaidLemma ==
  ASSUME NEW r, IsReserve(r), BackedReserve(r),
         NEW held \in 0..r.total_debt_shares,
         NEW x \in Nat, x <= debt_shares_to_amount(r, held)
  PROVE  LET sh == amount_to_debt_shares_rounded_up(r, x)
         IN  /\ sh \in 0..held
             /\ GoodStep(r, Repaid(r, x, sh))
             /\ Repaid(r, x, sh).total_debt_shares = r.total_debt_shares - sh
<1> DEFINE sh == amount_to_debt_shares_rounded_up(r, x)
           s == Repaid(r, x, sh)
           T == r.total_debt_shares
           D == r.total_debt
<1>1. /\ sh \in Nat
      /\ sh <= held
      /\ sh <= T => x <= D /\ T - sh <= D - x /\ D * (T - sh) <= (D - x) * T
  BY BackedTotals, ToSharesUpLemma, ToSharesUpWithin
     DEF amount_to_debt_shares_rounded_up, debt_shares_to_amount
<1> HIDE DEF sh
<1>2. sh <= T /\ held \in Nat /\ min(T, sh) = sh
  <2>1. T \in Nat /\ held \in Nat /\ held <= T
    BY BackedTotals
  <2> HIDE DEF T
  <2>2. sh <= T
    BY <1>1, <2>1
  <2>3. min(T, sh) = sh
    BY <1>1, <2>1, <2>2 DEF min
  <2>4. QED BY <2>1, <2>2, <2>3
<1>3. s = [r EXCEPT !.total_cash = @ + x, !.total_debt = @ - x,
                    !.total_debt_shares = @ - sh]
  BY <1>2 DEF Repaid
<1>4. IsReserve(s)
  <2>1. r.total_cash + x \in Int /\ D - x \in Int /\ T - sh \in Int
    BY <1>1, BackedTotals
  <2>2. QED BY <1>3, <2>1 DEF IsReserve
<1>5. /\ s.total_cash = r.total_cash + x /\ s.total_debt = D - x
      /\ s.total_debt_shares = T - sh
      /\ s.total_supply_shares = r.total_supply_shares
      /\ s.protocol_fees = r.protocol_fees
  BY <1>3 DEF IsReserve
<1> HIDE DEF s
<1>6. NetAssets(s) = NetAssets(r)
  BY <1>5, BackedTotals DEF NetAssets
<1>7. BackedReserve(s)
  BY <1>1, <1>2, <1>5, <1>6, BackedTotals DEF BackedReserve
<1>8. SupplyPriceKept(r, s) /\ DebtPriceKept(r, s)
  <2>1. NetAssets(r) * r.total_supply_shares \in Int
    BY BackedTotals
  <2>2. QED BY <1>1, <1>2, <1>5, <1>6, <2>1 DEF SupplyPriceKept, DebtPriceKept
<1>9. QED BY <1>1, <1>2, <1>4, <1>5, <1>7, <1>8 DEF GoodStep, sh, s

LEMMA FlashFeeLemma ==
  ASSUME NEW r, IsReserve(r), BackedReserve(r),
         NEW extra \in Nat, NEW bps \in 0..BPS_DENOMINATOR
  PROVE  GoodStep(r, FlashFeePaid(r, extra, bps_mul(extra, bps)))
<1> DEFINE cut == bps_mul(extra, bps)
           s == FlashFeePaid(r, extra, cut)
<1>1. cut \in 0..extra
  BY BpsPart
<1> HIDE DEF cut
<1>2. IsReserve(s)
  <2>1. r.total_cash + extra \in Int /\ r.protocol_fees + cut \in Int
    BY <1>1, BackedTotals
  <2>2. QED BY <2>1 DEF IsReserve, FlashFeePaid
<1>3. /\ s.total_cash = r.total_cash + extra
      /\ s.protocol_fees = r.protocol_fees + cut
      /\ s.total_debt = r.total_debt /\ s.total_debt_shares = r.total_debt_shares
      /\ s.total_supply_shares = r.total_supply_shares
  BY DEF IsReserve, FlashFeePaid
<1> HIDE DEF s
<1>4. NetAssets(s) \in Nat /\ NetAssets(r) <= NetAssets(s)
  BY <1>1, <1>3, BackedTotals DEF NetAssets
<1>5. BackedReserve(s)
  BY <1>1, <1>3, <1>4, BackedTotals DEF BackedReserve
<1>6. SupplyPriceKept(r, s) /\ DebtPriceKept(r, s)
  <2>1. NetAssets(r) * r.total_supply_shares <= NetAssets(s) * r.total_supply_shares
    BY <1>4, BackedTotals, TimesMonotone
  <2>2. r.total_debt * r.total_debt_shares \in Int
    BY BackedTotals
  <2>3. QED BY <1>3, <2>1, <2>2 DEF SupplyPriceKept, DebtPriceKept
<1>7. QED BY <1>2, <1>5, <1>6 DEF GoodStep, s, cut

(* A negative request, which only a proposal can make, adds to both sides. *)
LEMMA FeesCollectedLemma ==
  ASSUME NEW r, IsReserve(r), BackedReserve(r),
         NEW x \in Int, x <= r.protocol_fees, x <= r.total_cash
  PROVE  GoodStep(r, FeesCollected(r, x))
<1> DEFINE s == FeesCollected(r, x)
<1>1. IsReserve(s)
  <2>1. r.total_cash - x \in Int /\ r.protocol_fees - x \in Int
    BY BackedTotals
  <2>2. QED BY <2>1 DEF IsReserve, FeesCollected
<1>2. /\ s.total_cash = r.total_cash - x
      /\ s.protocol_fees = r.protocol_fees - x
      /\ s.total_debt = r.total_debt /\ s.total_debt_shares = r.total_debt_shares
      /\ s.total_supply_shares = r.total_supply_shares
  BY DEF IsReserve, FeesCollected
<1> HIDE DEF s
<1>3. NetAssets(s) = NetAssets(r)
  BY <1>2, BackedTotals DEF NetAssets
<1>4. BackedReserve(s)
  BY <1>2, <1>3, BackedTotals DEF BackedReserve
<1>5. SupplyPriceKept(r, s) /\ DebtPriceKept(r, s)
  <2>1. /\ r.total_debt * r.total_debt_shares \in Int
        /\ NetAssets(r) * r.total_supply_shares \in Int
    BY BackedTotals
  <2>2. QED BY <1>2, <1>3, <2>1 DEF SupplyPriceKept, DebtPriceKept
<1>6. QED BY <1>1, <1>4, <1>5 DEF GoodStep, s

LEMMA NewReserveLemma ==
  ASSUME NEW t \in Nat
  PROVE  IsReserve(NewReserve(t)) /\ BackedReserve(NewReserve(t))
BY DEF NewReserve, IsReserve, BackedReserve, NetAssets

(* A reserve that does not move keeps its prices. *)
LEMMA SameStep ==
  ASSUME NEW r, IsReserve(r), BackedReserve(r)
  PROVE  GoodStep(r, r)
<1>1. /\ r.total_debt * r.total_debt_shares \in Int
      /\ NetAssets(r) * r.total_supply_shares \in Int
  BY BackedTotals
<1>2. QED BY <1>1 DEF GoodStep, SupplyPriceKept, DebtPriceKept

(* x/a <= y/b and y/b <= z/c give x/a <= z/c. *)
LEMMA FractionsTransitive ==
  ASSUME NEW x \in Nat, NEW y \in Nat, NEW z \in Nat,
         NEW a \in Nat, NEW b \in Nat \ {0}, NEW c \in Nat,
         x * b <= y * a, y * c <= z * b
  PROVE  x * c <= z * a
<1>1. (x * b) * c <= (y * a) * c
  BY NatProduct, TimesMonotone
<1>2. (y * c) * a <= (z * b) * a
  BY NatProduct, TimesMonotone
<1>3. /\ (x * b) * c = (x * c) * b /\ (z * b) * a = (z * a) * b
      /\ (y * a) * c = (y * c) * a
  OBVIOUS
<1>4. (x * b) * c \in Nat /\ (y * a) * c \in Nat /\ (z * b) * a \in Nat
  BY NatProduct
<1>5. (x * c) * b <= (z * a) * b
  BY <1>1, <1>2, <1>3, <1>4
<1>6. QED BY <1>5, NatProduct, TimesCancels

(* An operation on a reserve that has just accrued its interest. *)
LEMMA AccruedStep ==
  ASSUME NEW r, IsReserve(r), BackedReserve(r),
         NEW s, IsReserve(s), BackedReserve(s),
         s.total_supply_shares = r.total_supply_shares,
         s.total_debt_shares = r.total_debt_shares,
         r.total_debt <= s.total_debt, NetAssets(r) <= NetAssets(s),
         NEW v, GoodStep(s, v)
  PROVE  GoodStep(r, v)
<1>1. IsReserve(v) /\ BackedReserve(v)
  BY DEF GoodStep
<1>2. SupplyPriceKept(r, v)
  <2>1. SUFFICES ASSUME r.total_supply_shares > 0
                 PROVE  NetAssets(r) * v.total_supply_shares
                          <= NetAssets(v) * r.total_supply_shares
    BY <1>1, BackedTotals, NatProduct DEF SupplyPriceKept
  <2>2. NetAssets(s) * v.total_supply_shares <= NetAssets(v) * r.total_supply_shares
    BY <2>1, <1>1, BackedTotals, NatProduct DEF GoodStep, SupplyPriceKept
  <2>3. NetAssets(r) * v.total_supply_shares <= NetAssets(s) * v.total_supply_shares
    BY <1>1, BackedTotals, TimesMonotone
  <2>4. QED BY <1>1, <2>2, <2>3, BackedTotals, NatProduct
<1>3. DebtPriceKept(r, v)
  <2>1. SUFFICES ASSUME r.total_debt_shares > 0
                 PROVE  r.total_debt * v.total_debt_shares
                          <= v.total_debt * r.total_debt_shares
    BY <1>1, BackedTotals, NatProduct DEF DebtPriceKept
  <2>2. s.total_debt * v.total_debt_shares <= v.total_debt * r.total_debt_shares
    BY <2>1, <1>1, BackedTotals, NatProduct DEF GoodStep, DebtPriceKept
  <2>3. r.total_debt * v.total_debt_shares <= s.total_debt * v.total_debt_shares
    BY <1>1, BackedTotals, TimesMonotone
  <2>4. QED BY <1>1, <2>2, <2>3, BackedTotals, NatProduct
<1>4. QED BY <1>1, <1>2, <1>3 DEF GoodStep

-----------------------------------------------------------------------------
(* Ledgers *)


Holdings(accts, a) == [u \in Users |-> Shares(accts[u].supplied_shares, a)]
Debts(accts, a)    == [u \in Users |-> Shares(accts[u].debt_shares, a)]

\* h counts shares of the assets L, never a negative number of them.
IsHolding(h, L) ==
  /\ DOMAIN h \subseteq L
  /\ h \in [DOMAIN h -> Int]
  /\ \A a \in L : Shares(h, a) >= 0

IsPosition(p, L) ==
  /\ p = AccountPosition(p.supplied_shares, p.debt_shares, p.collateral_enabled)
  /\ IsHolding(p.supplied_shares, L)
  /\ IsHolding(p.debt_shares, L)
  /\ p.collateral_enabled \in [Assets -> BOOLEAN]

\* The reserve r of the asset a agrees with the accounts.
Agrees(r, accts, a) ==
  /\ IsReserve(r)
  /\ BackedReserve(r)
  /\ SumTo(Debts(accts, a), NumUsers) = r.total_debt_shares
  /\ SumTo(Holdings(accts, a), NumUsers) <= r.total_supply_shares

Ledger(res, accts) ==
  /\ DOMAIN res \subseteq Assets
  /\ res = [a \in DOMAIN res |-> res[a]]
  /\ accts = [u \in Users |-> accts[u]]
  /\ \A u \in Users : IsPosition(accts[u], DOMAIN res)
  /\ \A a \in DOMAIN res : Agrees(res[a], accts, a)

-----------------------------------------------------------------------------
(* Moves of shares *)

LEMMA UsersNat == NumUsers \in Nat /\ Users = 1..NumUsers
BY LendingAssumption DEF Users

LEMMA SharesType ==
  ASSUME NEW L, NEW h, IsHolding(h, L), NEW a \in L
  PROVE  Shares(h, a) \in Nat
BY DEF IsHolding, Shares, GetOr

\* Adding n shares of a to h changes the count of a only.
LEMMA AddSharesLemma ==
  ASSUME NEW L, NEW h, IsHolding(h, L), NEW a \in L, NEW n \in Int,
         Shares(h, a) + n >= 0
  PROVE  /\ IsHolding(AddShares(h, a, n), L)
         /\ Shares(AddShares(h, a, n), a) = Shares(h, a) + n
         /\ \A b \in L : b # a => Shares(AddShares(h, a, n), b) = Shares(h, b)
<1> DEFINE g == AddShares(h, a, n)
<1>0. Shares(h, a) \in Nat
  BY SharesType
<1>1. g = [x \in DOMAIN h \cup {a} |-> IF x = a THEN Shares(h, a) + n ELSE h[x]]
  BY DEF AddShares, Put
<1>2. DOMAIN g = DOMAIN h \cup {a} /\ DOMAIN h \subseteq L
  BY <1>1 DEF IsHolding
<1>3. \A x \in DOMAIN g : g[x] = IF x = a THEN Shares(h, a) + n ELSE h[x]
  BY <1>1
<1>4. g \in [DOMAIN g -> Int]
  BY <1>0, <1>1, <1>2 DEF IsHolding
<1> HIDE DEF g
<1>5. Shares(g, a) = Shares(h, a) + n
  BY <1>2, <1>3 DEF Shares, GetOr
<1>6. \A b \in L : b # a => Shares(g, b) = Shares(h, b)
  BY <1>2, <1>3 DEF Shares, GetOr
<1>7. \A b \in L : Shares(g, b) >= 0
  BY <1>5, <1>6 DEF IsHolding
<1>8. IsHolding(g, L)
  BY <1>2, <1>4, <1>7 DEF IsHolding
<1>9. QED BY <1>5, <1>6, <1>8 DEF g

\* Every user's shares are a part of the reserve's.
LEMMA LedgerParts ==
  ASSUME NEW res, NEW accts, Ledger(res, accts), NEW a \in DOMAIN res
  PROVE  /\ Holdings(accts, a) \in [Users -> Nat]
         /\ Debts(accts, a) \in [Users -> Nat]
         /\ \A u \in Users :
              /\ Shares(accts[u].supplied_shares, a) \in 0..res[a].total_supply_shares
              /\ Shares(accts[u].debt_shares, a) \in 0..res[a].total_debt_shares
<1>1. \A u \in Users : /\ Shares(accts[u].supplied_shares, a) \in Nat
                       /\ Shares(accts[u].debt_shares, a) \in Nat
  BY SharesType DEF Ledger, IsPosition
<1>2. Holdings(accts, a) \in [Users -> Nat] /\ Debts(accts, a) \in [Users -> Nat]
  BY <1>1 DEF Holdings, Debts
<1>3. /\ SumTo(Holdings(accts, a), NumUsers) \in Nat
      /\ \A u \in Users : Holdings(accts, a)[u] <= SumTo(Holdings(accts, a), NumUsers)
  BY <1>2, UsersNat, SumToBounds
<1>4. \A u \in Users : Debts(accts, a)[u] <= SumTo(Debts(accts, a), NumUsers)
  BY <1>2, UsersNat, SumToBounds
<1>5. \A u \in Users : /\ Holdings(accts, a)[u] = Shares(accts[u].supplied_shares, a)
                       /\ Debts(accts, a)[u] = Shares(accts[u].debt_shares, a)
  BY DEF Holdings, Debts
<1>6. /\ IsReserve(res[a]) /\ BackedReserve(res[a])
      /\ SumTo(Debts(accts, a), NumUsers) = res[a].total_debt_shares
      /\ SumTo(Holdings(accts, a), NumUsers) <= res[a].total_supply_shares
  BY DEF Ledger, Agrees
<1>7. res[a].total_supply_shares \in Nat /\ res[a].total_debt_shares \in Nat
  BY <1>6, BackedTotals
<1>8. ASSUME NEW u \in Users
      PROVE  /\ Shares(accts[u].supplied_shares, a) <= res[a].total_supply_shares
             /\ Shares(accts[u].debt_shares, a) <= res[a].total_debt_shares
  BY <1>1, <1>3, <1>4, <1>5, <1>6, <1>7
<1>9. QED BY <1>1, <1>2, <1>7, <1>8

\* A reserve changes without its shares changing hands.
LEMMA ReserveMoves ==
  ASSUME NEW res, NEW accts, Ledger(res, accts), NEW a \in DOMAIN res, NEW s,
         IsReserve(s), BackedReserve(s),
         s.total_debt_shares = res[a].total_debt_shares,
         s.total_supply_shares >= res[a].total_supply_shares
  PROVE  Ledger([res EXCEPT ![a] = s], accts)
<1> DEFINE new == [res EXCEPT ![a] = s]
<1>0. res = [b \in DOMAIN res |-> res[b]]
  BY DEF Ledger
<1>1. DOMAIN new = DOMAIN res /\ new = [b \in DOMAIN new |-> new[b]]
  BY <1>0
<1>2. new[a] = s /\ \A b \in DOMAIN res : b # a => new[b] = res[b]
  BY <1>0
<1>3. Agrees(s, accts, a)
  <2>1. SumTo(Holdings(accts, a), NumUsers) \in Int
    BY LedgerParts, UsersNat, SumToType
  <2>2. Agrees(res[a], accts, a)
    BY DEF Ledger
  <2>3. res[a].total_supply_shares \in Int /\ s.total_supply_shares \in Int
    BY <2>2, BackedTotals DEF Agrees
  <2>4. QED BY <2>1, <2>2, <2>3 DEF Agrees
<1> HIDE DEF new
<1>4. \A b \in DOMAIN new : Agrees(new[b], accts, b)
  BY <1>1, <1>2, <1>3 DEF Ledger
<1>5. Ledger(new, accts)
  BY <1>1, <1>4 DEF Ledger
<1>6. QED BY <1>5 DEF new

\* The user u gains or loses n supply shares of a, and the reserve at least as many.
LEMMA SupplyMoves ==
  ASSUME NEW res, NEW accts, Ledger(res, accts), NEW u \in Users, NEW a \in DOMAIN res,
         NEW n \in Int, Shares(accts[u].supplied_shares, a) + n >= 0,
         NEW s, IsReserve(s), BackedReserve(s),
         s.total_debt_shares = res[a].total_debt_shares,
         s.total_supply_shares >= res[a].total_supply_shares + n
  PROVE  Ledger([res EXCEPT ![a] = s], AddSupply(accts, u, a, n))
<1> DEFINE L == DOMAIN res
           held == Shares(accts[u].supplied_shares, a)
           more == AddShares(accts[u].supplied_shares, a, n)
           p == AccountPosition(more, accts[u].debt_shares, accts[u].collateral_enabled)
           new == [res EXCEPT ![a] = s]
           moved == AddSupply(accts, u, a, n)
<1>0. /\ L \subseteq Assets
      /\ res = [b \in L |-> res[b]]
      /\ accts = [v \in Users |-> accts[v]]
      /\ \A v \in Users : IsPosition(accts[v], L)
      /\ \A b \in L : Agrees(res[b], accts, b)
  BY DEF Ledger
<1>1. /\ IsHolding(more, L)
      /\ Shares(more, a) = held + n
      /\ \A b \in L : b # a => Shares(more, b) = Shares(accts[u].supplied_shares, b)
  BY <1>0, AddSharesLemma DEF IsPosition
<1>2. held \in Nat
  BY <1>0, SharesType DEF IsPosition
<1>3. moved = [v \in Users |-> IF v = u THEN p ELSE accts[v]]
  BY <1>0 DEF AddSupply, IsPosition, AccountPosition
<1>4. /\ p.supplied_shares = more
      /\ p.debt_shares = accts[u].debt_shares
      /\ p.collateral_enabled = accts[u].collateral_enabled
  BY DEF AccountPosition
<1>5. DOMAIN new = L /\ new = [b \in L |-> new[b]]
  BY <1>0
<1>6. new[a] = s /\ \A b \in L : b # a => new[b] = res[b]
  BY <1>0
<1> HIDE DEF more, p, new, moved, held
<1>7. moved = [v \in Users |-> moved[v]]
  BY <1>3
<1>8. \A v \in Users : IsPosition(moved[v], L)
  <2>1. IsPosition(p, L)
    BY <1>0, <1>1, <1>4 DEF IsPosition, p
  <2>2. QED BY <1>0, <1>3, <2>1
<1>9. \A b \in L : Debts(moved, b) = Debts(accts, b)
  BY <1>3, <1>4 DEF Debts
<1>10. \A b \in L : b # a => Holdings(moved, b) = Holdings(accts, b)
  BY <1>1, <1>3, <1>4 DEF Holdings
<1>11. Holdings(moved, a) = [Holdings(accts, a) EXCEPT ![u] = held + n]
  BY <1>1, <1>3, <1>4 DEF Holdings
<1>12. Agrees(s, moved, a)
  <2>1. Holdings(accts, a) \in [1..NumUsers -> Int]
    BY LedgerParts, UsersNat
  <2>2. Holdings(accts, a)[u] = held
    BY DEF Holdings, held
  <2>3. SumTo(Holdings(moved, a), NumUsers) = SumTo(Holdings(accts, a), NumUsers) + n
    <3> DEFINE f == Holdings(accts, a)
               v == held + n
    <3>0. /\ f \in [1..NumUsers -> Int] /\ f[u] = held /\ u \in 1..NumUsers
          /\ NumUsers \in Nat /\ v \in Int
          /\ Holdings(moved, a) = [f EXCEPT ![u] = v]
      BY <1>2, <1>11, <2>1, <2>2, UsersNat
    <3> HIDE DEF f, v
    <3>1. SumTo([f EXCEPT ![u] = v], NumUsers) = SumTo(f, NumUsers) - f[u] + v
      BY <3>0, SumToUpdate
    <3>2. SumTo(f, NumUsers) \in Int
      BY <3>0, SumToType
    <3>3. SumTo(Holdings(moved, a), NumUsers) = SumTo(f, NumUsers) + n
      BY <1>2, <3>0, <3>1, <3>2 DEF v
    <3>4. QED BY <3>3 DEF f
  <2>4. SumTo(Holdings(accts, a), NumUsers) \in Int
    BY <2>1, UsersNat, SumToType
  <2>5. /\ SumTo(Holdings(accts, a), NumUsers) <= res[a].total_supply_shares
        /\ SumTo(Debts(accts, a), NumUsers) = res[a].total_debt_shares
        /\ IsReserve(res[a]) /\ BackedReserve(res[a])
    BY <1>0 DEF Agrees
  <2>6. res[a].total_supply_shares \in Int /\ s.total_supply_shares \in Int
    BY <2>5, BackedTotals
  <2>7. SumTo(Holdings(moved, a), NumUsers) <= s.total_supply_shares
    BY <2>3, <2>4, <2>5, <2>6
  <2>8. QED BY <1>9, <2>5, <2>7 DEF Agrees
<1>13. \A b \in L : Agrees(new[b], moved, b)
  BY <1>0, <1>6, <1>9, <1>10, <1>12 DEF Agrees
<1> HIDE DEF L
<1>14. Ledger(new, moved)
  BY <1>0, <1>5, <1>7, <1>8, <1>13 DEF Ledger
<1>15. QED BY <1>14 DEF new, moved

\* The user u gains or loses n debt shares of a, and so does the reserve.
LEMMA DebtMoves ==
  ASSUME NEW res, NEW accts, Ledger(res, accts), NEW u \in Users, NEW a \in DOMAIN res,
         NEW n \in Int, Shares(accts[u].debt_shares, a) + n >= 0,
         NEW s, IsReserve(s), BackedReserve(s),
         s.total_debt_shares = res[a].total_debt_shares + n,
         s.total_supply_shares = res[a].total_supply_shares
  PROVE  /\ Ledger([res EXCEPT ![a] = s], AddDebt(accts, u, a, n))
         /\ AddDebt(accts, u, a, n)[u].supplied_shares = accts[u].supplied_shares
<1> DEFINE L == DOMAIN res
           held == Shares(accts[u].debt_shares, a)
           more == AddShares(accts[u].debt_shares, a, n)
           p == AccountPosition(accts[u].supplied_shares, more, accts[u].collateral_enabled)
           new == [res EXCEPT ![a] = s]
           moved == AddDebt(accts, u, a, n)
<1>0. /\ L \subseteq Assets
      /\ res = [b \in L |-> res[b]]
      /\ accts = [v \in Users |-> accts[v]]
      /\ \A v \in Users : IsPosition(accts[v], L)
      /\ \A b \in L : Agrees(res[b], accts, b)
  BY DEF Ledger
<1>1. /\ IsHolding(more, L)
      /\ Shares(more, a) = held + n
      /\ \A b \in L : b # a => Shares(more, b) = Shares(accts[u].debt_shares, b)
  BY <1>0, AddSharesLemma DEF IsPosition
<1>2. held \in Nat
  BY <1>0, SharesType DEF IsPosition
<1>3. moved = [v \in Users |-> IF v = u THEN p ELSE accts[v]]
  BY <1>0 DEF AddDebt, IsPosition, AccountPosition
<1>4. /\ p.supplied_shares = accts[u].supplied_shares
      /\ p.debt_shares = more
      /\ p.collateral_enabled = accts[u].collateral_enabled
  BY DEF AccountPosition
<1>5. DOMAIN new = L /\ new = [b \in L |-> new[b]]
  BY <1>0
<1>6. new[a] = s /\ \A b \in L : b # a => new[b] = res[b]
  BY <1>0
<1> HIDE DEF more, p, new, moved, held
<1>7. moved = [v \in Users |-> moved[v]]
  BY <1>3
<1>8. \A v \in Users : IsPosition(moved[v], L)
  <2>1. IsPosition(p, L)
    BY <1>0, <1>1, <1>4 DEF IsPosition, p
  <2>2. QED BY <1>0, <1>3, <2>1
<1>9. \A b \in L : Holdings(moved, b) = Holdings(accts, b)
  BY <1>3, <1>4 DEF Holdings
<1>10. \A b \in L : b # a => Debts(moved, b) = Debts(accts, b)
  BY <1>1, <1>3, <1>4 DEF Debts
<1>11. Debts(moved, a) = [Debts(accts, a) EXCEPT ![u] = held + n]
  BY <1>1, <1>3, <1>4 DEF Debts
<1>12. Agrees(s, moved, a)
  <2>1. Debts(accts, a) \in [1..NumUsers -> Int]
    BY LedgerParts, UsersNat
  <2>2. Debts(accts, a)[u] = held
    BY DEF Debts, held
  <2>3. SumTo(Debts(moved, a), NumUsers) = SumTo(Debts(accts, a), NumUsers) + n
    <3> DEFINE f == Debts(accts, a)
               v == held + n
    <3>0. /\ f \in [1..NumUsers -> Int] /\ f[u] = held /\ u \in 1..NumUsers
          /\ NumUsers \in Nat /\ v \in Int
          /\ Debts(moved, a) = [f EXCEPT ![u] = v]
      BY <1>2, <1>11, <2>1, <2>2, UsersNat
    <3> HIDE DEF f, v
    <3>1. SumTo([f EXCEPT ![u] = v], NumUsers) = SumTo(f, NumUsers) - f[u] + v
      BY <3>0, SumToUpdate
    <3>2. SumTo(f, NumUsers) \in Int
      BY <3>0, SumToType
    <3>3. SumTo(Debts(moved, a), NumUsers) = SumTo(f, NumUsers) + n
      BY <1>2, <3>0, <3>1, <3>2 DEF v
    <3>4. QED BY <3>3 DEF f
  <2>4. /\ SumTo(Holdings(accts, a), NumUsers) <= res[a].total_supply_shares
        /\ SumTo(Debts(accts, a), NumUsers) = res[a].total_debt_shares
    BY <1>0 DEF Agrees
  <2>5. QED BY <1>9, <2>3, <2>4 DEF Agrees
<1>13. \A b \in L : Agrees(new[b], moved, b)
  BY <1>0, <1>6, <1>9, <1>10, <1>12 DEF Agrees
<1> HIDE DEF L
<1>14. Ledger(new, moved)
  BY <1>0, <1>5, <1>7, <1>8, <1>13 DEF Ledger
<1>15. moved[u].supplied_shares = accts[u].supplied_shares
  BY <1>3, <1>4
<1>16. QED BY <1>14, <1>15 DEF new, moved

\* A collateral flag says nothing about shares.
LEMMA FlagMoves ==
  ASSUME NEW res, NEW accts, Ledger(res, accts), NEW u \in Users, NEW a \in Assets,
         NEW flag \in BOOLEAN
  PROVE  Ledger(res, [accts EXCEPT ![u].collateral_enabled[a] = flag])
<1> DEFINE flags == [accts[u].collateral_enabled EXCEPT ![a] = flag]
           p == AccountPosition(accts[u].supplied_shares, accts[u].debt_shares, flags)
           moved == [accts EXCEPT ![u].collateral_enabled[a] = flag]
<1>0. /\ accts = [v \in Users |-> accts[v]]
      /\ \A v \in Users : IsPosition(accts[v], DOMAIN res)
      /\ \A b \in DOMAIN res : Agrees(res[b], accts, b)
  BY DEF Ledger
<1>1. moved = [v \in Users |-> IF v = u THEN p ELSE accts[v]]
  <2>1. moved = [accts EXCEPT ![u] = [accts[u] EXCEPT !.collateral_enabled = flags]]
    OBVIOUS
  <2> HIDE DEF flags
  <2>2. [accts[u] EXCEPT !.collateral_enabled = flags] = p
    BY <1>0 DEF IsPosition, AccountPosition
  <2>3. QED BY <1>0, <2>1, <2>2
<1>2. flags \in [Assets -> BOOLEAN]
  BY <1>0 DEF IsPosition
<1>3. /\ p.supplied_shares = accts[u].supplied_shares
      /\ p.debt_shares = accts[u].debt_shares
      /\ p.collateral_enabled = flags
  BY DEF AccountPosition
<1> HIDE DEF p, moved, flags
<1>4. IsPosition(p, DOMAIN res)
  BY <1>0, <1>2, <1>3 DEF IsPosition, p
<1>5. \A b \in DOMAIN res : /\ Holdings(moved, b) = Holdings(accts, b)
                            /\ Debts(moved, b) = Debts(accts, b)
  BY <1>1, <1>3 DEF Holdings, Debts
<1>6. \A b \in DOMAIN res : Agrees(res[b], moved, b)
  BY <1>0, <1>5 DEF Agrees
<1>7. \A v \in Users : IsPosition(moved[v], DOMAIN res)
  BY <1>0, <1>1, <1>4
<1>8. moved = [v \in Users |-> moved[v]]
  BY <1>1
<1>9. Ledger(res, moved)
  BY <1>6, <1>7, <1>8 DEF Ledger
<1>10. QED BY <1>9 DEF moved

-----------------------------------------------------------------------------
(* The invariant, and what every operation starts from *)

SafeConfig ==
  /\ IsMap(reserve_configs, Assets, ReserveConfig)
  /\ \A a \in Listed : reserve_configs[a].reserve_factor_bps <= BPS_DENOMINATOR
  /\ default_interest_rate_model \in Models
  /\ close_factor_bps \in 0..BPS_DENOMINATOR

Surroundings ==
  /\ OracleTypeOK
  /\ paused \in BOOLEAN
  /\ approved \subseteq Assets
  /\ result \in {"Ok", "Err"}

IInv ==
  /\ Ledger(reserves, accounts)
  /\ DOMAIN reserves = Listed
  /\ SafeConfig
  /\ Surroundings

\* Every reserve takes a step that keeps its shares backed and their prices.
GoodMove(res, new) == \A a \in DOMAIN res : GoodStep(res[a], new[a])

\* s is r with more debt and more assets behind the same shares.
Grown(r, s) ==
  /\ IsReserve(s) /\ BackedReserve(s)
  /\ s.total_supply_shares = r.total_supply_shares
  /\ s.total_debt_shares = r.total_debt_shares
  /\ r.total_debt <= s.total_debt
  /\ r.protocol_fees <= s.protocol_fees
  /\ s.total_cash = r.total_cash
  /\ NetAssets(r) <= NetAssets(s)

LEMMA RateModelType ==
  ASSUME SafeConfig, NEW a \in Listed
  PROVE  IsModel(RateModel(a))
<1>1. RateModel(a) \in Models
  BY DEF SafeConfig, IsMap, Listed, ReserveConfig, RateModel
<1>2. QED BY <1>1, LendingAssumption DEF InterestRateModel, IsModel

LEMMA ReserveOK ==
  ASSUME IInv, NEW a \in Listed
  PROVE  IsReserve(reserves[a]) /\ BackedReserve(reserves[a])
BY DEF IInv, Ledger, Agrees

LEMMA GrownSelf ==
  ASSUME NEW r, IsReserve(r), BackedReserve(r)
  PROVE  Grown(r, r)
BY BackedTotals DEF Grown

LEMMA GrownIsGood ==
  ASSUME NEW r, IsReserve(r), BackedReserve(r), NEW s, Grown(r, s),
         NEW v, GoodStep(s, v)
  PROVE  GoodStep(r, v)
BY AccruedStep DEF Grown

\* Accrual adds debt and assets and touches no share.
LEMMA AccruedLedger ==
  ASSUME IInv, NEW S, NEW t \in Nat
  PROVE  /\ DOMAIN AccruedReserves(S, t) = Listed
         /\ AccruedReserves(S, t) = [b \in Listed |-> AccruedReserves(S, t)[b]]
         /\ Ledger(AccruedReserves(S, t), accounts)
         /\ \A b \in Listed : Grown(reserves[b], AccruedReserves(S, t)[b])
         /\ \A b \in Listed \ S : AccruedReserves(S, t)[b] = reserves[b]
         /\ GoodMove(reserves, AccruedReserves(S, t))
<1> DEFINE acc == AccruedReserves(S, t)
<1>1. acc = [b \in Listed |-> IF b \in S THEN Accrued(b, t) ELSE reserves[b]]
  BY DEF AccruedReserves
<1>2. ASSUME NEW b \in Listed PROVE Grown(reserves[b], Accrued(b, t))
  <2>1. reserve_configs[b].reserve_factor_bps \in 0..BPS_DENOMINATOR
    BY ScaleAssumption DEF IInv, SafeConfig, IsMap, Listed, ReserveConfig
  <2>2. IsModel(RateModel(b))
    BY RateModelType DEF IInv
  <2>3. QED BY <2>1, <2>2, ReserveOK, AccrueLemma DEF Accrued, Grown
<1> HIDE DEF acc
<1>3. ASSUME NEW b \in Listed PROVE Grown(reserves[b], acc[b])
  BY <1>1, <1>2, ReserveOK, GrownSelf
<1>4. DOMAIN acc = Listed /\ acc = [b \in Listed |-> acc[b]]
  BY <1>1
<1>5. Ledger(acc, accounts)
  <2>1. ASSUME NEW b \in Listed PROVE Agrees(acc[b], accounts, b)
    <3>1. Agrees(reserves[b], accounts, b)
      BY DEF IInv, Ledger
    <3>2. QED BY <1>3, <3>1 DEF Agrees, Grown
  <2>2. QED BY <1>4, <2>1 DEF IInv, Ledger
<1>6. GoodMove(reserves, acc)
  <2>1. ASSUME NEW b \in Listed PROVE GoodStep(reserves[b], acc[b])
    <3>1. GoodStep(acc[b], acc[b])
      BY <1>3, SameStep DEF Grown
    <3>2. QED BY <1>3, <3>1, ReserveOK, GrownIsGood
  <2>2. QED BY <2>1 DEF GoodMove, IInv
<1>7. \A b \in Listed \ S : acc[b] = reserves[b]
  BY <1>1
<1>8. QED BY <1>3, <1>4, <1>5, <1>6, <1>7 DEF acc

\* An operation that goes on to change the accrued reserves, or one of them.
LEMMA AccruedMoves ==
  ASSUME IInv, NEW acc, NEW new,
         \A b \in Listed : Grown(reserves[b], acc[b]) /\ GoodStep(acc[b], new[b])
  PROVE  GoodMove(reserves, new)
<1>1. \A b \in Listed : GoodStep(reserves[b], new[b])
  BY ReserveOK, GrownIsGood
<1>2. QED BY <1>1 DEF GoodMove, IInv

LEMMA AccruedMove ==
  ASSUME IInv, NEW acc, DOMAIN acc = Listed, acc = [b \in Listed |-> acc[b]],
         \A b \in Listed : Grown(reserves[b], acc[b]),
         NEW a \in Listed, NEW v, GoodStep(acc[a], v)
  PROVE  GoodMove(reserves, [acc EXCEPT ![a] = v])
<1> DEFINE new == [acc EXCEPT ![a] = v]
<1>1. new[a] = v /\ \A b \in Listed : b # a => new[b] = acc[b]
  OBVIOUS
<1> HIDE DEF new
<1>2. ASSUME NEW b \in Listed PROVE GoodStep(acc[b], new[b])
  <2>1. GoodStep(acc[b], acc[b])
    BY SameStep DEF Grown
  <2>2. QED BY <1>1, <2>1
<1>3. GoodMove(reserves, new)
  BY <1>2, AccruedMoves
<1>4. QED BY <1>3 DEF new

\* An operation that leaves a good ledger keeps the invariant.
LEMMA Returned ==
  ASSUME IInv, NEW answer \in {"Ok", "Err"}, NEW res, NEW accts,
         Returns(answer, res, accts), UNCHANGED <<configVars, oracleVars>>,
         DOMAIN res = Listed, Ledger(res, accts), GoodMove(reserves, res)
  PROVE  IInv' /\ GoodMove(reserves, reserves')
<1>1. reserves' = res /\ accounts' = accts /\ result' = answer
  BY DEF Returns
<1>2. Ledger(reserves', accounts') /\ GoodMove(reserves, reserves')
  BY <1>1
<1>3. Listed' = Listed
  BY DEF Listed, configVars
<1>4. DOMAIN reserves' = Listed'
  BY <1>1, <1>3
<1>5. SafeConfig'
  BY <1>3 DEF IInv, SafeConfig, configVars
<1>6. Surroundings'
  BY <1>1 DEF IInv, Surroundings, configVars, oracleVars, OracleTypeOK
<1>7. Ledger(reserves, accounts)'
  BY <1>2 DEF Ledger, IsPosition, IsHolding, Agrees, Debts, Holdings
<1>8. QED BY <1>2, <1>4, <1>5, <1>6, <1>7 DEF IInv

-----------------------------------------------------------------------------
(* One lemma per operation *)

LEMMA AccrueStep ==
  ASSUME IInv, NEW a \in Assets, NEW t \in Nat, accrue_interest(a, t)
  PROVE  IInv' /\ GoodMove(reserves, reserves')
BY AccruedLedger, Returned DEF accrue_interest, Succeeds

LEMMA DepositStep ==
  ASSUME IInv, NEW u \in Users, NEW a \in Assets, NEW x \in Nat, NEW t \in Nat,
         deposit(u, a, x, t)
  PROVE  IInv' /\ GoodMove(reserves, reserves')
<1> DEFINE acc == AccruedReserves({a}, t)
           r   == acc[a]
           q   == amount_to_supply_shares(r, x)
           s   == Supplied(r, x, q)
           res == [acc EXCEPT ![a] = s]
           accts == AddSupply(accounts, u, a, q)
<1>1. /\ a \in Listed
      /\ Fails(acc, accounts) \/ Succeeds(res, accts)
      /\ UNCHANGED <<configVars, oracleVars>>
  BY DEF deposit
<1>2. /\ DOMAIN acc = Listed /\ acc = [b \in Listed |-> acc[b]]
      /\ Ledger(acc, accounts)
      /\ \A b \in Listed : Grown(reserves[b], acc[b])
      /\ GoodMove(reserves, acc)
  BY AccruedLedger
<1> HIDE DEF acc
<1>3. IsReserve(r) /\ BackedReserve(r)
  BY <1>1, <1>2 DEF Grown
<1>4. q \in Nat /\ GoodStep(r, s)
  BY <1>3, SuppliedLemma
<1>5. CASE Fails(acc, accounts)
  BY <1>1, <1>2, <1>5, Returned DEF Fails
<1>6. CASE Succeeds(res, accts)
  <2>1. /\ s.total_debt_shares = r.total_debt_shares
        /\ s.total_supply_shares = r.total_supply_shares + q
    BY <1>3 DEF Supplied, IsReserve
  <2>2. Shares(accounts[u].supplied_shares, a) \in Nat
    BY <1>1, <1>2, LedgerParts
  <2>3. r.total_supply_shares \in Int /\ s.total_supply_shares \in Int
    BY <1>3, <1>4, <2>1, BackedTotals
  <2> HIDE DEF s, q, r
  <2>4. Ledger(res, accts)
    BY <1>1, <1>2, <1>4, <2>1, <2>2, <2>3, SupplyMoves DEF GoodStep, r
  <2>5. DOMAIN res = Listed /\ GoodMove(reserves, res)
    BY <1>1, <1>2, <1>4, AccruedMove DEF r
  <2>6. QED BY <1>1, <1>6, <2>4, <2>5, Returned DEF Succeeds
<1>7. QED BY <1>1, <1>5, <1>6

\* Burning a user's shares without paying keeps the ledger: the reserve's total
\* then exceeds what the users hold.
LEMMA WithdrawStep ==
  ASSUME IInv, NEW u \in Users, NEW a \in Assets, NEW x \in Nat, NEW t \in Nat,
         withdraw(u, a, x, t)
  PROVE  IInv' /\ GoodMove(reserves, reserves')
<1> DEFINE acc == AccruedReserves({a}, t)
           r   == acc[a]
           held == Shares(accounts[u].supplied_shares, a)
           q   == amount_to_supply_shares_rounded_up(r, x)
           s   == Redeemed(r, x, q)
           paid == [acc EXCEPT ![a] = s]
           burnt == AddSupply(accounts, u, a, -q)
<1>1. /\ a \in Listed
      /\ \/ Fails(acc, accounts)
         \/ held >= q /\ Fails(acc, burnt)
         \/ held >= q /\ r.total_cash >= x /\ (Fails(paid, burnt) \/ Succeeds(paid, burnt))
      /\ UNCHANGED <<configVars, oracleVars>>
  BY DEF withdraw
<1>2. /\ DOMAIN acc = Listed /\ acc = [b \in Listed |-> acc[b]]
      /\ Ledger(acc, accounts)
      /\ \A b \in Listed : Grown(reserves[b], acc[b])
      /\ GoodMove(reserves, acc)
  BY AccruedLedger
<1> HIDE DEF acc
<1>3. IsReserve(r) /\ BackedReserve(r)
  BY <1>1, <1>2 DEF Grown
<1>4. q \in Nat
  BY <1>3, BackedTotals, ToSharesUpLemma DEF amount_to_supply_shares_rounded_up
<1>5. held \in 0..r.total_supply_shares
  BY <1>1, <1>2, LedgerParts
<1>6. r.total_supply_shares \in Nat /\ r.total_cash \in Nat
  BY <1>3, BackedTotals
<1>7. CASE Fails(acc, accounts)
  BY <1>1, <1>2, <1>7, Returned DEF Fails
<1>8. CASE held >= q /\ Fails(acc, burnt)
  <2>1. acc = [acc EXCEPT ![a] = r]
    BY <1>2
  <2> DEFINE n == -q
  <2>2. /\ n \in Int /\ held + n >= 0
        /\ r.total_supply_shares >= r.total_supply_shares + n
    BY <1>4, <1>5, <1>6, <1>8
  <2> HIDE DEF q, n
  <2>3. Ledger([acc EXCEPT ![a] = r], AddSupply(accounts, u, a, n))
    BY <1>1, <1>2, <1>3, <2>2, SupplyMoves
  <2> USE DEF n
  <2>4. QED BY <1>1, <1>2, <1>8, <2>1, <2>3, Returned DEF Fails
<1>9. CASE held >= q /\ r.total_cash >= x /\ (Fails(paid, burnt) \/ Succeeds(paid, burnt))
  <2>1. GoodStep(r, s)
    BY <1>3, <1>4, <1>5, <1>6, <1>9, RedeemedLemma
  <2>2. /\ s.total_debt_shares = r.total_debt_shares
        /\ s.total_supply_shares = r.total_supply_shares - q
    BY <1>3 DEF Redeemed, IsReserve
  <2>3. held + (-q) >= 0 /\ s.total_supply_shares >= r.total_supply_shares + (-q)
    BY <1>4, <1>5, <1>6, <1>9, <2>2
  <2> HIDE DEF s, q, r, held
  <2>4. Ledger(paid, burnt)
    BY <1>1, <1>2, <1>4, <2>1, <2>2, <2>3, SupplyMoves DEF GoodStep, r, held
  <2>5. DOMAIN paid = Listed /\ GoodMove(reserves, paid)
    BY <1>1, <1>2, <2>1, AccruedMove DEF r
  <2>6. QED BY <1>1, <1>9, <2>4, <2>5, Returned DEF Succeeds, Fails
<1>10. QED BY <1>1, <1>7, <1>8, <1>9

LEMMA CollateralStep ==
  ASSUME IInv, NEW u \in Users, NEW a \in Assets, NEW enabled \in BOOLEAN,
         set_collateral_enabled(u, a, enabled)
  PROVE  IInv' /\ GoodMove(reserves, reserves')
<1> DEFINE after == [accounts EXCEPT ![u].collateral_enabled[a] = enabled]
<1>1. /\ \E answer \in {"Ok", "Err"} :
           Returns(answer, reserves, after) \/ Returns(answer, reserves, accounts)
      /\ UNCHANGED <<configVars, oracleVars>>
  BY DEF set_collateral_enabled, Succeeds, Fails
<1>2. Ledger(reserves, after) /\ Ledger(reserves, accounts)
  BY FlagMoves DEF IInv
<1>3. DOMAIN reserves = Listed /\ GoodMove(reserves, reserves)
  BY ReserveOK, SameStep DEF GoodMove, IInv
<1> HIDE DEF after
<1>4. QED BY <1>1, <1>2, <1>3, Returned

\* A loan that is not covered is rolled back; one whose collateral has no price
\* stays booked on both sides.
LEMMA BorrowStep ==
  ASSUME IInv, NEW u \in Users, NEW a \in Assets, NEW x \in Nat, NEW t \in Nat,
         borrow(u, a, x, t)
  PROVE  IInv' /\ GoodMove(reserves, reserves')
<1> DEFINE acc == AccruedReserves({a}, t)
           r   == acc[a]
           held == Shares(accounts[u].debt_shares, a)
           q   == amount_to_debt_shares(r, x)
           s   == Lent(r, x, q)
           lent == [acc EXCEPT ![a] = s]
           booked == AddDebt(accounts, u, a, q)
           undone == AddDebt(accounts, u, a, 0)
<1>1. /\ a \in Listed
      /\ \/ Fails(acc, accounts)
         \/ Fails(acc, undone)
         \/ r.total_cash >= x /\ (Fails(lent, booked) \/ Succeeds(lent, booked))
      /\ UNCHANGED <<configVars, oracleVars>>
  BY DEF borrow
<1>2. /\ DOMAIN acc = Listed /\ acc = [b \in Listed |-> acc[b]]
      /\ Ledger(acc, accounts)
      /\ \A b \in Listed : Grown(reserves[b], acc[b])
      /\ GoodMove(reserves, acc)
  BY AccruedLedger
<1> HIDE DEF acc
<1>3. IsReserve(r) /\ BackedReserve(r)
  BY <1>1, <1>2 DEF Grown
<1>4. held \in Nat
  BY <1>1, <1>2, LedgerParts
<1>5. /\ r.total_supply_shares \in Nat /\ r.total_debt_shares \in Nat
      /\ r.total_cash \in Nat
  BY <1>3, BackedTotals
<1>6. CASE Fails(acc, accounts)
  BY <1>1, <1>2, <1>6, Returned DEF Fails
<1>7. CASE Fails(acc, undone)
  <2>1. acc = [acc EXCEPT ![a] = r]
    BY <1>2
  <2> DEFINE n == 0
  <2>2. /\ n \in Int /\ held + n >= 0
        /\ r.total_debt_shares = r.total_debt_shares + n
    BY <1>4, <1>5
  <2> HIDE DEF n
  <2>3. Ledger([acc EXCEPT ![a] = r], AddDebt(accounts, u, a, n))
    BY <1>1, <1>2, <1>3, <2>2, DebtMoves
  <2> USE DEF n
  <2>4. QED BY <1>1, <1>2, <1>7, <2>1, <2>3, Returned DEF Fails
<1>8. CASE r.total_cash >= x /\ (Fails(lent, booked) \/ Succeeds(lent, booked))
  <2>1. q \in Nat /\ GoodStep(r, s)
    BY <1>3, <1>5, <1>8, LentLemma
  <2> HIDE DEF q
  <2>2. /\ s.total_debt_shares = r.total_debt_shares + q
        /\ s.total_supply_shares = r.total_supply_shares
    BY <1>3 DEF Lent, IsReserve
  <2>3. held + q >= 0
    BY <1>4, <2>1
  <2> HIDE DEF s
  <2>4. Ledger(lent, booked)
    BY <1>1, <1>2, <2>1, <2>2, <2>3, DebtMoves DEF GoodStep
  <2>5. DOMAIN lent = Listed /\ GoodMove(reserves, lent)
    BY <1>1, <1>2, <2>1, AccruedMove
  <2>6. QED BY <1>1, <1>8, <2>4, <2>5, Returned DEF Succeeds, Fails
<1>9. QED BY <1>1, <1>6, <1>7, <1>8

LEMMA RepayStep ==
  ASSUME IInv, NEW u \in Users, NEW a \in Assets, NEW x \in Nat, NEW t \in Nat,
         repay(u, a, x, t)
  PROVE  IInv' /\ GoodMove(reserves, reserves')
<1> DEFINE acc == AccruedReserves({a}, t)
           r   == acc[a]
           held == Shares(accounts[u].debt_shares, a)
           actual == min(x, debt_shares_to_amount(r, held))
           q   == amount_to_debt_shares_rounded_up(r, actual)
           s   == Repaid(r, actual, q)
           res == [acc EXCEPT ![a] = s]
<1>1. /\ a \in Listed
      /\ \/ Fails(acc, accounts)
         \/ Succeeds(res, AddDebt(accounts, u, a, -min(held, q)))
      /\ UNCHANGED <<configVars, oracleVars>>
  BY DEF repay
<1>2. /\ DOMAIN acc = Listed /\ acc = [b \in Listed |-> acc[b]]
      /\ Ledger(acc, accounts)
      /\ \A b \in Listed : Grown(reserves[b], acc[b])
      /\ GoodMove(reserves, acc)
  BY AccruedLedger
<1> HIDE DEF acc
<1>3. IsReserve(r) /\ BackedReserve(r)
  BY <1>1, <1>2 DEF Grown
<1>4. held \in 0..r.total_debt_shares
  BY <1>1, <1>2, LedgerParts
<1>5. r.total_debt_shares \in Nat
  BY <1>3, BackedTotals
<1>6. CASE Fails(acc, accounts)
  BY <1>1, <1>2, <1>6, Returned DEF Fails
<1>7. CASE Succeeds(res, AddDebt(accounts, u, a, -min(held, q)))
  <2>1. actual \in Nat /\ actual <= debt_shares_to_amount(r, held)
    <3>1. debt_shares_to_amount(r, held) \in Nat
      <4>1. r.total_debt_shares \in Nat /\ r.total_debt \in Nat /\ held \in Nat
        BY <1>3, <1>4, BackedTotals
      <4> HIDE DEF r, held
      <4>2. QED BY <4>1, ToAmountLemma DEF debt_shares_to_amount
    <3> HIDE DEF r, held
    <3>2. QED BY <3>1 DEF min
  <2> HIDE DEF actual
  <2>2. /\ q \in 0..held
        /\ GoodStep(r, s)
        /\ s.total_debt_shares = r.total_debt_shares - q
    BY <1>3, <1>4, <2>1, RepaidLemma
  <2>3. s.total_supply_shares = r.total_supply_shares
    BY <1>3 DEF Repaid, IsReserve
  <2> DEFINE n == -q
  <2>4. /\ n \in Int /\ held + n >= 0 /\ -min(held, q) = n
        /\ s.total_debt_shares = r.total_debt_shares + n
    BY <1>4, <1>5, <2>2 DEF min
  <2> HIDE DEF s, q, n
  <2>5. Ledger(res, AddDebt(accounts, u, a, n))
    BY <1>1, <1>2, <2>2, <2>3, <2>4, DebtMoves DEF GoodStep
  <2>6. DOMAIN res = Listed /\ GoodMove(reserves, res)
    BY <1>1, <1>2, <2>2, AccruedMove
  <2>7. QED BY <1>1, <1>7, <2>4, <2>5, <2>6, Returned DEF Succeeds
<1>8. QED BY <1>1, <1>6, <1>7

\* A step that only moves what backs the debt, then one that leaves the debt alone.
LEMMA ThenStep ==
  ASSUME NEW r, IsReserve(r), BackedReserve(r), NEW m, GoodStep(r, m),
         m.total_supply_shares = r.total_supply_shares, NetAssets(m) = NetAssets(r),
         NEW s, GoodStep(m, s),
         s.total_debt = m.total_debt, s.total_debt_shares = m.total_debt_shares
  PROVE  GoodStep(r, s)
BY DEF GoodStep, SupplyPriceKept, DebtPriceKept

\* Repayment turns debt into cash: the supply side does not notice.
LEMMA RepaidSides ==
  ASSUME NEW r, IsReserve(r), NEW x \in Nat, NEW q \in Nat
  PROVE  /\ Repaid(r, x, q).total_supply_shares = r.total_supply_shares
         /\ Repaid(r, x, q).total_cash = r.total_cash + x
         /\ NetAssets(Repaid(r, x, q)) = NetAssets(r)
<1>1. /\ r.total_cash \in Int /\ r.total_debt \in Int /\ r.protocol_fees \in Int
  BY DEF IsReserve
<1> DEFINE s == Repaid(r, x, q)
<1>2. /\ s.total_supply_shares = r.total_supply_shares
      /\ s.total_cash = r.total_cash + x
      /\ s.total_debt = r.total_debt - x
      /\ s.protocol_fees = r.protocol_fees
  BY DEF IsReserve, Repaid
<1> HIDE DEF s
<1>3. NetAssets(s) = NetAssets(r)
  BY <1>1, <1>2 DEF NetAssets
<1>4. QED BY <1>2, <1>3 DEF s

LEMMA RedeemedSides ==
  ASSUME NEW r, IsReserve(r), NEW x \in Nat, NEW q \in Nat
  PROVE  /\ Redeemed(r, x, q).total_supply_shares = r.total_supply_shares - q
         /\ Redeemed(r, x, q).total_debt = r.total_debt
         /\ Redeemed(r, x, q).total_debt_shares = r.total_debt_shares
BY DEF IsReserve, Redeemed

LEMMA WorthTypes ==
  ASSUME NEW r, IsReserve(r), BackedReserve(r), NEW n \in Nat
  PROVE  debt_shares_to_amount(r, n) \in Nat /\ supply_shares_to_amount(r, n) \in Nat
<1>1. /\ r.total_debt_shares \in Nat /\ r.total_debt \in Nat
      /\ r.total_supply_shares \in Nat /\ NetAssets(r) \in Nat
  BY BackedTotals
<1>2. debt_shares_to_amount(r, n) \in Nat
  BY <1>1, ToAmountLemma DEF debt_shares_to_amount
<1>3. supply_shares_to_amount(r, n) \in Nat
  BY <1>1, ToAmountLemma DEF supply_shares_to_amount
<1>4. QED BY <1>2, <1>3

\* What a liquidation repays and seizes.
LEMMA LiquidationAmounts ==
  ASSUME IInv, NEW d \in Listed, NEW c \in Listed, HasPrice(c),
         NEW worth \in Nat, NEW x \in Nat
  PROVE  LET repaid == min(x, bps_mul(worth, close_factor_bps))
             bonus  == BPS_DENOMINATOR + reserve_configs[c].liquidation_bonus_bps
             seized == mul_div(bps_mul(mul_div(repaid, get_price(d), WAD), bonus),
                               WAD, get_price(c))
         IN  repaid \in 0..worth /\ seized \in Nat
<1> DEFINE repaid == min(x, bps_mul(worth, close_factor_bps))
           bonus  == BPS_DENOMINATOR + reserve_configs[c].liquidation_bonus_bps
           value  == mul_div(repaid, get_price(d), WAD)
           part   == bps_mul(value, bonus)
           seized == mul_div(part, WAD, get_price(c))
<1>1. WAD \in Nat \ {0} /\ BPS_DENOMINATOR \in Nat \ {0}
  BY ScaleAssumption
<1>2. bps_mul(worth, close_factor_bps) \in 0..worth
  BY BpsPart DEF IInv, SafeConfig
<1>3. repaid \in 0..worth
  BY <1>2 DEF min
<1>4. d \in Assets /\ c \in Assets
  BY DEF IInv, SafeConfig, IsMap, Listed
<1>5. get_price(d) \in Nat /\ get_price(c) \in Nat \ {0}
  BY <1>4 DEF IInv, Surroundings, OracleTypeOK, PriceEntry, get_price, HasPrice
<1>6. bonus \in Nat
  BY <1>1 DEF IInv, SafeConfig, IsMap, Listed, ReserveConfig
<1> HIDE DEF repaid, bonus
<1>7. value \in Nat
  BY <1>1, <1>3, <1>5, MulDivOfNats
<1> HIDE DEF value
<1>8. part \in Nat
  BY <1>1, <1>6, <1>7, MulDivOfNats DEF bps_mul
<1> HIDE DEF part
<1>9. seized \in Nat
  BY <1>1, <1>5, <1>8, MulDivOfNats
<1>10. QED BY <1>3, <1>9 DEF repaid, bonus, value, part

\* The debt is repaid first, then the collateral is taken; the second step is
\* the identity when the borrower has no entry for the collateral. c may be d.
LEMMA LiquidateStep ==
  ASSUME IInv, NEW u \in Users, NEW d \in Assets, NEW c \in Assets,
         NEW x \in Nat, NEW t \in Nat, liquidate(u, d, c, x, t)
  PROVE  IInv' /\ GoodMove(reserves, reserves')
<1>1. CASE c \notin Listed
  <2>1. /\ Fails(AccruedReserves({d}, t), accounts)
        /\ UNCHANGED <<configVars, oracleVars>>
    BY <1>1 DEF liquidate
  <2>2. QED BY <2>1, AccruedLedger, Returned DEF Fails
<1>2. CASE c \in Listed
  <2> DEFINE acc    == AccruedReserves({d, c}, t)
             owes   == Shares(accounts[u].debt_shares, d)
             holds  == Shares(accounts[u].supplied_shares, c)
             worth  == debt_shares_to_amount(acc[d], owes)
             repaid == min(x, bps_mul(worth, close_factor_bps))
             bonus  == BPS_DENOMINATOR + reserve_configs[c].liquidation_bonus_bps
             seized == mul_div(bps_mul(mul_div(repaid, get_price(d), WAD), bonus),
                               WAD, get_price(c))
             up     == amount_to_debt_shares_rounded_up(acc[d], repaid)
             burnt  == min(up, owes)
             shares == amount_to_supply_shares_rounded_up(acc[c], seized)
             mid    == [acc EXCEPT ![d] = Repaid(acc[d], repaid, burnt)]
             relieved == AddDebt(accounts, u, d, -burnt)
             final  == [mid EXCEPT ![c] = Redeemed(mid[c], seized, shares)]
             seizedFrom == AddSupply(relieved, u, c, -shares)
             allowed == /\ HasPrice(c)
                        /\ supply_shares_to_amount(acc[c], holds) >= seized
                        /\ acc[c].total_cash >= seized
  <2>1. /\ d \in Listed
        /\ \/ Fails(acc, accounts)
           \/ allowed /\ Fails(mid, relieved)
           \/ allowed /\ Succeeds(final, seizedFrom)
        /\ UNCHANGED <<configVars, oracleVars>>
    BY <1>2 DEF liquidate
  <2>2. /\ DOMAIN acc = Listed /\ acc = [b \in Listed |-> acc[b]]
        /\ Ledger(acc, accounts)
        /\ \A b \in Listed : Grown(reserves[b], acc[b])
        /\ GoodMove(reserves, acc)
    BY AccruedLedger
  <2> HIDE DEF acc
  <2>3. /\ IsReserve(acc[d]) /\ BackedReserve(acc[d])
        /\ IsReserve(acc[c]) /\ BackedReserve(acc[c])
    BY <1>2, <2>1, <2>2 DEF Grown
  <2>4. CASE Fails(acc, accounts)
    BY <2>1, <2>2, <2>4, Returned DEF Fails
  <2>5. CASE allowed /\ (Fails(mid, relieved) \/ Succeeds(final, seizedFrom))
    <3>1. /\ owes \in 0..acc[d].total_debt_shares
          /\ holds \in 0..acc[c].total_supply_shares
      BY <1>2, <2>1, <2>2, LedgerParts
    <3>2. /\ acc[d].total_debt_shares \in Nat /\ acc[d].total_debt \in Nat
          /\ acc[c].total_supply_shares \in Nat /\ NetAssets(acc[c]) \in Nat
          /\ acc[c].total_supply_shares <= NetAssets(acc[c])
          /\ acc[c].total_cash \in Nat
      BY <2>3, BackedTotals
    <3>3. worth \in Nat
      <4>1. owes \in Nat
        BY <3>1, <3>2
      <4> HIDE DEF owes
      <4>2. QED BY <2>3, <4>1, WorthTypes
    <3>4. HasPrice(c)
      BY <2>5
    <3> DEFINE w == worth
    <3>5. repaid \in 0..worth /\ seized \in Nat
      <4>0. worth = w /\ w \in Nat
        BY <3>3
      <4> HIDE DEF worth, w
      <4>1. QED BY <1>2, <2>1, <3>4, <4>0, LiquidationAmounts
    <3>6. seized <= supply_shares_to_amount(acc[c], holds) /\ seized <= acc[c].total_cash
      <4>1. supply_shares_to_amount(acc[c], holds) \in Nat
        <5>1. holds \in Nat
          BY <3>1, <3>2
        <5> HIDE DEF holds
        <5>2. QED BY <2>3, <5>1, WorthTypes
      <4> HIDE DEF seized, holds
      <4>2. QED BY <2>5, <3>2, <3>5, <4>1
    <3> HIDE DEF repaid, seized
    <3>7. /\ up \in 0..owes
          /\ GoodStep(acc[d], Repaid(acc[d], repaid, up))
          /\ Repaid(acc[d], repaid, up).total_debt_shares = acc[d].total_debt_shares - up
      BY <2>3, <3>1, <3>3, <3>5, RepaidLemma
    <3>8. burnt = up
      BY <3>1, <3>7 DEF min
    <3> DEFINE m == Repaid(acc[d], repaid, burnt)
               n == -burnt
    <3> HIDE DEF burnt, up, owes
    <3>9. /\ GoodStep(acc[d], m)
          /\ m.total_supply_shares = acc[d].total_supply_shares
          /\ m.total_cash = acc[d].total_cash + repaid
          /\ NetAssets(m) = NetAssets(acc[d])
          /\ m.total_debt_shares = acc[d].total_debt_shares + n
          /\ n \in Int /\ owes + n >= 0
      <4>1. repaid \in Nat /\ burnt \in Nat
        BY <3>1, <3>2, <3>3, <3>5, <3>7, <3>8
      <4>2. /\ m.total_supply_shares = acc[d].total_supply_shares
            /\ m.total_cash = acc[d].total_cash + repaid
            /\ NetAssets(m) = NetAssets(acc[d])
        BY <2>3, <4>1, RepaidSides
      <4>3. GoodStep(acc[d], m) /\ m.total_debt_shares = acc[d].total_debt_shares - burnt
        BY <3>7, <3>8
      <4> HIDE DEF m
      <4>4. n \in Int /\ owes + n >= 0 /\ acc[d].total_debt_shares - burnt = acc[d].total_debt_shares + n
        BY <3>1, <3>2, <3>7, <3>8, <4>1
      <4>5. QED BY <4>2, <4>3, <4>4
    <3> HIDE DEF m, n
    <3>10. /\ Ledger([acc EXCEPT ![d] = m], AddDebt(accounts, u, d, n))
           /\ AddDebt(accounts, u, d, n)[u].supplied_shares = accounts[u].supplied_shares
      <4>1. IsReserve(m) /\ BackedReserve(m)
        BY <3>9 DEF GoodStep
      <4>2. Shares(accounts[u].debt_shares, d) + n >= 0
        BY <3>9 DEF owes
      <4>3. d \in DOMAIN acc /\ Ledger(acc, accounts)
        BY <2>1, <2>2
      <4>4. /\ m.total_debt_shares = acc[d].total_debt_shares + n
            /\ m.total_supply_shares = acc[d].total_supply_shares
            /\ n \in Int
        BY <3>9
      <4>5. QED BY <4>1, <4>2, <4>3, <4>4, DebtMoves
    <3>11. Ledger(mid, relieved) /\ relieved[u].supplied_shares = accounts[u].supplied_shares
      BY <3>10 DEF m, n
    <3>12. /\ DOMAIN mid = Listed /\ mid[d] = m
           /\ \A b \in Listed : b # d => mid[b] = acc[b]
      BY <2>1, <2>2 DEF m
    <3> HIDE DEF mid, relieved
    <3>13. \A b \in Listed : GoodStep(acc[b], mid[b])
      BY <2>2, <3>9, <3>12, SameStep DEF Grown
    <3>14. GoodMove(reserves, mid)
      BY <2>2, <3>13, AccruedMoves
    <3>15. CASE Fails(mid, relieved)
      BY <2>1, <3>11, <3>12, <3>14, <3>15, Returned DEF Fails
    <3>16. CASE Succeeds(final, seizedFrom)
      <4> DEFINE k == mid[c]
                 s == Redeemed(k, seized, shares)
                 less == -shares
      <4>1. /\ GoodStep(acc[c], k)
            /\ k.total_supply_shares = acc[c].total_supply_shares
            /\ NetAssets(k) = NetAssets(acc[c])
            /\ seized <= k.total_cash
        <5>1. CASE c = d
          BY <3>2, <3>3, <3>5, <3>6, <3>9, <3>12, <5>1
        <5>2. CASE c # d
          BY <1>2, <3>6, <3>12, <3>13, <5>2
        <5>3. QED BY <5>1, <5>2
      <4>2. IsReserve(k) /\ BackedReserve(k)
        BY <4>1 DEF GoodStep
      <4>3. shares = amount_to_supply_shares_rounded_up(k, seized)
        BY <4>1 DEF amount_to_supply_shares_rounded_up
      <4>4. shares <= holds
        <5> HIDE DEF holds
        <5>1. QED BY <3>1, <3>2, <3>5, <3>6, ToSharesUpWithin
                    DEF amount_to_supply_shares_rounded_up, supply_shares_to_amount
      <4> HIDE DEF holds, k
      <4>5. /\ shares \in Nat
            /\ shares <= k.total_supply_shares => GoodStep(k, s)
        BY <3>5, <4>1, <4>2, <4>3, RedeemedLemma
      <4> HIDE DEF shares
      <4>6. GoodStep(k, s)
        BY <3>1, <3>2, <4>1, <4>4, <4>5
      <4>7. /\ s.total_supply_shares = k.total_supply_shares - shares
            /\ s.total_debt = k.total_debt
            /\ s.total_debt_shares = k.total_debt_shares
        BY <3>5, <4>2, <4>5, RedeemedSides
      <4>8. GoodStep(acc[c], s)
        BY <2>3, <4>1, <4>6, <4>7, ThenStep
      <4> HIDE DEF s
      <4>9. /\ less \in Int /\ holds + less >= 0
            /\ s.total_supply_shares >= k.total_supply_shares + less
        BY <3>1, <3>2, <4>1, <4>4, <4>5, <4>7
      <4> HIDE DEF less
      <4>10. Shares(relieved[u].supplied_shares, c) = holds
        BY <3>11 DEF holds
      <4>11. Ledger([mid EXCEPT ![c] = s], AddSupply(relieved, u, c, less))
        BY <1>2, <3>11, <3>12, <4>6, <4>7, <4>9, <4>10, SupplyMoves DEF GoodStep, k
      <4>12. Ledger(final, seizedFrom)
        BY <4>11 DEF s, less, k
      <4>13. DOMAIN final = Listed
        BY <3>12
      <4>14. \A b \in Listed : GoodStep(acc[b], final[b])
        BY <3>12, <3>13, <4>8 DEF s, k
      <4>15. GoodMove(reserves, final)
        BY <2>2, <4>14, AccruedMoves
      <4> HIDE DEF final, seizedFrom
      <4>16. QED BY <2>1, <3>16, <4>12, <4>13, <4>15, Returned DEF Succeeds
    <3>17. QED BY <2>5, <3>15, <3>16
  <2>6. QED BY <2>1, <2>4, <2>5
<1>3. QED BY <1>1, <1>2

LEMMA FlashLoanStep ==
  ASSUME IInv, NEW a \in Assets, NEW x \in Nat, NEW returned \in Nat, NEW t \in Nat,
         flash_loan(a, x, returned, t)
  PROVE  IInv' /\ GoodMove(reserves, reserves')
<1> DEFINE acc == AccruedReserves({a}, t)
           r   == acc[a]
           cfg == reserve_configs[a]
           extra == returned - x
           s   == FlashFeePaid(r, extra, bps_mul(extra, cfg.reserve_factor_bps))
           res == [acc EXCEPT ![a] = s]
<1>1. /\ a \in Listed
      /\ \/ Fails(acc, accounts)
         \/ extra >= bps_mul(x, cfg.flash_loan_fee_bps) /\ Succeeds(res, accounts)
      /\ UNCHANGED <<configVars, oracleVars>>
  BY DEF flash_loan
<1>2. /\ DOMAIN acc = Listed /\ acc = [b \in Listed |-> acc[b]]
      /\ Ledger(acc, accounts)
      /\ \A b \in Listed : Grown(reserves[b], acc[b])
      /\ GoodMove(reserves, acc)
  BY AccruedLedger
<1> HIDE DEF acc
<1>3. IsReserve(r) /\ BackedReserve(r)
  BY <1>1, <1>2 DEF Grown
<1>4. CASE Fails(acc, accounts)
  BY <1>1, <1>2, <1>4, Returned DEF Fails
<1>5. CASE extra >= bps_mul(x, cfg.flash_loan_fee_bps) /\ Succeeds(res, accounts)
  <2>1. /\ cfg.flash_loan_fee_bps \in Nat
        /\ cfg.reserve_factor_bps \in 0..BPS_DENOMINATOR
        /\ BPS_DENOMINATOR \in Nat \ {0}
    BY <1>1, ScaleAssumption DEF IInv, SafeConfig, IsMap, Listed, ReserveConfig
  <2> HIDE DEF cfg
  <2>2. bps_mul(x, cfg.flash_loan_fee_bps) \in Nat
    BY <2>1, MulDivOfNats DEF bps_mul
  <2>3. extra \in Nat
    BY <1>5, <2>2
  <2> HIDE DEF extra
  <2>4. GoodStep(r, s)
    BY <1>3, <2>1, <2>3, FlashFeeLemma
  <2>5. /\ s.total_debt_shares = r.total_debt_shares
        /\ s.total_supply_shares = r.total_supply_shares
    BY <1>3 DEF IsReserve, FlashFeePaid
  <2>6. r.total_supply_shares \in Nat
    BY <1>3, BackedTotals
  <2> HIDE DEF s
  <2>7. Ledger(res, accounts)
    BY <1>1, <1>2, <2>4, <2>5, <2>6, ReserveMoves DEF GoodStep
  <2>8. DOMAIN res = Listed /\ GoodMove(reserves, res)
    BY <1>1, <1>2, <2>4, AccruedMove
  <2>9. QED BY <1>1, <1>5, <2>7, <2>8, Returned DEF Succeeds
<1>6. QED BY <1>1, <1>4, <1>5

\* A negative request, which a proposal may carry, books fees instead of paying them.
LEMMA CollectFeesStep ==
  ASSUME IInv, NEW a \in Assets, NEW x \in Int, collect_protocol_fees(a, x)
  PROVE  IInv' /\ GoodMove(reserves, reserves')
<1> DEFINE r == reserves[a]
           actual == min(x, r.protocol_fees)
           s == FeesCollected(r, actual)
           res == [reserves EXCEPT ![a] = s]
<1>1. /\ a \in Listed
      /\ r.total_cash >= actual
      /\ Succeeds(res, accounts)
      /\ UNCHANGED <<configVars, oracleVars>>
  BY DEF collect_protocol_fees
<1>2. IsReserve(r) /\ BackedReserve(r)
  BY <1>1, ReserveOK
<1>3. r.total_cash \in Nat /\ r.protocol_fees \in Nat /\ r.total_supply_shares \in Nat
  BY <1>2, BackedTotals
<1>4. actual \in Int /\ actual <= r.protocol_fees /\ actual <= r.total_cash
  <2>1. r.total_cash >= actual
    BY <1>1
  <2> HIDE DEF r
  <2>2. QED BY <1>3, <2>1 DEF min
<1> HIDE DEF actual
<1>5. GoodStep(r, s)
  BY <1>2, <1>4, FeesCollectedLemma
<1>6. /\ s.total_debt_shares = r.total_debt_shares
      /\ s.total_supply_shares = r.total_supply_shares
  BY <1>2 DEF IsReserve, FeesCollected
<1> HIDE DEF s
<1>7. DOMAIN reserves = Listed /\ Ledger(reserves, accounts)
  BY DEF IInv
<1>8. Ledger(res, accounts)
  <2>1. IsReserve(s) /\ BackedReserve(s)
    BY <1>5 DEF GoodStep
  <2>2. /\ s.total_debt_shares = reserves[a].total_debt_shares
        /\ s.total_supply_shares >= reserves[a].total_supply_shares
    BY <1>3, <1>6
  <2>3. a \in DOMAIN reserves
    BY <1>1, <1>7
  <2>4. QED BY <1>7, <2>1, <2>2, <2>3, ReserveMoves
<1>9. DOMAIN res = Listed /\ \A b \in Listed : GoodStep(reserves[b], res[b])
  BY <1>1, <1>5, <1>7, ReserveOK, SameStep
<1>10. GoodMove(reserves, res)
  BY <1>7, <1>9 DEF GoodMove
<1>11. QED BY <1>1, <1>8, <1>9, <1>10, Returned DEF Succeeds

\* Nobody holds shares of an asset before it is registered.
LEMMA RegisterStep ==
  ASSUME SaneLimits, IInv, NEW a \in Assets, NEW cfg \in Configs, NEW t \in Nat,
         register_asset(a, cfg, t)
  PROVE  IInv' /\ GoodMove(reserves, reserves')
<1> DEFINE n == NewReserve(t)
           L == Listed \cup {a}
           res == Put(reserves, a, n)
<1>1. /\ a \notin Listed /\ Listed = DOMAIN reserves /\ Listed \subseteq Assets
      /\ Ledger(reserves, accounts)
  BY DEF register_asset, IInv, Ledger
<1>2. /\ reserves' = res /\ accounts' = accounts /\ result' = "Ok"
      /\ reserve_configs' = Put(reserve_configs, a, cfg)
      /\ UNCHANGED <<default_interest_rate_model, close_factor_bps, paused, approved,
                     oracleVars>>
  BY DEF register_asset, Succeeds, Returns
<1>3. IsReserve(n) /\ BackedReserve(n) /\ n.total_debt_shares = 0 /\ n.total_supply_shares = 0
  BY NewReserveLemma DEF NewReserve
<1> HIDE DEF n
<1>4. /\ DOMAIN res = L /\ res = [b \in L |-> res[b]]
      /\ res[a] = n /\ \A b \in Listed : res[b] = reserves[b]
  BY <1>1 DEF Put
<1> HIDE DEF res
<1>5. /\ accounts = [u \in Users |-> accounts[u]]
      /\ \A u \in Users : IsPosition(accounts[u], Listed)
      /\ \A b \in Listed : Agrees(reserves[b], accounts, b)
  BY <1>1 DEF Ledger
<1>6. \A u \in Users : /\ IsPosition(accounts[u], L)
                       /\ Shares(accounts[u].supplied_shares, a) = 0
                       /\ Shares(accounts[u].debt_shares, a) = 0
  BY <1>1, <1>5 DEF IsPosition, IsHolding, Shares, GetOr
<1>7. Agrees(n, accounts, a)
  <2>1. Holdings(accounts, a) = [u \in 1..NumUsers |-> 0]
    BY <1>6, UsersNat DEF Holdings
  <2>2. Debts(accounts, a) = [u \in 1..NumUsers |-> 0]
    BY <1>6, UsersNat DEF Debts
  <2>3. SumTo([u \in 1..NumUsers |-> 0], NumUsers) = 0
    BY UsersNat, SumToZero
  <2>4. QED BY <1>3, <2>1, <2>2, <2>3 DEF Agrees
<1>8. \A b \in L : Agrees(res[b], accounts, b)
  BY <1>4, <1>5, <1>7
<1>9. Ledger(res, accounts)
  BY <1>1, <1>4, <1>5, <1>6, <1>8 DEF Ledger
<1>10. Ledger(reserves, accounts)'
  BY <1>2, <1>9 DEF Ledger, IsPosition, IsHolding, Agrees, Debts, Holdings
<1>11. /\ Listed' = L
       /\ DOMAIN reserves' = L
       /\ reserve_configs'[a] = cfg
       /\ \A b \in Listed : reserve_configs'[b] = reserve_configs[b]
       /\ reserve_configs' = [b \in L |-> reserve_configs'[b]]
  BY <1>1, <1>2, <1>4 DEF Put, Listed
<1>12. cfg \in ReserveConfig /\ cfg.reserve_factor_bps <= BPS_DENOMINATOR
  BY LendingAssumption DEF SaneLimits
<1>13. \A b \in L : /\ reserve_configs'[b] \in ReserveConfig
                    /\ reserve_configs'[b].reserve_factor_bps <= BPS_DENOMINATOR
  BY <1>11, <1>12 DEF IInv, SafeConfig, IsMap, Listed
<1>14. SafeConfig'
  <2>1. IsMap(reserve_configs', Assets, ReserveConfig)
    BY <1>1, <1>11, <1>13 DEF IsMap, Listed
  <2>2. /\ default_interest_rate_model' \in Models
        /\ close_factor_bps' \in 0..BPS_DENOMINATOR
    BY <1>2 DEF IInv, SafeConfig
  <2>3. QED BY <1>11, <1>13, <2>1, <2>2 DEF SafeConfig
<1>15. Surroundings'
  BY <1>2 DEF IInv, Surroundings, oracleVars, OracleTypeOK
<1>16. IInv'
  BY <1>10, <1>11, <1>14, <1>15 DEF IInv
<1>17. GoodMove(reserves, reserves')
  BY <1>1, <1>2, <1>4, ReserveOK, SameStep DEF GoodMove
<1>18. QED BY <1>16, <1>17

\* A setter, the pause, the registry or the oracle: the ledger stands still.
LEMMA QuietStep ==
  ASSUME IInv, UNCHANGED <<reserves, accounts>>, Listed' = Listed,
         SafeConfig', Surroundings'
  PROVE  IInv' /\ GoodMove(reserves, reserves')
<1>1. Ledger(reserves, accounts)'
  BY DEF IInv, Ledger, IsPosition, IsHolding, Agrees, Debts, Holdings
<1>2. GoodMove(reserves, reserves')
  BY ReserveOK, SameStep DEF GoodMove, IInv
<1>3. QED BY <1>1, <1>2 DEF IInv

LEMMA ConfigureStep ==
  ASSUME IInv, NEW a \in Assets, NEW cfg \in ReserveConfig,
         cfg.reserve_factor_bps <= BPS_DENOMINATOR, Configure(a, cfg)
  PROVE  IInv' /\ GoodMove(reserves, reserves')
<1>1. /\ a \in Listed
      /\ reserve_configs' = [reserve_configs EXCEPT ![a] = cfg]
      /\ result' = "Ok"
      /\ UNCHANGED <<reserves, accounts, default_interest_rate_model,
                     close_factor_bps, paused, approved, oracleVars>>
  BY DEF Configure
<1>2. Listed' = Listed
  BY <1>1 DEF Listed
<1>3. SafeConfig'
  BY <1>1, <1>2 DEF IInv, SafeConfig, IsMap, Listed
<1>4. Surroundings'
  BY <1>1 DEF IInv, Surroundings, oracleVars, OracleTypeOK
<1>5. QED BY <1>1, <1>2, <1>3, <1>4, QuietStep

\* One field of the configuration in force is replaced.
LEMMA ConfigFields ==
  ASSUME IInv, NEW a \in Listed
  PROVE  LET cfg == reserve_configs[a]
         IN  /\ cfg \in ReserveConfig /\ cfg.reserve_factor_bps <= BPS_DENOMINATOR
             /\ \A m \in Models \cup {NoModel} :
                  /\ [cfg EXCEPT !.interest_rate_model = m] \in ReserveConfig
                  /\ [cfg EXCEPT !.interest_rate_model = m].reserve_factor_bps
                       = cfg.reserve_factor_bps
             /\ \A n \in Nat :
                  /\ [cfg EXCEPT !.supply_cap = n] \in ReserveConfig
                  /\ [cfg EXCEPT !.supply_cap = n].reserve_factor_bps
                       = cfg.reserve_factor_bps
                  /\ [cfg EXCEPT !.borrow_cap = n] \in ReserveConfig
                  /\ [cfg EXCEPT !.borrow_cap = n].reserve_factor_bps
                       = cfg.reserve_factor_bps
                  /\ [cfg EXCEPT !.reserve_factor_bps = n] \in ReserveConfig
                  /\ [cfg EXCEPT !.reserve_factor_bps = n].reserve_factor_bps = n
<1> DEFINE cfg == reserve_configs[a]
<1>1. cfg \in ReserveConfig /\ cfg.reserve_factor_bps <= BPS_DENOMINATOR
  BY DEF IInv, SafeConfig, IsMap, Listed
<1> HIDE DEF cfg
<1>2. QED BY <1>1 DEF ReserveConfig, cfg

LEMMA GovernedStep ==
  ASSUME SaneLimits, IInv, Governed
  PROVE  IInv' /\ GoodMove(reserves, reserves')
<1>1. ASSUME NEW a \in Assets, NEW x \in FeeRequests, collect_protocol_fees(a, x)
      PROVE  IInv' /\ GoodMove(reserves, reserves')
  BY <1>1, CollectFeesStep, LendingAssumption
<1>2. ASSUME NEW a \in Assets, NEW cfg \in Configs, NEW t \in Timestamps,
             register_asset(a, cfg, t)
      PROVE  IInv' /\ GoodMove(reserves, reserves')
  BY <1>2, RegisterStep, LendingAssumption
<1>3. ASSUME NEW a \in Assets, NEW cfg \in Configs, update_reserve_config(a, cfg)
      PROVE  IInv' /\ GoodMove(reserves, reserves')
  BY <1>3, ConfigureStep, LendingAssumption DEF SaneLimits, update_reserve_config
<1>4. ASSUME NEW bps \in CloseFactors, set_close_factor(bps)
      PROVE  IInv' /\ GoodMove(reserves, reserves')
  <2>1. Listed' = Listed /\ UNCHANGED <<reserves, accounts>>
    BY <1>4 DEF set_close_factor, Listed
  <2>2. SafeConfig'
    BY <1>4, <2>1 DEF set_close_factor, IInv, SafeConfig, SaneLimits
  <2>3. Surroundings'
    BY <1>4 DEF set_close_factor, IInv, Surroundings, oracleVars, OracleTypeOK
  <2>4. QED BY <2>1, <2>2, <2>3, QuietStep
<1>5. QED BY <1>1, <1>2, <1>3, <1>4 DEF Governed

LEMMA AdministeredStep ==
  ASSUME IInv, Administered
  PROVE  IInv' /\ GoodMove(reserves, reserves')
<1>1. ASSUME NEW a \in Assets, NEW m \in Models \cup {NoModel},
             set_asset_interest_rate_model(a, m)
      PROVE  IInv' /\ GoodMove(reserves, reserves')
  BY <1>1, ConfigFields, ConfigureStep DEF set_asset_interest_rate_model, Configure
<1>2. ASSUME NEW a \in Assets, NEW n \in Caps, set_supply_cap(a, n) \/ set_borrow_cap(a, n)
      PROVE  IInv' /\ GoodMove(reserves, reserves')
  BY <1>2, ConfigFields, ConfigureStep, LendingAssumption
     DEF set_supply_cap, set_borrow_cap, Configure
<1>3. ASSUME NEW a \in Assets, NEW bps \in ReserveFactors, set_reserve_factor(a, bps)
      PROVE  IInv' /\ GoodMove(reserves, reserves')
  BY <1>3, ConfigFields, ConfigureStep, LendingAssumption DEF set_reserve_factor, Configure
<1>4. ASSUME NEW m \in Models, set_default_interest_rate_model(m)
      PROVE  IInv' /\ GoodMove(reserves, reserves')
  <2>1. Listed' = Listed /\ UNCHANGED <<reserves, accounts>>
    BY <1>4 DEF set_default_interest_rate_model, Listed
  <2>2. SafeConfig'
    BY <1>4, <2>1 DEF set_default_interest_rate_model, IInv, SafeConfig
  <2>3. Surroundings'
    BY <1>4 DEF set_default_interest_rate_model, IInv, Surroundings, oracleVars, OracleTypeOK
  <2>4. QED BY <2>1, <2>2, <2>3, QuietStep
<1>5. ASSUME NEW value \in BOOLEAN, SetPaused(value)
      PROVE  IInv' /\ GoodMove(reserves, reserves')
  <2>1. Listed' = Listed /\ UNCHANGED <<reserves, accounts>>
    BY <1>5 DEF SetPaused, Listed
  <2>2. SafeConfig'
    BY <1>5, <2>1 DEF SetPaused, IInv, SafeConfig
  <2>3. Surroundings'
    BY <1>5 DEF SetPaused, IInv, Surroundings, oracleVars, OracleTypeOK
  <2>4. QED BY <2>1, <2>2, <2>3, QuietStep
<1>6. QED BY <1>1, <1>2, <1>3, <1>4, <1>5 DEF Administered, pause, unpause

LEMMA EnvironmentStep ==
  ASSUME IInv, Environment
  PROVE  IInv' /\ GoodMove(reserves, reserves')
<1>1. ASSUME NEW assets \in Registries, RegistryChanges(assets)
      PROVE  IInv' /\ GoodMove(reserves, reserves')
  <2>1. Listed' = Listed /\ UNCHANGED <<reserves, accounts>>
    BY <1>1 DEF RegistryChanges, Listed
  <2>2. SafeConfig'
    BY <1>1, <2>1 DEF RegistryChanges, IInv, SafeConfig
  <2>3. Surroundings'
    BY <1>1, LendingAssumption
       DEF RegistryChanges, IInv, Surroundings, oracleVars, OracleTypeOK
  <2>4. QED BY <2>1, <2>2, <2>3, QuietStep
<1>2. ASSUME OracleMoves
      PROVE  IInv' /\ GoodMove(reserves, reserves')
  <2>1. Listed' = Listed /\ UNCHANGED <<reserves, accounts, configVars, result>>
    BY <1>2 DEF OracleMoves, configVars, Listed
  <2>2. SafeConfig'
    BY <2>1 DEF configVars, IInv, SafeConfig
  <2>3. OracleTypeOK'
    BY <1>2, OracleAssumption
       DEF OracleMoves, OracleNext, set_price_at, set_sanity_config,
           IInv, Surroundings, OracleTypeOK, PriceEntry
  <2>4. Surroundings'
    BY <2>1, <2>3 DEF IInv, Surroundings, configVars
  <2>5. QED BY <2>1, <2>2, <2>4, QuietStep
<1>3. QED BY <1>1, <1>2 DEF Environment

LEMMA UserStep ==
  ASSUME IInv, UserOperation
  PROVE  IInv' /\ GoodMove(reserves, reserves')
<1>0. Amounts \subseteq Nat /\ Timestamps \subseteq Nat
  BY LendingAssumption
<1>1. ASSUME NEW u \in Users, NEW a \in Assets, NEW x \in Amounts, NEW t \in Timestamps,
             \/ deposit(u, a, x, t) \/ withdraw(u, a, x, t)
             \/ borrow(u, a, x, t) \/ repay(u, a, x, t)
      PROVE  IInv' /\ GoodMove(reserves, reserves')
  BY <1>0, <1>1, DepositStep, WithdrawStep, BorrowStep, RepayStep
<1>2. ASSUME NEW u \in Users, NEW a \in Assets, NEW enabled \in BOOLEAN,
             set_collateral_enabled(u, a, enabled)
      PROVE  IInv' /\ GoodMove(reserves, reserves')
  BY <1>2, CollateralStep
<1>3. ASSUME NEW u \in Users, NEW d \in Assets, NEW c \in Assets, NEW x \in Amounts,
             NEW t \in Timestamps, liquidate(u, d, c, x, t)
      PROVE  IInv' /\ GoodMove(reserves, reserves')
  BY <1>0, <1>3, LiquidateStep
<1>4. ASSUME NEW a \in Assets, NEW x \in Amounts, NEW returned \in Amounts,
             NEW t \in Timestamps, flash_loan(a, x, returned, t)
      PROVE  IInv' /\ GoodMove(reserves, reserves')
  BY <1>0, <1>4, FlashLoanStep
<1>5. ASSUME NEW a \in Assets, NEW t \in Timestamps, accrue_interest(a, t)
      PROVE  IInv' /\ GoodMove(reserves, reserves')
  BY <1>0, <1>5, AccrueStep
<1>6. QED BY <1>1, <1>2, <1>3, <1>4, <1>5 DEF UserOperation

-----------------------------------------------------------------------------
(* The theorems *)

LEMMA InitStep ==
  ASSUME Init
  PROVE  IInv
<1>1. DOMAIN EmptyMap = {} /\ EmptyMap = [b \in {} |-> EmptyMap[b]]
  BY DEF EmptyMap
<1>2. IsPosition(NoPosition, {})
  <2>1. IsHolding(EmptyMap, {})
    BY <1>1 DEF IsHolding
  <2>2. /\ NoPosition.supplied_shares = EmptyMap
        /\ NoPosition.debt_shares = EmptyMap
        /\ NoPosition.collateral_enabled = [a \in Assets |-> TRUE]
    BY DEF NoPosition, AccountPosition
  <2>3. QED BY <2>1, <2>2 DEF IsPosition, NoPosition
<1>3. Ledger(reserves, accounts)
  BY <1>1, <1>2 DEF Init, Ledger
<1>4. DOMAIN reserves = Listed
  BY DEF Init, Listed
<1>5. BPS_DENOMINATOR \div 2 \in 0..BPS_DENOMINATOR
  BY ScaleAssumption
<1>6. SafeConfig
  BY <1>1, <1>5 DEF Init, SafeConfig, IsMap, Listed
<1>7. Surroundings
  BY OracleAssumption DEF Init, Surroundings, OracleInit, OracleTypeOK, PriceEntry
<1>8. QED BY <1>3, <1>4, <1>6, <1>7 DEF IInv

LEMMA NextStep ==
  ASSUME SaneLimits, IInv, [Next]_vars
  PROVE  IInv' /\ GoodMove(reserves, reserves')
<1>1. CASE UNCHANGED vars
  <2>1. Listed' = Listed /\ UNCHANGED <<reserves, accounts>>
    BY <1>1 DEF vars, configVars, Listed
  <2>2. SafeConfig'
    BY <1>1, <2>1 DEF vars, configVars, IInv, SafeConfig
  <2>3. Surroundings'
    BY <1>1 DEF vars, configVars, oracleVars, IInv, Surroundings, OracleTypeOK
  <2>4. QED BY <2>1, <2>2, <2>3, QuietStep
<1>2. CASE Next
  BY <1>2, UserStep, GovernedStep, AdministeredStep, EnvironmentStep DEF Next
<1>3. QED BY <1>1, <1>2

LEMMA Invariance == SaneLimits => (Spec => []IInv)
<1>1. SUFFICES ASSUME SaneLimits PROVE Spec => []IInv
  OBVIOUS
<1>2. Init => IInv
  BY InitStep
<1>3. IInv /\ [Next]_vars => IInv'
  BY <1>1, NextStep
<1>4. QED BY <1>2, <1>3, PTL DEF Spec

(* Every reserve, account and setting stays in its type, whatever is called  *)
(* and in whatever order: no operation of lending.rs leaves a share count or *)
(* a total that the next one could not read.                                 *)
THEOREM TypeCorrect == SaneLimits => (Spec => []TypeOK)
<1>1. IInv => TypeOK
  <2>1. SUFFICES ASSUME IInv PROVE TypeOK
    OBVIOUS
  <2>2. reserves \in [Listed -> ReserveState]
    BY <2>1 DEF IInv, Ledger, Agrees, IsReserve, ReserveState
  <2>3. \A u \in Users : IsAccountPosition(accounts[u])
    BY <2>1 DEF IInv, Ledger, IsPosition, IsHolding, IsAccountPosition, IsMap
  <2>4. close_factor_bps \in Nat
    BY <2>1, ScaleAssumption DEF IInv, SafeConfig
  <2>5. QED BY <2>1, <2>2, <2>3, <2>4 DEF IInv, Ledger, SafeConfig, Surroundings, TypeOK
<1>2. QED BY <1>1, Invariance, PTL

(* The debt shares of the users add up to the reserve's total in every       *)
(* reachable state, the ones that half-failed calls leave included, and the  *)
(* users never hold more supply shares than the reserve has issued.          *)
THEOREM SharesAlwaysAddUp == SaneLimits => (Spec => []SharesAddUp)
<1>1. IInv => DebtSharesMatch
  BY DEF IInv, Ledger, Agrees, Debts, DebtOf, DebtSharesMatch
<1>2. IInv => SupplySharesCovered
  BY DEF IInv, Ledger, Agrees, Holdings, SupplyOf, SupplySharesCovered
<1>3. IInv => SharesAddUp
  BY <1>1, <1>2 DEF SharesAddUp
<1>4. QED BY <1>3, Invariance, PTL

(* No reserve ever owes its suppliers more than it has: every supply share   *)
(* is backed by a unit of net assets, every debt share by a unit of debt,    *)
(* and no total is negative.                                                 *)
THEOREM AlwaysSolvent == SaneLimits => (Spec => []Solvent)
<1>1. IInv => Solvent
  <2>1. SUFFICES ASSUME IInv, NEW a \in Listed
                 PROVE  LET r == reserves[a]
                        IN  /\ r.total_cash >= 0 /\ r.protocol_fees >= 0
                            /\ r.total_supply_shares >= 0
                            /\ NetAssets(r) >= r.total_supply_shares
                            /\ r.total_debt >= r.total_debt_shares
    BY DEF Solvent
  <2>2. QED BY <2>1, ReserveOK, BackedTotals
<1>2. QED BY <1>1, Invariance, PTL

(* What all users could redeem together never exceeds the net assets: no     *)
(* sequence of roundings creates a claim that nothing backs.                 *)
THEOREM NeverFreeRedemption == SaneLimits => (Spec => []NoFreeRedemption)
<1>1. ASSUME IInv, NEW a \in Listed
      PROVE  SumTo([u \in Users |-> supply_shares_to_amount(reserves[a], SupplyOf(a)[u])],
                   NumUsers) <= NetAssets(reserves[a])
  <2> DEFINE r == reserves[a]
             S == r.total_supply_shares
             N == NetAssets(r)
             h == SupplyOf(a)
             g == [u \in Users |-> supply_shares_to_amount(r, h[u])]
  <2>1. S \in Nat /\ N \in Nat
    BY <1>1, ReserveOK, BackedTotals
  <2>2. h \in [Users -> Nat] /\ SumTo(h, NumUsers) <= S
    <3>1. Holdings(accounts, a) \in [Users -> Nat]
      BY <1>1, LedgerParts DEF IInv
    <3>2. SumTo(Holdings(accounts, a), NumUsers) <= S
      BY <1>1 DEF IInv, Ledger, Agrees
    <3>3. QED BY <3>1, <3>2 DEF Holdings, SupplyOf
  <2> HIDE DEF S, N, h
  <2>3. \A u \in Users : g[u] = ToAmount(S, N, h[u])
    BY DEF supply_shares_to_amount, S, N
  <2>4. \A u \in Users : ToAmount(S, N, h[u]) \in Nat /\ ToAmount(S, N, h[u]) * S <= h[u] * N
    BY <2>1, <2>2, ToAmountLemma
  <2>5. g \in [Users -> Nat]
    BY <2>3, <2>4
  <2>6. \A u \in Users : g[u] * S <= h[u] * N
    BY <2>3, <2>4
  <2> HIDE DEF g
  <2>7. /\ NumUsers \in Nat /\ Users = 1..NumUsers
        /\ g \in [1..NumUsers -> Int] /\ h \in [1..NumUsers -> Int]
    BY <2>2, <2>5, UsersNat
  <2>8. SumTo(g, NumUsers) * S <= SumTo(h, NumUsers) * N
    <3>1. \A u \in 1..NumUsers : g[u] * S <= h[u] * N
      BY <2>6, <2>7
    <3>2. S \in Int /\ N \in Int
      BY <2>1
    <3>3. \A f1, f2 \in [1..NumUsers -> Int] :
            (\A u \in 1..NumUsers : f2[u] * S <= f1[u] * N)
              => SumTo(f2, NumUsers) * S <= SumTo(f1, NumUsers) * N
      BY <2>7, <3>2, SumToScaled
    <3>4. QED BY <2>7, <3>1, <3>3
  <2>9. SumTo(g, NumUsers) \in Int /\ SumTo(h, NumUsers) \in Int
    BY <2>7, SumToType
  <2>10. CASE S = 0
    <3>1. \A u \in 1..NumUsers : g[u] = 0
      BY <2>3, <2>7, <2>10 DEF ToAmount
    <3>2. SumTo(g, NumUsers) = 0
      BY <2>7, <3>1, SumToZero
    <3>3. QED BY <2>1, <3>2 DEF g, h, r, N
  <2>11. CASE S # 0
    <3> DEFINE G == SumTo(g, NumUsers)
               H == SumTo(h, NumUsers)
    <3>1. G \in Int /\ H \in Int /\ H <= S /\ G * S <= H * N
      BY <2>2, <2>8, <2>9
    <3> HIDE DEF G, H
    <3>2. H * N <= S * N
      BY <2>1, <3>1, TimesMonotone
    <3>3. G * S \in Int /\ H * N \in Int /\ S * N = N * S /\ N * S \in Int
      BY <2>1, <3>1
    <3>4. G * S <= N * S
      BY <3>1, <3>2, <3>3
    <3>5. G <= N
      BY <2>1, <2>11, <3>1, <3>4, TimesCancels
    <3>6. QED BY <3>5 DEF G, g, h, r, N
  <2>12. QED BY <2>10, <2>11
<1>2. IInv => NoFreeRedemption
  BY <1>1 DEF NoFreeRedemption
<1>3. QED BY <1>2, Invariance, PTL

(* No step lowers the value of a supply share or what a debt share owes: the *)
(* rounding of every operation goes against its caller, accrual only adds,   *)
(* and nobody's repayment forgives the debt of another.                      *)
THEOREM SharePricesKept == SaneLimits => (Spec => SharePricesNeverFall)
<1>1. SUFFICES ASSUME SaneLimits PROVE Spec => SharePricesNeverFall
  OBVIOUS
<1>2. IInv /\ [Next]_vars => [PricesKept]_vars
  BY <1>1, NextStep DEF GoodMove, GoodStep, IInv, PricesKept
<1>3. QED BY <1>1, <1>2, Invariance, PTL DEF Spec, SharePricesNeverFall
=============================================================================
