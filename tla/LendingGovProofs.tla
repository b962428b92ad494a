-------------------------- MODULE LendingGovProofs --------------------------
(***************************************************************************)
(* Theorems about what a single step of Lending may do, and about          *)
(* LendingGov. From the invariant of LendingProofs, every call is looked   *)
(* at once for what it may do to fees, shares and positions: what          *)
(* SeizureIsPaidFor, OwnStepsStayHealthy, BlockedAssetsOnlyShrink and      *)
(* PausedFreezesFunds say follows. The protocol under its multisig then    *)
(* implements the protocol whose administration anybody may perform        *)
(* (Lending), so every theorem about that one also holds of it; what is    *)
(* governed changes by approval, and a proposal that was decided stays as  *)
(* it is.                                                                  *)
(***************************************************************************)
EXTENDS LendingGov, LendingProofs

-----------------------------------------------------------------------------
(* What a call does to a reserve and to an account, field by field *)

LEMMA ReserveFields ==
  ASSUME NEW r, IsReserve(r), NEW x \in Int, NEW q \in Int
  PROVE  /\ LET s == Supplied(r, x, q)
            IN  /\ s.total_cash = r.total_cash + x
                /\ s.total_supply_shares = r.total_supply_shares + q
                /\ s.total_debt_shares = r.total_debt_shares
                /\ s.protocol_fees = r.protocol_fees
         /\ LET s == Redeemed(r, x, q)
            IN  /\ s.total_cash = r.total_cash - x
                /\ s.total_supply_shares = r.total_supply_shares - q
                /\ s.total_debt_shares = r.total_debt_shares
                /\ s.protocol_fees = r.protocol_fees
         /\ LET s == Lent(r, x, q)
            IN  /\ s.total_cash = r.total_cash - x
                /\ s.total_supply_shares = r.total_supply_shares
                /\ s.total_debt_shares = r.total_debt_shares + q
                /\ s.protocol_fees = r.protocol_fees
         /\ LET s == Repaid(r, x, q)
            IN  /\ s.total_cash = r.total_cash + x
                /\ s.total_supply_shares = r.total_supply_shares
                /\ s.total_debt_shares = r.total_debt_shares - min(r.total_debt_shares, q)
                /\ s.protocol_fees = r.protocol_fees
         /\ LET s == FlashFeePaid(r, x, q)
            IN  /\ s.total_cash = r.total_cash + x
                /\ s.total_supply_shares = r.total_supply_shares
                /\ s.total_debt_shares = r.total_debt_shares
                /\ s.protocol_fees = r.protocol_fees + q
         /\ LET s == FeesCollected(r, x)
            IN  /\ s.total_cash = r.total_cash - x
                /\ s.total_supply_shares = r.total_supply_shares
                /\ s.total_debt_shares = r.total_debt_shares
                /\ s.protocol_fees = r.protocol_fees - x
<1>1. LET s == Supplied(r, x, q)
      IN  /\ s.total_cash = r.total_cash + x
          /\ s.total_supply_shares = r.total_supply_shares + q
          /\ s.total_debt_shares = r.total_debt_shares
          /\ s.protocol_fees = r.protocol_fees
  BY DEF IsReserve, Supplied
<1>2. LET s == Redeemed(r, x, q)
      IN  /\ s.total_cash = r.total_cash - x
          /\ s.total_supply_shares = r.total_supply_shares - q
          /\ s.total_debt_shares = r.total_debt_shares
          /\ s.protocol_fees = r.protocol_fees
  BY DEF IsReserve, Redeemed
<1>3. LET s == Lent(r, x, q)
      IN  /\ s.total_cash = r.total_cash - x
          /\ s.total_supply_shares = r.total_supply_shares
          /\ s.total_debt_shares = r.total_debt_shares + q
          /\ s.protocol_fees = r.protocol_fees
  BY DEF IsReserve, Lent
<1>4. LET s == Repaid(r, x, q)
      IN  /\ s.total_cash = r.total_cash + x
          /\ s.total_supply_shares = r.total_supply_shares
          /\ s.total_debt_shares = r.total_debt_shares - min(r.total_debt_shares, q)
          /\ s.protocol_fees = r.protocol_fees
  BY DEF IsReserve, Repaid
<1>5. LET s == FlashFeePaid(r, x, q)
      IN  /\ s.total_cash = r.total_cash + x
          /\ s.total_supply_shares = r.total_supply_shares
          /\ s.total_debt_shares = r.total_debt_shares
          /\ s.protocol_fees = r.protocol_fees + q
  BY DEF IsReserve, FlashFeePaid
<1>6. LET s == FeesCollected(r, x)
      IN  /\ s.total_cash = r.total_cash - x
          /\ s.total_supply_shares = r.total_supply_shares
          /\ s.total_debt_shares = r.total_debt_shares
          /\ s.protocol_fees = r.protocol_fees - x
  BY DEF IsReserve, FeesCollected
<1>7. QED BY <1>1, <1>2, <1>3, <1>4, <1>5, <1>6

\* The position p of a user becomes q, by the call the user makes or by one made
\* against it: flags are kept and at most a's shares change.
SupplyMovedBy(p, q, a, n) ==
  /\ q.debt_shares = p.debt_shares
  /\ q.collateral_enabled = p.collateral_enabled
  /\ Shares(q.supplied_shares, a) = Shares(p.supplied_shares, a) + n
  /\ \A b \in Listed : b # a => Shares(q.supplied_shares, b) = Shares(p.supplied_shares, b)

DebtMovedBy(p, q, a, n) ==
  /\ q.supplied_shares = p.supplied_shares
  /\ q.collateral_enabled = p.collateral_enabled
  /\ Shares(q.debt_shares, a) = Shares(p.debt_shares, a) + n
  /\ \A b \in Listed : b # a => Shares(q.debt_shares, b) = Shares(p.debt_shares, b)

LEMMA Positions ==
  ASSUME IInv
  PROVE  /\ accounts = [v \in Users |-> accounts[v]]
         /\ \A v \in Users : IsPosition(accounts[v], Listed)
BY DEF IInv, Ledger

LEMMA AddSupplyMoves ==
  ASSUME NEW accts, NEW u \in Users, accts = [v \in Users |-> accts[v]],
         IsPosition(accts[u], Listed), NEW a \in Listed, NEW n \in Int,
         Shares(accts[u].supplied_shares, a) + n >= 0
  PROVE  LET new == AddSupply(accts, u, a, n)
         IN  /\ SupplyMovedBy(accts[u], new[u], a, n)
             /\ \A v \in Users : v # u => new[v] = accts[v]
             /\ new = [v \in Users |-> new[v]]
             /\ IsPosition(new[u], Listed)
<1> DEFINE more == AddShares(accts[u].supplied_shares, a, n)
           p == AccountPosition(more, accts[u].debt_shares, accts[u].collateral_enabled)
<1>1. accts = [v \in Users |-> accts[v]] /\ IsPosition(accts[u], Listed)
  OBVIOUS
<1>2. /\ IsHolding(more, Listed)
      /\ Shares(more, a) = Shares(accts[u].supplied_shares, a) + n
      /\ \A b \in Listed : b # a => Shares(more, b) = Shares(accts[u].supplied_shares, b)
  BY <1>1, AddSharesLemma DEF IsPosition
<1>3. AddSupply(accts, u, a, n) = [v \in Users |-> IF v = u THEN p ELSE accts[v]]
  BY <1>1 DEF AddSupply, IsPosition, AccountPosition
<1>4. /\ p.supplied_shares = more
      /\ p.debt_shares = accts[u].debt_shares
      /\ p.collateral_enabled = accts[u].collateral_enabled
  BY DEF AccountPosition
<1> HIDE DEF more, p
<1>5. SupplyMovedBy(accts[u], p, a, n)
  BY <1>2, <1>4 DEF SupplyMovedBy
<1>6. IsPosition(p, Listed)
  BY <1>1, <1>2, <1>4 DEF IsPosition, p
<1>7. QED BY <1>3, <1>5, <1>6

LEMMA AddDebtMoves ==
  ASSUME NEW accts, NEW u \in Users, accts = [v \in Users |-> accts[v]],
         IsPosition(accts[u], Listed), NEW a \in Listed, NEW n \in Int,
         Shares(accts[u].debt_shares, a) + n >= 0
  PROVE  LET new == AddDebt(accts, u, a, n)
         IN  /\ DebtMovedBy(accts[u], new[u], a, n)
             /\ \A v \in Users : v # u => new[v] = accts[v]
             /\ new = [v \in Users |-> new[v]]
             /\ IsPosition(new[u], Listed)
<1> DEFINE more == AddShares(accts[u].debt_shares, a, n)
           p == AccountPosition(accts[u].supplied_shares, more, accts[u].collateral_enabled)
<1>1. accts = [v \in Users |-> accts[v]] /\ IsPosition(accts[u], Listed)
  OBVIOUS
<1>2. /\ IsHolding(more, Listed)
      /\ Shares(more, a) = Shares(accts[u].debt_shares, a) + n
      /\ \A b \in Listed : b # a => Shares(more, b) = Shares(accts[u].debt_shares, b)
  BY <1>1, AddSharesLemma DEF IsPosition
<1>3. AddDebt(accts, u, a, n) = [v \in Users |-> IF v = u THEN p ELSE accts[v]]
  BY <1>1 DEF AddDebt, IsPosition, AccountPosition
<1>4. /\ p.supplied_shares = accts[u].supplied_shares
      /\ p.debt_shares = more
      /\ p.collateral_enabled = accts[u].collateral_enabled
  BY DEF AccountPosition
<1> HIDE DEF more, p
<1>5. DebtMovedBy(accts[u], p, a, n)
  BY <1>2, <1>4 DEF DebtMovedBy
<1>6. IsPosition(p, Listed)
  BY <1>1, <1>2, <1>4 DEF IsPosition, p
<1>7. QED BY <1>3, <1>5, <1>6

-----------------------------------------------------------------------------
(* What every call respects *)

\* No fee leaves a reserve, and one that is not approved issues nothing.
Withheld ==
  \A b \in Listed :
    /\ reserves[b].protocol_fees <= reserves'[b].protocol_fees
    /\ b \notin approved =>
         /\ reserves'[b].total_supply_shares <= reserves[b].total_supply_shares
         /\ reserves'[b].total_debt_shares <= reserves[b].total_debt_shares

\* OwnStepsStayHealthy and SeizureIsPaidFor, of one step.
StaysHealthy ==
  result' = "Ok" =>
    \A u \in Users : TakesRisk(u) => ~Unhealthy(reserves', accounts'[u])

PaidFor ==
  \A u \in Users, c, d \in Listed :
    /\ result' = "Ok"
    /\ c # d
    /\ CashIn(d) > 0
    /\ Shares(accounts'[u].supplied_shares, c) < Shares(accounts[u].supplied_shares, c)
    => /\ Shares(accounts'[u].debt_shares, d) < Shares(accounts[u].debt_shares, d)
       /\ CashOut(c) * get_price(c) * BPS_DENOMINATOR
            <= CashIn(d) * get_price(d)
                 * (BPS_DENOMINATOR + reserve_configs[c].liquidation_bonus_bps)

LEMMA HeldShares ==
  ASSUME IInv, NEW u \in Users, NEW a \in Listed
  PROVE  /\ Shares(accounts[u].supplied_shares, a) \in Nat
         /\ Shares(accounts[u].debt_shares, a) \in Nat
BY SharesType DEF IInv, Ledger, IsPosition

\* Who keeps its flags, owes no more and holds no less takes no risk.
LEMMA NoRisk ==
  ASSUME IInv, NEW u \in Users,
         accounts'[u].collateral_enabled = accounts[u].collateral_enabled,
         \A a \in Listed : Shares(accounts'[u].debt_shares, a)
                             <= Shares(accounts[u].debt_shares, a),
         \/ accounts'[u].debt_shares # accounts[u].debt_shares
         \/ \A a \in Listed : Shares(accounts[u].supplied_shares, a)
                                <= Shares(accounts'[u].supplied_shares, a),
         \A a \in Listed : /\ Shares(accounts'[u].debt_shares, a) \in Int
                           /\ Shares(accounts'[u].supplied_shares, a) \in Int
  PROVE  ~TakesRisk(u)
<1>1. ASSUME NEW a \in Listed
      PROVE  ~(Shares(accounts'[u].debt_shares, a) > Shares(accounts[u].debt_shares, a))
  BY HeldShares
<1>2. ASSUME NEW a \in Listed,
             accounts'[u].debt_shares = accounts[u].debt_shares
      PROVE  ~(Shares(accounts'[u].supplied_shares, a) < Shares(accounts[u].supplied_shares, a))
  BY <1>2, HeldShares
<1>3. QED BY <1>1, <1>2 DEF TakesRisk

LEMMA SameNoRisk ==
  ASSUME IInv, NEW u \in Users, accounts'[u] = accounts[u]
  PROVE  ~TakesRisk(u)
<1>1. \A a \in Listed : /\ Shares(accounts[u].supplied_shares, a) \in Nat
                        /\ Shares(accounts[u].debt_shares, a) \in Nat
  BY HeldShares
<1>2. QED BY <1>1, NoRisk

\* A step that touches no account meets the last two.
LEMMA AccountsKept ==
  ASSUME IInv, \A u \in Users : accounts'[u] = accounts[u]
  PROVE  StaysHealthy /\ PaidFor
<1>1. StaysHealthy
  BY SameNoRisk DEF StaysHealthy
<1>2. \A u \in Users, c \in Listed :
        ~(Shares(accounts'[u].supplied_shares, c) < Shares(accounts[u].supplied_shares, c))
  BY HeldShares
<1>3. QED BY <1>1, <1>2 DEF PaidFor

\* So does one that fails.
LEMMA FailedCall ==
  ASSUME result' = "Err"
  PROVE  StaysHealthy /\ PaidFor
BY DEF StaysHealthy, PaidFor

Accrual(acc) ==
  /\ DOMAIN acc = Listed
  /\ acc = [b \in Listed |-> acc[b]]
  /\ Ledger(acc, accounts)
  /\ \A b \in Listed : Grown(reserves[b], acc[b])

LEMMA AccruedIsAccrual ==
  ASSUME IInv, NEW S, NEW t \in Nat
  PROVE  /\ Accrual(AccruedReserves(S, t))
         /\ \A b \in Listed \ S : AccruedReserves(S, t)[b] = reserves[b]
BY AccruedLedger DEF Accrual

LEMMA GrownTypes ==
  ASSUME IInv, NEW acc, Accrual(acc), NEW b \in Listed
  PROVE  /\ IsReserve(acc[b]) /\ BackedReserve(acc[b])
         /\ acc[b].total_cash \in Nat /\ acc[b].total_cash = reserves[b].total_cash
         /\ acc[b].total_supply_shares \in Nat
         /\ acc[b].total_supply_shares = reserves[b].total_supply_shares
         /\ acc[b].total_debt_shares \in Nat
         /\ acc[b].total_debt_shares = reserves[b].total_debt_shares
         /\ acc[b].protocol_fees \in Nat /\ reserves[b].protocol_fees \in Nat
         /\ reserves[b].protocol_fees <= acc[b].protocol_fees
         /\ acc[b].total_debt \in Nat /\ NetAssets(acc[b]) \in Nat
         /\ acc[b].total_supply_shares <= NetAssets(acc[b])
         /\ acc[b].total_debt_shares <= acc[b].total_debt
<1>1. Grown(reserves[b], acc[b]) /\ IsReserve(reserves[b]) /\ BackedReserve(reserves[b])
  BY ReserveOK DEF Accrual
<1>2. IsReserve(acc[b]) /\ BackedReserve(acc[b])
  BY <1>1 DEF Grown
<1>3. /\ acc[b].total_cash \in Nat /\ acc[b].total_supply_shares \in Nat
      /\ acc[b].total_debt_shares \in Nat /\ acc[b].protocol_fees \in Nat
      /\ acc[b].total_debt \in Nat /\ NetAssets(acc[b]) \in Nat
      /\ acc[b].total_supply_shares <= NetAssets(acc[b])
      /\ acc[b].total_debt_shares <= acc[b].total_debt
      /\ reserves[b].protocol_fees \in Nat
  BY <1>1, <1>2, BackedTotals
<1>4. QED BY <1>1, <1>2, <1>3 DEF Grown

LEMMA AccruedWithheld ==
  ASSUME IInv, NEW acc, Accrual(acc), reserves' = acc
  PROVE  Withheld
BY GrownTypes DEF Withheld

\* A call that goes on to make s of the reserve of a.
LEMMA OneMovedWithheld ==
  ASSUME IInv, NEW acc, Accrual(acc), NEW a \in Listed, NEW s,
         reserves' = [acc EXCEPT ![a] = s],
         s.protocol_fees \in Int, acc[a].protocol_fees <= s.protocol_fees,
         a \notin approved =>
           /\ s.total_supply_shares <= acc[a].total_supply_shares
           /\ s.total_debt_shares <= acc[a].total_debt_shares
  PROVE  Withheld
<1>1. /\ reserves'[a] = s
      /\ \A b \in Listed : b # a => reserves'[b] = acc[b]
  BY DEF Accrual
<1>2. \A b \in Listed : reserves[b].protocol_fees <= reserves'[b].protocol_fees
  <2>1. reserves[a].protocol_fees <= s.protocol_fees
    BY GrownTypes
  <2>2. QED BY <1>1, <2>1, GrownTypes
<1>3. ASSUME NEW b \in Listed, b \notin approved
      PROVE  /\ reserves'[b].total_supply_shares <= reserves[b].total_supply_shares
             /\ reserves'[b].total_debt_shares <= reserves[b].total_debt_shares
  BY <1>1, <1>3, GrownTypes
<1>4. QED BY <1>2, <1>3 DEF Withheld

LEMMA DepositCall ==
  ASSUME IInv, NEW u \in Users, NEW a \in Assets, NEW x \in Nat, NEW t \in Nat,
         deposit(u, a, x, t)
  PROVE  Withheld /\ StaysHealthy /\ PaidFor
<1> DEFINE acc == AccruedReserves({a}, t)
           r   == acc[a]
           q   == amount_to_supply_shares(r, x)
           s   == Supplied(r, x, q)
           res == [acc EXCEPT ![a] = s]
           accts == AddSupply(accounts, u, a, q)
<1>1. /\ a \in Listed /\ a \in approved
      /\ Fails(acc, accounts) \/ Succeeds(res, accts)
  BY DEF deposit, ensure_asset_allowed
<1>2. Accrual(acc)
  BY AccruedIsAccrual
<1> HIDE DEF acc
<1>3. CASE Fails(acc, accounts)
  BY <1>2, <1>3, AccruedWithheld, FailedCall DEF Fails, Returns
<1>4. CASE Succeeds(res, accts)
  <2>1. reserves' = res /\ accounts' = accts
    BY <1>4 DEF Succeeds, Returns
  <2>2. q \in Nat
    <3>1. IsReserve(r) /\ BackedReserve(r)
      BY <1>1, <1>2, GrownTypes
    <3>2. QED BY <3>1, SuppliedLemma
  <2> HIDE DEF q
  <2>3. s.protocol_fees = r.protocol_fees /\ r.protocol_fees \in Nat
    BY <1>1, <1>2, <2>2, GrownTypes, ReserveFields
  <2> HIDE DEF s
  <2>4. Withheld
    <3>1. s.protocol_fees \in Int /\ r.protocol_fees <= s.protocol_fees
      BY <2>3
    <3>2. QED BY <1>1, <1>2, <2>1, <3>1, OneMovedWithheld
  <2>5. Shares(accounts[u].supplied_shares, a) + q >= 0
    BY <1>1, <2>2, HeldShares
  <2>6. /\ SupplyMovedBy(accounts[u], accts[u], a, q)
        /\ \A v \in Users : v # u => accts[v] = accounts[v]
    BY <1>1, <2>2, <2>5, AddSupplyMoves, Positions
  <2> HIDE DEF accts
  <2>7. \A v \in Users : \A b \in Listed :
          /\ Shares(accounts[v].supplied_shares, b) <= Shares(accounts'[v].supplied_shares, b)
          /\ Shares(accounts'[v].supplied_shares, b) \in Nat
    BY <2>1, <2>2, <2>6, HeldShares DEF SupplyMovedBy
  <2>8. ~TakesRisk(u)
    BY <2>1, <2>6, <2>7, HeldShares, NoRisk DEF SupplyMovedBy
  <2>9. StaysHealthy
    BY <2>1, <2>6, <2>8, SameNoRisk DEF StaysHealthy
  <2>10. PaidFor
    BY <2>7, HeldShares DEF PaidFor
  <2>11. QED BY <2>4, <2>9, <2>10
<1>5. QED BY <1>1, <1>3, <1>4

LEMMA WithdrawCall ==
  ASSUME IInv, NEW u \in Users, NEW a \in Assets, NEW x \in Nat, NEW t \in Nat,
         withdraw(u, a, x, t)
  PROVE  Withheld /\ StaysHealthy /\ PaidFor
<1> DEFINE acc == AccruedReserves({a}, t)
           r   == acc[a]
           held == Shares(accounts[u].supplied_shares, a)
           q   == amount_to_supply_shares_rounded_up(r, x)
           s   == Redeemed(r, x, q)
           paid == [acc EXCEPT ![a] = s]
           burnt == AddSupply(accounts, u, a, -q)
<1>1. /\ a \in Listed
      /\ \/ Fails(acc, accounts)
         \/ Fails(acc, burnt)
         \/ Fails(paid, burnt)
         \/ held >= q /\ ~Unhealthy(paid, burnt[u]) /\ Succeeds(paid, burnt)
  BY DEF withdraw
<1>2. Accrual(acc) /\ \A b \in Listed \ {a} : acc[b] = reserves[b]
  BY AccruedIsAccrual
<1> HIDE DEF acc
<1>3. q \in Nat
  BY <1>1, <1>2, GrownTypes, ToSharesUpLemma DEF amount_to_supply_shares_rounded_up
<1> HIDE DEF q
<1>4. ASSUME reserves' = paid
      PROVE  Withheld
  <2>1. /\ s.protocol_fees = r.protocol_fees /\ r.protocol_fees \in Nat
        /\ s.total_supply_shares = r.total_supply_shares - q
        /\ s.total_debt_shares = r.total_debt_shares
        /\ r.total_supply_shares \in Nat /\ r.total_debt_shares \in Nat
    BY <1>1, <1>2, <1>3, GrownTypes, ReserveFields
  <2> HIDE DEF s
  <2>2. /\ s.total_supply_shares <= r.total_supply_shares
        /\ s.total_debt_shares <= r.total_debt_shares
        /\ r.protocol_fees <= s.protocol_fees /\ s.protocol_fees \in Int
    BY <1>3, <2>1
  <2>3. QED BY <1>1, <1>2, <1>4, <2>2, OneMovedWithheld
<1>5. CASE Fails(acc, accounts) \/ Fails(acc, burnt)
  BY <1>2, <1>5, AccruedWithheld, FailedCall DEF Fails, Returns
<1>6. CASE Fails(paid, burnt)
  BY <1>4, <1>6, FailedCall DEF Fails, Returns
<1>7. CASE held >= q /\ ~Unhealthy(paid, burnt[u]) /\ Succeeds(paid, burnt)
  <2>1. reserves' = paid /\ accounts' = burnt
    BY <1>7 DEF Succeeds, Returns
  <2> DEFINE n == -q
  <2>2. n \in Int /\ held + n >= 0
    BY <1>1, <1>3, <1>7, HeldShares
  <2> HIDE DEF n
  <2>3. /\ SupplyMovedBy(accounts[u], AddSupply(accounts, u, a, n)[u], a, n)
        /\ \A v \in Users : v # u => AddSupply(accounts, u, a, n)[v] = accounts[v]
    BY <1>1, <2>2, AddSupplyMoves, Positions
  <2>4. /\ SupplyMovedBy(accounts[u], burnt[u], a, n)
        /\ \A v \in Users : v # u => burnt[v] = accounts[v]
    BY <2>3 DEF n
  <2> HIDE DEF burnt
  <2>5. StaysHealthy
    <3>1. ~Unhealthy(reserves', accounts'[u])
      BY <1>7, <2>1
    <3>2. QED BY <2>1, <2>4, <3>1, SameNoRisk DEF StaysHealthy
  <2>6. PaidFor
    <3>1. ASSUME NEW d \in Listed, d # a
          PROVE  ~(CashIn(d) > 0)
      <4>1. reserves'[d] = reserves[d]
        BY <1>2, <2>1, <3>1 DEF Accrual
      <4>2. reserves[d].total_cash \in Nat
        BY ReserveOK, BackedTotals
      <4>3. QED BY <4>1, <4>2 DEF CashIn
    <3>2. ASSUME NEW v \in Users, NEW c \in Listed, c # a
          PROVE  ~(Shares(accounts'[v].supplied_shares, c) < Shares(accounts[v].supplied_shares, c))
      BY <2>1, <2>4, <3>2, HeldShares DEF SupplyMovedBy
    <3>3. QED BY <3>1, <3>2 DEF PaidFor
  <2>7. QED BY <1>4, <2>1, <2>5, <2>6
<1>8. QED BY <1>1, <1>5, <1>6, <1>7

LEMMA CollateralCall ==
  ASSUME IInv, NEW u \in Users, NEW a \in Assets, NEW enabled \in BOOLEAN,
         set_collateral_enabled(u, a, enabled)
  PROVE  Withheld /\ StaysHealthy /\ PaidFor
<1> DEFINE after == [accounts EXCEPT ![u].collateral_enabled[a] = enabled]
<1>1. /\ reserves' = reserves
      /\ \/ Fails(reserves, after) \/ Fails(reserves, accounts)
         \/ enabled /\ Succeeds(reserves, after)
         \/ ~Unhealthy(reserves, after[u]) /\ Succeeds(reserves, after)
  BY DEF set_collateral_enabled, Succeeds, Fails, Returns
<1>2. Withheld
  <2>1. \A b \in Listed : /\ reserves[b].protocol_fees \in Nat
                          /\ reserves[b].total_supply_shares \in Nat
                          /\ reserves[b].total_debt_shares \in Nat
    BY ReserveOK, BackedTotals
  <2>2. QED BY <1>1, <2>1 DEF Withheld
<1>3. /\ \A v \in Users : /\ after[v].supplied_shares = accounts[v].supplied_shares
                          /\ after[v].debt_shares = accounts[v].debt_shares
                          /\ v # u => after[v] = accounts[v]
      /\ after[u].collateral_enabled = [accounts[u].collateral_enabled EXCEPT ![a] = enabled]
      /\ accounts[u].collateral_enabled \in [Assets -> BOOLEAN]
  <2>1. /\ accounts = [v \in Users |-> accounts[v]]
        /\ \A v \in Users : IsPosition(accounts[v], Listed)
    BY DEF IInv, Ledger
  <2>2. QED BY <2>1 DEF IsPosition, AccountPosition
<1> HIDE DEF after
<1>4. CASE Fails(reserves, after) \/ Fails(reserves, accounts)
  BY <1>2, <1>4, FailedCall DEF Fails, Returns
<1>5. CASE Succeeds(reserves, after)
  <2>1. accounts' = after
    BY <1>5 DEF Succeeds, Returns
  <2>2. PaidFor
    BY <1>3, <2>1, HeldShares DEF PaidFor
  <2>3. ASSUME ~enabled PROVE ~Unhealthy(reserves', accounts'[u])
    BY <1>1, <1>5, <2>1, <2>3 DEF Fails, Succeeds, Returns
  <2>4. ASSUME enabled PROVE ~TakesRisk(u)
    <3>1. \A b \in Assets : ~(accounts[u].collateral_enabled[b]
                                 /\ ~accounts'[u].collateral_enabled[b])
      BY <1>3, <2>1, <2>4
    <3>2. \A b \in Listed :
            /\ ~(Shares(accounts'[u].debt_shares, b) > Shares(accounts[u].debt_shares, b))
            /\ ~(Shares(accounts'[u].supplied_shares, b) < Shares(accounts[u].supplied_shares, b))
      BY <1>3, <2>1, HeldShares
    <3>3. QED BY <3>1, <3>2 DEF TakesRisk
  <2>5. StaysHealthy
    BY <1>3, <2>1, <2>3, <2>4, SameNoRisk DEF StaysHealthy
  <2>6. QED BY <1>2, <2>2, <2>5
<1>6. QED BY <1>1, <1>4, <1>5

LEMMA RepayCall ==
  ASSUME IInv, NEW u \in Users, NEW a \in Assets, NEW x \in Nat, NEW t \in Nat,
         repay(u, a, x, t)
  PROVE  Withheld /\ StaysHealthy /\ PaidFor
<1> DEFINE acc == AccruedReserves({a}, t)
           r   == acc[a]
           held == Shares(accounts[u].debt_shares, a)
           actual == min(x, debt_shares_to_amount(r, held))
           q   == amount_to_debt_shares_rounded_up(r, actual)
           s   == Repaid(r, actual, q)
           res == [acc EXCEPT ![a] = s]
           n   == -min(held, q)
<1>1. /\ a \in Listed
      /\ \/ Fails(acc, accounts)
         \/ Succeeds(res, AddDebt(accounts, u, a, n))
  BY DEF repay
<1>2. Accrual(acc)
  BY AccruedIsAccrual
<1> HIDE DEF acc
<1>3. CASE Fails(acc, accounts)
  BY <1>2, <1>3, AccruedWithheld, FailedCall DEF Fails, Returns
<1>4. CASE Succeeds(res, AddDebt(accounts, u, a, n))
  <2>1. reserves' = res /\ accounts' = AddDebt(accounts, u, a, n)
    BY <1>4 DEF Succeeds, Returns
  <2>2. held \in Nat /\ IsReserve(r) /\ BackedReserve(r)
    BY <1>1, <1>2, HeldShares, GrownTypes
  <2>3. actual \in Nat
    <3>1. debt_shares_to_amount(r, held) \in Nat
      <4> HIDE DEF r, held
      <4>1. QED BY <2>2, WorthTypes
    <3> HIDE DEF r, held
    <3>2. QED BY <3>1 DEF min
  <2> HIDE DEF actual
  <2>4. q \in Nat
    BY <1>1, <1>2, <2>3, GrownTypes, ToSharesUpLemma DEF amount_to_debt_shares_rounded_up
  <2> HIDE DEF q
  <2>5. /\ s.protocol_fees = r.protocol_fees /\ r.protocol_fees \in Nat
        /\ s.total_supply_shares = r.total_supply_shares /\ r.total_supply_shares \in Nat
        /\ s.total_debt_shares = r.total_debt_shares - min(r.total_debt_shares, q)
        /\ r.total_debt_shares \in Nat
    BY <1>1, <1>2, <2>3, <2>4, GrownTypes, ReserveFields
  <2> HIDE DEF s
  <2>6. /\ s.total_supply_shares <= r.total_supply_shares
        /\ s.total_debt_shares <= r.total_debt_shares
        /\ r.protocol_fees <= s.protocol_fees /\ s.protocol_fees \in Int
    BY <2>4, <2>5 DEF min
  <2>7. Withheld
    BY <1>1, <1>2, <2>1, <2>6, OneMovedWithheld
  <2>8. n \in Int /\ n <= 0 /\ held + n >= 0
    BY <2>2, <2>4 DEF min
  <2> HIDE DEF n, held
  <2>9. /\ DebtMovedBy(accounts[u], accounts'[u], a, n)
        /\ \A v \in Users : v # u => accounts'[v] = accounts[v]
    BY <1>1, <2>1, <2>8, AddDebtMoves, Positions DEF held
  <2>10. \A b \in Listed : /\ Shares(accounts'[u].debt_shares, b) \in Int
                           /\ Shares(accounts'[u].debt_shares, b)
                                <= Shares(accounts[u].debt_shares, b)
    BY <2>8, <2>9, HeldShares DEF DebtMovedBy
  <2>11. ~TakesRisk(u)
    BY <2>9, <2>10, HeldShares, NoRisk DEF DebtMovedBy
  <2>12. StaysHealthy
    BY <2>9, <2>11, SameNoRisk DEF StaysHealthy
  <2>13. PaidFor
    BY <2>9, HeldShares DEF PaidFor, DebtMovedBy
  <2>14. QED BY <2>7, <2>12, <2>13
<1>5. QED BY <1>1, <1>3, <1>4

LEMMA FlashLoanCall ==
  ASSUME IInv, NEW a \in Assets, NEW x \in Nat, NEW returned \in Nat, NEW t \in Nat,
         flash_loan(a, x, returned, t)
  PROVE  Withheld /\ StaysHealthy /\ PaidFor
<1> DEFINE acc == AccruedReserves({a}, t)
           r   == acc[a]
           cfg == reserve_configs[a]
           extra == returned - x
           cut == bps_mul(extra, cfg.reserve_factor_bps)
           s   == FlashFeePaid(r, extra, cut)
           res == [acc EXCEPT ![a] = s]
<1>1. /\ a \in Listed
      /\ \/ Fails(acc, accounts)
         \/ extra >= bps_mul(x, cfg.flash_loan_fee_bps) /\ Succeeds(res, accounts)
  BY DEF flash_loan
<1>2. Accrual(acc)
  BY AccruedIsAccrual
<1> HIDE DEF acc
<1>3. StaysHealthy /\ PaidFor
  BY <1>1, AccountsKept DEF Fails, Succeeds, Returns
<1>4. CASE Fails(acc, accounts)
  BY <1>2, <1>3, <1>4, AccruedWithheld DEF Fails, Returns
<1>5. CASE extra >= bps_mul(x, cfg.flash_loan_fee_bps) /\ Succeeds(res, accounts)
  <2>1. /\ cfg.flash_loan_fee_bps \in Nat
        /\ cfg.reserve_factor_bps \in 0..BPS_DENOMINATOR
        /\ BPS_DENOMINATOR \in Nat \ {0}
    BY <1>1, ScaleAssumption DEF IInv, SafeConfig, IsMap, Listed, ReserveConfig
  <2> HIDE DEF cfg
  <2>2. bps_mul(x, cfg.flash_loan_fee_bps) \in Nat
    BY <2>1, MulDivOfNats DEF bps_mul
  <2>3. extra \in Nat
    BY <1>5, <2>2
  <2> HIDE DEF extra
  <2>4. cut \in Nat
    <3>1. cut \in 0..extra
      BY <2>1, <2>3, BpsPart
    <3>2. QED BY <2>3, <3>1
  <2> HIDE DEF cut
  <2>5. /\ s.protocol_fees = r.protocol_fees + cut /\ r.protocol_fees \in Nat
        /\ s.total_supply_shares = r.total_supply_shares /\ r.total_supply_shares \in Nat
        /\ s.total_debt_shares = r.total_debt_shares /\ r.total_debt_shares \in Nat
    BY <1>1, <1>2, <2>3, <2>4, GrownTypes, ReserveFields
  <2> HIDE DEF s
  <2>6. /\ s.total_supply_shares <= r.total_supply_shares
        /\ s.total_debt_shares <= r.total_debt_shares
        /\ r.protocol_fees <= s.protocol_fees /\ s.protocol_fees \in Int
    BY <2>4, <2>5
  <2>7. reserves' = res
    BY <1>5 DEF Succeeds, Returns
  <2>8. Withheld
    BY <1>1, <1>2, <2>6, <2>7, OneMovedWithheld
  <2>9. QED BY <1>3, <2>8
<1>6. QED BY <1>1, <1>4, <1>5

LEMMA AccrueCall ==
  ASSUME IInv, NEW a \in Assets, NEW t \in Nat, accrue_interest(a, t)
  PROVE  Withheld /\ StaysHealthy /\ PaidFor
BY AccruedIsAccrual, AccruedWithheld, AccountsKept DEF accrue_interest, Succeeds, Returns

(* Liquidation: nothing is seized for nothing. *)

LEMMA MulDivOfZero ==
  ASSUME NEW b \in Nat, NEW d \in Nat \ {0}
  PROVE  mul_div(0, b, d) = 0
<1> DEFINE q == mul_div(0, b, d)
<1>1. q \in Nat /\ q * d <= 0 * b
  BY MulDivOfNats
<1> HIDE DEF q
<1>2. 0 * b = 0 /\ q * d \in Int /\ (q > 0 => 1 * d <= q * d)
  BY <1>1, TimesMonotone
<1>3. q = 0
  BY <1>1, <1>2
<1>4. QED BY <1>3 DEF q

LEMMA NothingForNothing ==
  ASSUME NEW S \in Nat, NEW N \in Nat
  PROVE  ToAmount(S, N, 0) = 0 /\ ToSharesUp(S, N, 0) = 0
<1>1. ToAmount(S, N, 0) = 0
  BY MulDivOfZero DEF ToAmount
<1>2. ToShares(S, N, 0) = 0
  BY MulDivOfZero DEF ToShares
<1>3. QED BY <1>1, <1>2 DEF ToSharesUp

\* Every rounding on the way from what is repaid to what is seized goes down.
LEMMA SeizedForRepaid ==
  ASSUME NEW repaid \in Nat, NEW pd \in Nat, NEW pc \in Nat \ {0}, NEW bonus \in Nat,
         NEW seized,
         seized = mul_div(bps_mul(mul_div(repaid, pd, WAD), bonus), WAD, pc)
  PROVE  /\ seized \in Nat
         /\ repaid = 0 => seized = 0
         /\ seized * pc * BPS_DENOMINATOR <= repaid * pd * bonus
<1> DEFINE value == mul_div(repaid, pd, WAD)
           part  == bps_mul(value, bonus)
           B == BPS_DENOMINATOR
<1>0. WAD \in Nat \ {0} /\ B \in Nat \ {0} /\ seized = mul_div(part, WAD, pc)
  BY ScaleAssumption
<1>1. value \in Nat /\ value * WAD <= repaid * pd
  BY <1>0, MulDivOfNats
<1>2. repaid = 0 => value = 0
  BY <1>0, MulDivOfZero
<1> HIDE DEF value
<1>3. part \in Nat /\ part * B <= value * bonus
  BY <1>0, <1>1, MulDivOfNats DEF bps_mul
<1>4. value = 0 => part = 0
  BY <1>0, MulDivOfZero DEF bps_mul
<1> HIDE DEF part
<1>5. seized \in Nat /\ seized * pc <= part * WAD
  BY <1>0, <1>3, MulDivOfNats
<1>6. part = 0 => seized = 0
  BY <1>0, MulDivOfZero
<1> HIDE DEF B
<1>7. seized * pc * B <= repaid * pd * bonus
  <2>1. (seized * pc) * B <= (part * WAD) * B
    BY <1>0, <1>3, <1>5, NatProduct, TimesMonotone
  <2>2. (part * B) * WAD <= (value * bonus) * WAD
    BY <1>0, <1>1, <1>3, NatProduct, TimesMonotone
  <2>3. (value * WAD) * bonus <= (repaid * pd) * bonus
    BY <1>0, <1>1, NatProduct, TimesMonotone
  <2>4. (part * WAD) * B = (part * B) * WAD /\ (value * bonus) * WAD = (value * WAD) * bonus
    BY <1>0, <1>1, <1>3
  <2>5. /\ (seized * pc) * B \in Nat /\ (part * WAD) * B \in Nat
        /\ (value * bonus) * WAD \in Nat /\ (repaid * pd) * bonus \in Nat
    BY <1>0, <1>1, <1>3, <1>5, NatProduct
  <2>6. QED BY <2>1, <2>2, <2>3, <2>4, <2>5
<1>8. QED BY <1>2, <1>4, <1>5, <1>6, <1>7 DEF B

LEMMA RepaidIsReserve ==
  ASSUME NEW r, IsReserve(r), NEW x \in Int, NEW q \in Int
  PROVE  IsReserve(Repaid(r, x, q))
<1>1. /\ r.total_cash + x \in Int /\ r.total_debt - x \in Int
      /\ r.total_debt_shares - min(r.total_debt_shares, q) \in Int
  BY DEF IsReserve, min
<1>2. QED BY <1>1 DEF IsReserve, Repaid

LEMMA LiquidateCall ==
  ASSUME IInv, NEW u \in Users, NEW d \in Assets, NEW c \in Assets,
         NEW x \in Nat, NEW t \in Nat, liquidate(u, d, c, x, t)
  PROVE  Withheld /\ StaysHealthy /\ PaidFor
<1>1. CASE c \notin Listed
  <2>1. Fails(AccruedReserves({d}, t), accounts)
    BY <1>1 DEF liquidate
  <2>2. QED BY <2>1, AccruedIsAccrual, AccruedWithheld, FailedCall DEF Fails, Returns
<1>2. CASE c \in Listed
  <2> DEFINE acc    == AccruedReserves({d, c}, t)
             owes   == Shares(accounts[u].debt_shares, d)
             holds  == Shares(accounts[u].supplied_shares, c)
             worth  == debt_shares_to_amount(acc[d], owes)
             repaid == min(x, bps_mul(worth, close_factor_bps))
             bonus  == BPS_DENOMINATOR + reserve_configs[c].liquidation_bonus_bps
             seized == mul_div(bps_mul(mul_div(repaid, get_price(d), WAD), bonus),
                               WAD, get_price(c))
             up     == amount_to_debt_shares_rounded_up(acc[d], repaid)
             burnt  == min(up, owes)
             shares == amount_to_supply_shares_rounded_up(acc[c], seized)
             mid    == [acc EXCEPT ![d] = Repaid(acc[d], repaid, burnt)]
             relieved == AddDebt(accounts, u, d, -burnt)
             final  == [mid EXCEPT ![c] = Redeemed(mid[c], seized, shares)]
             seizedFrom == AddSupply(relieved, u, c, -shares)
  <2>1. /\ d \in Listed
        /\ \/ Fails(acc, accounts)
           \/ HasPrice(c) /\ Fails(mid, relieved)
           \/ HasPrice(c) /\ holds >= shares /\ Succeeds(final, seizedFrom)
    BY <1>2 DEF liquidate
  <2>2. Accrual(acc) /\ \A b \in Listed \ {d, c} : acc[b] = reserves[b]
    BY AccruedIsAccrual
  <2> HIDE DEF acc
  <2>3. CASE Fails(acc, accounts)
    BY <2>2, <2>3, AccruedWithheld, FailedCall DEF Fails, Returns
  <2>4. CASE HasPrice(c)
    <3>1. owes \in Nat /\ holds \in Nat
      BY <1>2, <2>1, HeldShares
    <3>2. /\ acc[d].total_debt_shares \in Nat /\ acc[d].total_debt \in Nat
          /\ acc[d].total_debt_shares <= acc[d].total_debt
          /\ acc[c].total_supply_shares \in Nat /\ NetAssets(acc[c]) \in Nat
          /\ acc[c].total_supply_shares <= NetAssets(acc[c])
          /\ IsReserve(acc[d]) /\ BackedReserve(acc[d])
      BY <1>2, <2>1, <2>2, GrownTypes
    <3>3. worth \in Nat /\ (owes = 0 => worth = 0)
      <4> HIDE DEF owes
      <4>1. worth \in Nat
        BY <3>1, <3>2, WorthTypes
      <4>2. owes = 0 => worth = 0
        BY <3>2, NothingForNothing DEF debt_shares_to_amount
      <4>3. QED BY <4>1, <4>2
    <3> HIDE DEF worth, owes, holds
    <3>4. repaid \in Nat /\ repaid <= worth
      <4>1. bps_mul(worth, close_factor_bps) \in 0..worth
        BY <3>3, BpsPart DEF IInv, SafeConfig
      <4>2. QED BY <3>3, <4>1 DEF min
    <3> HIDE DEF repaid
    <3>5. get_price(d) \in Nat /\ get_price(c) \in Nat \ {0} /\ bonus \in Nat
      <4>1. get_price(d) \in Nat /\ get_price(c) \in Nat \ {0}
        BY <2>4 DEF IInv, Surroundings, OracleTypeOK, PriceEntry, get_price, HasPrice
      <4>2. bonus \in Nat
        BY <1>2, ScaleAssumption DEF IInv, SafeConfig, IsMap, Listed, ReserveConfig
      <4>3. QED BY <4>1, <4>2
    <3> HIDE DEF bonus
    <3>6. /\ seized \in Nat /\ (repaid = 0 => seized = 0)
          /\ seized * get_price(c) * BPS_DENOMINATOR <= repaid * get_price(d) * bonus
      <4> DEFINE pd == get_price(d)
                 pc == get_price(c)
      <4>1. /\ repaid \in Nat /\ pd \in Nat /\ pc \in Nat \ {0} /\ bonus \in Nat
            /\ seized = mul_div(bps_mul(mul_div(repaid, pd, WAD), bonus), WAD, pc)
        BY <3>4, <3>5
      <4> HIDE DEF seized, pd, pc
      <4>2. /\ seized \in Nat /\ (repaid = 0 => seized = 0)
            /\ seized * pc * BPS_DENOMINATOR <= repaid * pd * bonus
        BY <4>1, SeizedForRepaid
      <4>3. QED BY <4>2 DEF pd, pc
    <3> HIDE DEF seized
    <3>7. up \in Nat /\ (repaid > 0 => up > 0)
      BY <3>2, <3>4, ToSharesUpLemma DEF amount_to_debt_shares_rounded_up
    <3> HIDE DEF up
    <3>8. burnt \in Nat /\ burnt <= owes /\ (repaid > 0 => burnt > 0)
      BY <3>1, <3>3, <3>4, <3>7 DEF min
    <3> HIDE DEF burnt
    <3>9. shares \in Nat /\ (repaid = 0 => shares = 0)
      <4>1. shares \in Nat
        BY <3>2, <3>6, ToSharesUpLemma DEF amount_to_supply_shares_rounded_up
      <4>2. seized = 0 => shares = 0
        BY <3>2, NothingForNothing DEF amount_to_supply_shares_rounded_up
      <4>3. QED BY <3>6, <4>1, <4>2
    <3> HIDE DEF shares
    <3>10. PICK s : s = Repaid(acc[d], repaid, burnt)
      OBVIOUS
    <3>11. /\ s.protocol_fees = acc[d].protocol_fees
           /\ s.total_cash = acc[d].total_cash + repaid
           /\ s.total_supply_shares = acc[d].total_supply_shares
           /\ s.total_debt_shares = acc[d].total_debt_shares - min(acc[d].total_debt_shares, burnt)
      BY <3>2, <3>4, <3>8, <3>10, ReserveFields
    <3>12. /\ acc[d].protocol_fees \in Nat /\ acc[d].total_supply_shares \in Nat
           /\ acc[d].total_cash \in Nat
      BY <2>1, <2>2, GrownTypes
    <3>13. /\ acc[d].protocol_fees <= s.protocol_fees /\ s.protocol_fees \in Int
           /\ s.total_supply_shares <= acc[d].total_supply_shares
           /\ s.total_debt_shares <= acc[d].total_debt_shares
      BY <3>2, <3>8, <3>11, <3>12 DEF min
    <3>14. CASE Fails(mid, relieved)
      <4>1. reserves' = [acc EXCEPT ![d] = s]
        BY <3>10, <3>14 DEF Fails, Returns
      <4>2. Withheld
        BY <2>1, <2>2, <3>13, <4>1, OneMovedWithheld
      <4>3. QED BY <3>14, <4>2, FailedCall DEF Fails, Returns
    <3>15. CASE holds >= shares /\ Succeeds(final, seizedFrom)
      <4>1. reserves' = final /\ accounts' = seizedFrom
        BY <3>15 DEF Succeeds, Returns
      <4>2. /\ mid[d] = s
            /\ \A b \in Listed : b # d => mid[b] = acc[b]
            /\ DOMAIN mid = Listed
        BY <2>1, <2>2, <3>10 DEF Accrual
      <4> DEFINE k == mid[c]
      <4>3. /\ IsReserve(k)
            /\ k.protocol_fees \in Int /\ acc[c].protocol_fees <= k.protocol_fees
            /\ k.total_supply_shares \in Nat
            /\ k.total_supply_shares <= acc[c].total_supply_shares
            /\ k.total_debt_shares <= acc[c].total_debt_shares
            /\ c # d => k.total_cash = reserves[c].total_cash /\ k.total_cash \in Nat
        <5>1. CASE c = d
          <6>1. IsReserve(s)
            BY <3>2, <3>4, <3>8, <3>10, RepaidIsReserve
          <6>2. k = s
            BY <4>2, <5>1
          <6> HIDE DEF k
          <6>3. QED BY <3>11, <3>12, <3>13, <5>1, <6>1, <6>2
        <5>2. CASE c # d
          <6>1. k = acc[c]
            BY <1>2, <4>2, <5>2
          <6> HIDE DEF k
          <6>2. QED BY <1>2, <2>2, <6>1, GrownTypes
        <5>3. QED BY <5>1, <5>2
      <4>4. PICK v : v = Redeemed(k, seized, shares)
        OBVIOUS
      <4>5. /\ reserves'[c] = v
            /\ \A b \in Listed : b # c => reserves'[b] = mid[b]
        BY <1>2, <4>1, <4>2, <4>4
      <4> HIDE DEF k, mid
      <4>6. /\ v.total_cash = k.total_cash - seized
            /\ v.total_supply_shares = k.total_supply_shares - shares
            /\ v.total_debt_shares = k.total_debt_shares
            /\ v.protocol_fees = k.protocol_fees
        BY <3>6, <3>9, <4>3, <4>4, ReserveFields
      <4>7. Withheld
        <5>1. /\ reserves[c].protocol_fees <= v.protocol_fees
              /\ v.total_supply_shares <= reserves[c].total_supply_shares
              /\ v.total_debt_shares <= reserves[c].total_debt_shares
          <6>1. /\ reserves[c].protocol_fees <= acc[c].protocol_fees
                /\ reserves[c].protocol_fees \in Int /\ acc[c].protocol_fees \in Int
                /\ acc[c].total_supply_shares = reserves[c].total_supply_shares
                /\ acc[c].total_debt_shares = reserves[c].total_debt_shares
                /\ acc[c].total_supply_shares \in Nat
            BY <1>2, <2>2, GrownTypes
          <6>2. QED BY <3>9, <4>3, <4>6, <6>1
        <5>2. /\ reserves[d].protocol_fees <= s.protocol_fees
              /\ s.total_supply_shares <= reserves[d].total_supply_shares
              /\ s.total_debt_shares <= reserves[d].total_debt_shares
          BY <2>1, <2>2, <3>13, GrownTypes
        <5>3. ASSUME NEW b \in Listed
              PROVE  /\ reserves[b].protocol_fees <= reserves'[b].protocol_fees
                     /\ reserves'[b].total_supply_shares <= reserves[b].total_supply_shares
                     /\ reserves'[b].total_debt_shares <= reserves[b].total_debt_shares
          <6>1. CASE b = c
            BY <4>5, <5>1, <6>1
          <6>2. CASE b # c /\ b = d
            BY <4>2, <4>5, <5>2, <6>2
          <6>3. CASE b # c /\ b # d
            <7>1. reserves'[b] = acc[b]
              BY <4>2, <4>5, <6>3
            <7>2. QED BY <2>2, <7>1, GrownTypes
          <6>4. QED BY <6>1, <6>2, <6>3
        <5>4. QED BY <5>3 DEF Withheld
      <4> DEFINE n == -burnt
                 m == -shares
      <4>8. n \in Int /\ owes + n >= 0 /\ m \in Int /\ holds + m >= 0
        BY <3>1, <3>8, <3>9, <3>15
      <4> HIDE DEF n, m
      <4>9. /\ DebtMovedBy(accounts[u], relieved[u], d, n)
            /\ \A w \in Users : w # u => relieved[w] = accounts[w]
            /\ relieved = [w \in Users |-> relieved[w]]
            /\ IsPosition(relieved[u], Listed)
        <5> DEFINE new == AddDebt(accounts, u, d, n)
        <5>1. /\ DebtMovedBy(accounts[u], new[u], d, n)
              /\ \A w \in Users : w # u => new[w] = accounts[w]
              /\ new = [w \in Users |-> new[w]]
              /\ IsPosition(new[u], Listed)
          BY <2>1, <4>8, AddDebtMoves, Positions DEF owes
        <5>2. QED BY <5>1 DEF n
      <4> HIDE DEF relieved
      <4>10. /\ SupplyMovedBy(relieved[u], accounts'[u], c, m)
             /\ \A w \in Users : w # u => accounts'[w] = relieved[w]
        <5>1. Shares(relieved[u].supplied_shares, c) + m >= 0
          BY <4>8, <4>9 DEF DebtMovedBy, holds
        <5> DEFINE new == AddSupply(relieved, u, c, m)
        <5>2. /\ SupplyMovedBy(relieved[u], new[u], c, m)
              /\ \A w \in Users : w # u => new[w] = relieved[w]
          BY <1>2, <4>8, <4>9, <5>1, AddSupplyMoves
        <5>3. accounts' = new
          BY <4>1 DEF m
        <5>4. QED BY <5>2, <5>3
      <4>11. /\ \A w \in Users : w # u => accounts'[w] = accounts[w]
             /\ accounts'[u].collateral_enabled = accounts[u].collateral_enabled
             /\ Shares(accounts'[u].debt_shares, d) = owes + n
             /\ Shares(accounts'[u].supplied_shares, c) = holds + m
             /\ \A b \in Listed : b # d =>
                  Shares(accounts'[u].debt_shares, b) = Shares(accounts[u].debt_shares, b)
             /\ \A b \in Listed : b # c =>
                  Shares(accounts'[u].supplied_shares, b)
                    = Shares(accounts[u].supplied_shares, b)
        BY <4>9, <4>10 DEF DebtMovedBy, SupplyMovedBy, owes, holds
      <4>12. ~TakesRisk(u)
        <5>1. \A b \in Listed :
                /\ Shares(accounts'[u].debt_shares, b) \in Int
                /\ Shares(accounts'[u].debt_shares, b) <= Shares(accounts[u].debt_shares, b)
                /\ Shares(accounts'[u].supplied_shares, b) \in Int
          <6>1. owes + n \in Int /\ owes + n <= owes /\ holds + m \in Int
            BY <3>1, <3>8, <3>9 DEF n, m
          <6>2. owes = Shares(accounts[u].debt_shares, d)
            BY DEF owes
          <6>3. QED BY <4>11, <6>1, <6>2, HeldShares
        <5>2. CASE repaid > 0
          <6>1. Shares(accounts'[u].debt_shares, d) # Shares(accounts[u].debt_shares, d)
            BY <3>1, <3>8, <4>11, <5>2 DEF n, owes
          <6>2. accounts'[u].debt_shares # accounts[u].debt_shares
            BY <6>1
          <6>3. QED BY <4>11, <5>1, <6>2, NoRisk
        <5>3. CASE repaid = 0
          <6>1. Shares(accounts'[u].supplied_shares, c) = Shares(accounts[u].supplied_shares, c)
            BY <3>1, <3>9, <4>11, <5>3 DEF m, holds
          <6>2. \A b \in Listed : Shares(accounts[u].supplied_shares, b)
                                     <= Shares(accounts'[u].supplied_shares, b)
            BY <4>11, <6>1, HeldShares
          <6>3. QED BY <4>11, <5>1, <6>2, NoRisk
        <5>4. QED BY <3>4, <5>2, <5>3
      <4>13. StaysHealthy
        BY <4>11, <4>12, SameNoRisk DEF StaysHealthy
      <4>14. PaidFor
        <5>1. SUFFICES ASSUME NEW w \in Users, NEW e \in Listed, NEW g \in Listed,
                              e # g, CashIn(g) > 0,
                              Shares(accounts'[w].supplied_shares, e)
                                < Shares(accounts[w].supplied_shares, e)
                       PROVE  /\ Shares(accounts'[w].debt_shares, g)
                                   < Shares(accounts[w].debt_shares, g)
                              /\ CashOut(e) * get_price(e) * BPS_DENOMINATOR
                                   <= CashIn(g) * get_price(g)
                                        * (BPS_DENOMINATOR
                                             + reserve_configs[e].liquidation_bonus_bps)
          BY DEF PaidFor
        <5>2. w = u /\ e = c
          BY <4>11, <5>1, HeldShares
        <5>3. g = d
          <6>1. SUFFICES ASSUME g # d PROVE FALSE
            OBVIOUS
          <6>2. reserves'[g] = acc[g]
            BY <4>2, <4>5, <5>1, <5>2, <6>1
          <6>3. reserves'[g].total_cash = reserves[g].total_cash
                  /\ reserves[g].total_cash \in Nat
            BY <2>2, <6>2, GrownTypes
          <6>4. QED BY <5>1, <6>3 DEF CashIn
        <5>4. CashIn(d) = repaid /\ CashOut(c) = seized
          <6>1. reserves'[d] = s /\ acc[d].total_cash = reserves[d].total_cash
            BY <2>1, <2>2, <4>2, <4>5, <5>1, <5>2, <5>3, GrownTypes
          <6>2. CashIn(d) = repaid
            BY <3>4, <3>11, <3>12, <6>1 DEF CashIn
          <6>3. CashOut(c) = seized
            BY <3>6, <4>3, <4>5, <4>6, <5>1, <5>2, <5>3 DEF CashOut
          <6>4. QED BY <6>2, <6>3
        <5>5. Shares(accounts'[u].debt_shares, d) < Shares(accounts[u].debt_shares, d)
          BY <3>1, <3>8, <4>11, <5>1, <5>3, <5>4 DEF n, owes
        <5>6. CashOut(c) * get_price(c) * BPS_DENOMINATOR
                <= CashIn(d) * get_price(d)
                     * (BPS_DENOMINATOR + reserve_configs[c].liquidation_bonus_bps)
          BY <3>6, <5>4 DEF bonus
        <5>7. QED BY <5>2, <5>3, <5>5, <5>6
      <4>15. QED BY <4>7, <4>13, <4>14
    <3>16. QED BY <2>1, <2>3, <3>14, <3>15
  <2>5. QED BY <2>1, <2>3, <2>4
<1>3. QED BY <1>1, <1>2

\* What a loan may be worth never exceeds what liquidation counts, and sums over
\* the listed assets are sums of finitely many terms.
LoansCover ==
  /\ IsFiniteSet(Listed)
  /\ \A a \in Listed : reserve_configs[a].collateral_factor_bps
                         <= reserve_configs[a].liquidation_threshold_bps

LEMMA DivMonotone ==
  ASSUME NEW a \in Nat, NEW b \in Nat, NEW d \in Nat \ {0}, a <= b
  PROVE  a \div d <= b \div d
<1> DEFINE p == a \div d
           q == b \div d
<1>1. p \in Nat /\ p * d <= a
  BY DivBounds
<1>2. q \in Nat /\ b < q * d + d
  BY DivBounds
<1> HIDE DEF p, q
<1>3. /\ q * d + d = (q + 1) * d /\ q * d \in Int /\ p * d \in Int
      /\ q + 1 \in Int
  BY <1>2, <1>1
<1>4. SUFFICES ASSUME q + 1 <= p PROVE FALSE
  BY <1>1, <1>2 DEF p, q
<1>5. (q + 1) * d <= p * d
  BY <1>1, <1>2, <1>4, TimesMonotone
<1>6. QED BY <1>1, <1>2, <1>3, <1>5

LEMMA BpsMonotone ==
  ASSUME NEW x \in Nat, NEW m \in Nat, NEW n \in Nat, m <= n
  PROVE  /\ bps_mul(x, m) \in Nat /\ bps_mul(x, n) \in Nat
         /\ bps_mul(x, m) <= bps_mul(x, n)
<1>1. BPS_DENOMINATOR \in Nat \ {0}
  BY ScaleAssumption
<1>2. x * m \in Nat /\ x * n \in Nat
  BY NatProduct
<1>3. x * m <= x * n
  BY TimesMonotone
<1>4. /\ bps_mul(x, m) = (x * m) \div BPS_DENOMINATOR
      /\ bps_mul(x, n) = (x * n) \div BPS_DENOMINATOR
      /\ bps_mul(x, m) \in Nat /\ bps_mul(x, n) \in Nat
  BY <1>1, <1>2, QuotientOfNats DEF bps_mul, mul_div
<1>5. (x * m) \div BPS_DENOMINATOR <= (x * n) \div BPS_DENOMINATOR
  BY <1>1, <1>2, <1>3, DivMonotone
<1>6. QED BY <1>4, <1>5

\* A debt that its cover is worth has a health factor of at least one.
LEMMA CoverIsHealth ==
  ASSUME NEW cover \in Int, NEW debt \in Int, debt <= cover
  PROVE  ~(debt > 0 /\ wad_div(cover, debt) < WAD)
<1>1. SUFFICES ASSUME debt > 0, wad_div(cover, debt) < WAD PROVE FALSE
  OBVIOUS
<1> DEFINE q == wad_div(cover, debt)
<1>2. cover \in Nat /\ debt \in Nat \ {0} /\ WAD \in Nat \ {0}
  BY <1>1, ScaleAssumption
<1>3. q \in Nat /\ cover * WAD < q * debt + debt
  BY <1>2, MulDivOfNats DEF wad_div
<1>4. q + 1 <= WAD
  BY <1>1, <1>2, <1>3
<1> HIDE DEF q
<1>5. (q + 1) * debt <= WAD * debt
  BY <1>2, <1>3, <1>4, TimesMonotone
<1>6. debt * WAD <= cover * WAD
  BY <1>2, TimesMonotone
<1>7. /\ (q + 1) * debt = q * debt + debt /\ WAD * debt = debt * WAD
      /\ q * debt \in Int /\ debt * WAD \in Int /\ cover * WAD \in Int
  BY <1>2, <1>3
<1>8. QED BY <1>3, <1>5, <1>6, <1>7

LEMMA ValueType ==
  ASSUME IInv, NEW a \in Assets, NEW x \in Nat
  PROVE  Value(a, x) \in Nat
<1>1. get_price(a) \in Nat
  BY DEF IInv, Surroundings, OracleTypeOK, PriceEntry, get_price
<1>2. QED BY <1>1, ScaleAssumption, MulDivOfNats DEF Value

\* A loan within the collateral value leaves its taker healthy.
LEMMA CoveredIsHealthy ==
  ASSUME IInv, LoansCover, NEW res,
         \A a \in Listed : IsReserve(res[a]) /\ BackedReserve(res[a]),
         NEW acct, IsPosition(acct, Listed),
         debt_value(res, acct) <= collateral_value(res, acct)
  PROVE  ~Unhealthy(res, acct)
<1> DEFINE C == Collateral(acct)
           D == DOMAIN acct.debt_shares
           cf(a) == reserve_configs[a].collateral_factor_bps
           lt(a) == reserve_configs[a].liquidation_threshold_bps
           f == [a \in C |-> bps_mul(SuppliedValue(res, acct, a), cf(a))]
           g == [a \in C |-> bps_mul(SuppliedValue(res, acct, a), lt(a))]
           h == [a \in D |-> Value(a, debt_shares_to_amount(res[a], acct.debt_shares[a]))]
<1>1. C \subseteq Listed /\ D \subseteq Listed /\ Listed \subseteq Assets
  BY DEF IsPosition, IsHolding, Collateral, IInv, SafeConfig, IsMap, Listed
<1>2. IsFiniteSet(C) /\ IsFiniteSet(D)
  BY <1>1, FS_Subset DEF LoansCover
<1>3. ASSUME NEW a \in C PROVE f[a] \in Nat /\ g[a] \in Nat /\ f[a] <= g[a]
  <2>1. a \in Listed /\ a \in Assets /\ a \in DOMAIN acct.supplied_shares
    BY <1>1 DEF Collateral
  <2>2. acct.supplied_shares[a] \in Nat
    BY <2>1, SharesType DEF IsPosition, Shares, GetOr
  <2>3. SuppliedValue(res, acct, a) \in Nat
    BY <2>1, <2>2, WorthTypes, ValueType DEF SuppliedValue
  <2>4. cf(a) \in Nat /\ lt(a) \in Nat /\ cf(a) <= lt(a)
    BY <2>1 DEF LoansCover, IInv, SafeConfig, IsMap, Listed, ReserveConfig
  <2> HIDE DEF cf, lt
  <2>5. QED BY <2>3, <2>4, BpsMonotone
<1>4. ASSUME NEW a \in D PROVE h[a] \in Nat
  <2>1. a \in Listed /\ a \in Assets
    BY <1>1
  <2>2. acct.debt_shares[a] \in Nat
    BY <2>1, SharesType DEF IsPosition, Shares, GetOr
  <2>3. QED BY <2>1, <2>2, WorthTypes, ValueType
<1>5. f \in [C -> Int] /\ g \in [C -> Int] /\ \A a \in C : f[a] <= g[a]
  BY <1>3
<1>6. h \in [D -> Int] /\ \A a \in D : h[a] <= h[a]
  <2>1. h = [a \in D |-> h[a]] /\ \A a \in D : h[a] \in Nat
    BY <1>4
  <2> HIDE DEF h, D
  <2>2. QED BY <2>1
<1>7. /\ collateral_value(res, acct) = SumFunction(f)
      /\ liquidation_value(res, acct) = SumFunction(g)
      /\ debt_value(res, acct) = SumFunction(h)
  BY DEF collateral_value, liquidation_value, debt_value
<1> HIDE DEF f, g, h, C, D
<1>8. /\ SumFunction(f) \in Int /\ SumFunction(g) \in Int /\ SumFunction(f) <= SumFunction(g)
  BY <1>2, <1>5, SumFunctionMonotone
<1>9. SumFunction(h) \in Int
  BY <1>2, <1>6, SumFunctionMonotone
<1>10. SumFunction(h) <= SumFunction(g)
  BY <1>7, <1>8, <1>9
<1>11. QED BY <1>7, <1>8, <1>9, <1>10, CoverIsHealth DEF Unhealthy

LEMMA BorrowCall ==
  ASSUME IInv, NEW u \in Users, NEW a \in Assets, NEW x \in Nat, NEW t \in Nat,
         borrow(u, a, x, t)
  PROVE  Withheld /\ (LoansCover => StaysHealthy) /\ PaidFor
<1> DEFINE acc == AccruedReserves({a}, t)
           r   == acc[a]
           held == Shares(accounts[u].debt_shares, a)
           q   == amount_to_debt_shares(r, x)
           s   == Lent(r, x, q)
           lent == [acc EXCEPT ![a] = s]
           booked == AddDebt(accounts, u, a, q)
           undone == AddDebt(accounts, u, a, 0)
           covered == debt_value(lent, booked[u]) <= collateral_value(lent, booked[u])
<1>1. /\ a \in Listed /\ a \in approved
      /\ \/ Fails(acc, accounts)
         \/ Fails(acc, undone)
         \/ r.total_cash >= x /\ Fails(lent, booked)
         \/ r.total_cash >= x /\ covered /\ Succeeds(lent, booked)
  BY DEF borrow, ensure_asset_allowed
<1>2. Accrual(acc)
  BY AccruedIsAccrual
<1> HIDE DEF acc
<1>3. CASE Fails(acc, accounts) \/ Fails(acc, undone)
  BY <1>2, <1>3, AccruedWithheld, FailedCall DEF Fails, Returns
<1>4. IsReserve(r) /\ BackedReserve(r)
  BY <1>1, <1>2, GrownTypes
<1>5. ASSUME r.total_cash >= x
      PROVE  q \in Nat /\ IsReserve(s) /\ BackedReserve(s)
  BY <1>1, <1>2, <1>4, <1>5, GrownTypes, LentLemma DEF GoodStep
<1>6. ASSUME r.total_cash >= x, reserves' = lent
      PROVE  Withheld
  <2>1. q \in Nat
    BY <1>5, <1>6
  <2> HIDE DEF q
  <2>2. s.protocol_fees = r.protocol_fees /\ r.protocol_fees \in Nat
    BY <1>1, <1>2, <2>1, GrownTypes, ReserveFields
  <2> HIDE DEF s
  <2>3. s.protocol_fees \in Int /\ r.protocol_fees <= s.protocol_fees
    BY <2>2
  <2>4. QED BY <1>1, <1>2, <1>6, <2>3, OneMovedWithheld
<1>7. CASE r.total_cash >= x /\ Fails(lent, booked)
  BY <1>6, <1>7, FailedCall DEF Fails, Returns
<1>8. CASE r.total_cash >= x /\ covered /\ Succeeds(lent, booked)
  <2>1. reserves' = lent /\ accounts' = booked
    BY <1>8 DEF Succeeds, Returns
  <2>2. q \in Nat /\ IsReserve(s) /\ BackedReserve(s)
    BY <1>5, <1>8
  <2>3. held \in Nat /\ held + q >= 0
    <3>1. held \in Nat
      BY <1>1, HeldShares
    <3> HIDE DEF held, q
    <3>2. QED BY <2>2, <3>1
  <2> HIDE DEF q
  <2>4. /\ DebtMovedBy(accounts[u], booked[u], a, q)
        /\ \A v \in Users : v # u => booked[v] = accounts[v]
        /\ IsPosition(booked[u], Listed)
    BY <1>1, <2>2, <2>3, AddDebtMoves, Positions
  <2> HIDE DEF booked, s
  <2>5. \A b \in Listed : IsReserve(lent[b]) /\ BackedReserve(lent[b])
    BY <1>2, <2>2, GrownTypes DEF Accrual
  <2> HIDE DEF lent
  <2>6. ASSUME LoansCover PROVE StaysHealthy
    <3>1. ~Unhealthy(lent, booked[u])
      BY <1>8, <2>4, <2>5, <2>6, CoveredIsHealthy
    <3>2. QED BY <2>1, <2>4, <3>1, SameNoRisk DEF StaysHealthy
  <2>7. PaidFor
    BY <2>1, <2>4, HeldShares DEF PaidFor, DebtMovedBy
  <2>8. Withheld
    BY <1>6, <1>8, <2>1
  <2>9. QED BY <2>6, <2>7, <2>8
<1>9. QED BY <1>1, <1>3, <1>7, <1>8

-----------------------------------------------------------------------------
(* What every step of the protocol respects *)

LEMMA UserCall ==
  ASSUME IInv, UserOperation
  PROVE  Withheld /\ (LoansCover => StaysHealthy) /\ PaidFor
<1>0. Amounts \subseteq Nat /\ Timestamps \subseteq Nat
  BY LendingAssumption
<1>1. ASSUME NEW u \in Users, NEW a \in Assets, NEW x \in Amounts, NEW t \in Timestamps,
             \/ deposit(u, a, x, t) \/ withdraw(u, a, x, t)
             \/ borrow(u, a, x, t) \/ repay(u, a, x, t)
      PROVE  Withheld /\ (LoansCover => StaysHealthy) /\ PaidFor
  BY <1>0, <1>1, DepositCall, WithdrawCall, BorrowCall, RepayCall
<1>2. ASSUME NEW u \in Users, NEW a \in Assets, NEW enabled \in BOOLEAN,
             set_collateral_enabled(u, a, enabled)
      PROVE  Withheld /\ StaysHealthy /\ PaidFor
  BY <1>2, CollateralCall
<1>3. ASSUME NEW u \in Users, NEW d \in Assets, NEW c \in Assets, NEW x \in Amounts,
             NEW t \in Timestamps, liquidate(u, d, c, x, t)
      PROVE  Withheld /\ StaysHealthy /\ PaidFor
  BY <1>0, <1>3, LiquidateCall
<1>4. ASSUME NEW a \in Assets, NEW x \in Amounts, NEW returned \in Amounts,
             NEW t \in Timestamps, flash_loan(a, x, returned, t)
      PROVE  Withheld /\ StaysHealthy /\ PaidFor
  BY <1>0, <1>4, FlashLoanCall
<1>5. ASSUME NEW a \in Assets, NEW t \in Timestamps, accrue_interest(a, t)
      PROVE  Withheld /\ StaysHealthy /\ PaidFor
  BY <1>0, <1>5, AccrueCall
<1>6. QED BY <1>1, <1>2, <1>3, <1>4, <1>5 DEF UserOperation

\* A step that leaves every account and every reserve as it was.
Untouched ==
  /\ accounts' = accounts
  /\ \A b \in Listed : reserves'[b] = reserves[b]

\* Fees that leave take their cash with them and nothing else.
FeesLeft ==
  /\ accounts' = accounts
  /\ \A b \in Listed :
       /\ reserves'[b].total_supply_shares = reserves[b].total_supply_shares
       /\ reserves'[b].total_debt_shares = reserves[b].total_debt_shares
       /\ reserves[b].total_cash - reserves'[b].total_cash
            = reserves[b].protocol_fees - reserves'[b].protocol_fees

LEMMA CollectFeesCall ==
  ASSUME IInv, NEW a \in Assets, NEW x \in Int, collect_protocol_fees(a, x)
  PROVE  FeesLeft
<1> DEFINE r == reserves[a]
           actual == min(x, r.protocol_fees)
           s == FeesCollected(r, actual)
<1>1. /\ a \in Listed
      /\ reserves' = [reserves EXCEPT ![a] = s]
      /\ accounts' = accounts
  BY DEF collect_protocol_fees, Succeeds, Returns
<1>2. \A b \in Listed : /\ reserves[b].total_cash \in Nat
                        /\ reserves[b].protocol_fees \in Nat
  BY ReserveOK, BackedTotals
<1>3. IsReserve(r) /\ r.total_cash \in Nat /\ r.protocol_fees \in Nat
  BY <1>1, <1>2, ReserveOK
<1>4. actual \in Int
  <2> HIDE DEF r
  <2>1. QED BY <1>3 DEF min
<1> HIDE DEF actual
<1>5. /\ s.total_cash = r.total_cash - actual
      /\ s.total_supply_shares = r.total_supply_shares
      /\ s.total_debt_shares = r.total_debt_shares
      /\ s.protocol_fees = r.protocol_fees - actual
  BY <1>3, <1>4, ReserveFields
<1> HIDE DEF s
<1>6. reserves'[a] = s /\ \A b \in Listed : b # a => reserves'[b] = reserves[b]
  BY <1>1 DEF IInv
<1>7. r.total_cash - s.total_cash = r.protocol_fees - s.protocol_fees
  <2> HIDE DEF r
  <2>1. QED BY <1>3, <1>4, <1>5
<1>8. QED BY <1>1, <1>2, <1>5, <1>6, <1>7 DEF FeesLeft

LEMMA GovernedCall ==
  ASSUME IInv, Governed
  PROVE  Untouched \/ FeesLeft
<1>1. ASSUME NEW a \in Assets, NEW x \in FeeRequests, collect_protocol_fees(a, x)
      PROVE  FeesLeft
  BY <1>1, CollectFeesCall, LendingAssumption
<1>2. ASSUME NEW a \in Assets, NEW cfg \in Configs, NEW t \in Timestamps,
             register_asset(a, cfg, t)
      PROVE  Untouched
  BY <1>2 DEF register_asset, Succeeds, Returns, Put, Untouched, IInv
<1>3. QED BY <1>1, <1>2
          DEF Governed, update_reserve_config, Configure, set_close_factor, Untouched

LEMMA AdministeredCall ==
  ASSUME Administered \/ Environment
  PROVE  Untouched
<1>1. ASSUME Administered PROVE Untouched
  BY <1>1 DEF Administered, Untouched, set_asset_interest_rate_model, set_supply_cap,
              set_borrow_cap, set_reserve_factor, Configure, pause, unpause, SetPaused,
              set_default_interest_rate_model
<1>2. ASSUME Environment PROVE Untouched
  BY <1>2 DEF Environment, RegistryChanges, OracleMoves, Untouched
<1>3. QED BY <1>1, <1>2

\* No reserve of an asset that is not approved issues shares.
OnlyShrink ==
  \A a \in Listed \ approved :
    /\ reserves'[a].total_supply_shares <= reserves[a].total_supply_shares
    /\ reserves'[a].total_debt_shares <= reserves[a].total_debt_shares

LEMMA QuietCall ==
  ASSUME IInv, Untouched \/ FeesLeft
  PROVE  OnlyShrink /\ StaysHealthy /\ PaidFor
<1>1. \A b \in Listed : /\ reserves[b].total_supply_shares \in Nat
                        /\ reserves[b].total_debt_shares \in Nat
  BY ReserveOK, BackedTotals
<1>2. OnlyShrink
  BY <1>1 DEF Untouched, FeesLeft, OnlyShrink
<1>3. QED BY <1>2, AccountsKept DEF Untouched, FeesLeft

LEMMA EveryStep ==
  ASSUME IInv, [Next]_vars
  PROVE  OnlyShrink /\ (LoansCover => StaysHealthy) /\ PaidFor
<1>1. CASE UNCHANGED vars
  BY <1>1, QuietCall DEF vars, Untouched
<1>2. CASE UserOperation
  BY <1>2, UserCall DEF Withheld, OnlyShrink
<1>3. CASE Governed \/ Administered \/ Environment
  BY <1>3, GovernedCall, AdministeredCall, QuietCall
<1>4. QED BY <1>1, <1>2, <1>3 DEF Next

LEMMA UserKeepsSettings ==
  ASSUME UserOperation
  PROVE  UNCHANGED <<configVars, oracleVars>>
<1>1. ASSUME NEW u \in Users, NEW a \in Assets, NEW x \in Amounts, NEW t \in Timestamps,
             \/ deposit(u, a, x, t) \/ withdraw(u, a, x, t)
             \/ borrow(u, a, x, t) \/ repay(u, a, x, t)
      PROVE  UNCHANGED <<configVars, oracleVars>>
  BY <1>1 DEF deposit, withdraw, borrow, repay
<1>2. ASSUME NEW u \in Users, NEW a \in Assets, NEW enabled \in BOOLEAN,
             set_collateral_enabled(u, a, enabled)
      PROVE  UNCHANGED <<configVars, oracleVars>>
  BY <1>2 DEF set_collateral_enabled
<1>3. ASSUME NEW u \in Users, NEW d \in Assets, NEW c \in Assets, NEW x \in Amounts,
             NEW t \in Timestamps, liquidate(u, d, c, x, t)
      PROVE  UNCHANGED <<configVars, oracleVars>>
  BY <1>3 DEF liquidate
<1>4. ASSUME NEW a \in Assets, NEW x \in Amounts, NEW returned \in Amounts,
             NEW t \in Timestamps, flash_loan(a, x, returned, t)
      PROVE  UNCHANGED <<configVars, oracleVars>>
  BY <1>4 DEF flash_loan
<1>5. ASSUME NEW a \in Assets, NEW t \in Timestamps, accrue_interest(a, t)
      PROVE  UNCHANGED <<configVars, oracleVars>>
  BY <1>5 DEF accrue_interest
<1>6. QED BY <1>1, <1>2, <1>3, <1>4, <1>5 DEF UserOperation

\* What the two factors of an asset are is written by a registration and by
\* update_reserve_config only.
FactorsStand ==
  /\ Listed' = Listed
  /\ \A b \in Listed :
       /\ reserve_configs'[b].collateral_factor_bps
            = reserve_configs[b].collateral_factor_bps
       /\ reserve_configs'[b].liquidation_threshold_bps
            = reserve_configs[b].liquidation_threshold_bps

Installed(a, cfg) ==
  /\ Listed' = Listed \cup {a}
  /\ reserve_configs'[a] = cfg
  /\ \A b \in Listed : b # a => reserve_configs'[b] = reserve_configs[b]

LEMMA SetterKeepsFactors ==
  ASSUME IInv, NEW a \in Assets, NEW x,
         \/ set_asset_interest_rate_model(a, x)
         \/ set_supply_cap(a, x) \/ set_borrow_cap(a, x)
         \/ set_reserve_factor(a, x)
  PROVE  FactorsStand
<1> DEFINE cfg == reserve_configs[a]
<1>1. /\ a \in Listed
      /\ \/ Configure(a, [cfg EXCEPT !.interest_rate_model = x])
         \/ Configure(a, [cfg EXCEPT !.supply_cap = x])
         \/ Configure(a, [cfg EXCEPT !.borrow_cap = x])
         \/ Configure(a, [cfg EXCEPT !.reserve_factor_bps = x])
  BY DEF set_asset_interest_rate_model, set_supply_cap, set_borrow_cap,
         set_reserve_factor, Configure
<1>2. cfg \in ReserveConfig
  BY <1>1 DEF IInv, SafeConfig, IsMap, Listed
<1> HIDE DEF cfg
<1>3. PICK new : /\ Configure(a, new)
                 /\ new.collateral_factor_bps = cfg.collateral_factor_bps
                 /\ new.liquidation_threshold_bps = cfg.liquidation_threshold_bps
  <2>1. \A new \in {[cfg EXCEPT !.interest_rate_model = x], [cfg EXCEPT !.supply_cap = x],
                    [cfg EXCEPT !.borrow_cap = x], [cfg EXCEPT !.reserve_factor_bps = x]} :
          /\ new.collateral_factor_bps = cfg.collateral_factor_bps
          /\ new.liquidation_threshold_bps = cfg.liquidation_threshold_bps
    BY <1>2 DEF ReserveConfig
  <2>2. QED BY <1>1, <2>1
<1>4. QED BY <1>1, <1>3 DEF Configure, Listed, FactorsStand, cfg

LEMMA FactorsKept ==
  ASSUME IInv, [Next]_vars
  PROVE  FactorsStand \/ \E a \in Assets, cfg \in Configs : Installed(a, cfg)
<1>1. ASSUME reserve_configs' = reserve_configs PROVE FactorsStand
  BY <1>1 DEF Listed, FactorsStand
<1>2. ASSUME NEW a \in Assets, NEW cfg \in Configs, update_reserve_config(a, cfg)
      PROVE  Installed(a, cfg)
  BY <1>2 DEF update_reserve_config, Configure, Listed, Installed
<1>3. ASSUME NEW a \in Assets, NEW cfg \in Configs, NEW t \in Timestamps,
             register_asset(a, cfg, t)
      PROVE  Installed(a, cfg)
  BY <1>3 DEF register_asset, Put, Listed, Installed
<1>4. CASE Governed
  <2>1. ASSUME \/ \E a \in Assets, x \in FeeRequests : collect_protocol_fees(a, x)
               \/ \E bps \in CloseFactors : set_close_factor(bps)
        PROVE  reserve_configs' = reserve_configs
    BY <2>1 DEF collect_protocol_fees, set_close_factor, configVars
  <2>2. QED BY <1>1, <1>2, <1>3, <1>4, <2>1 DEF Governed
<1>5. CASE Administered
  <2>1. ASSUME \/ \E model \in Models : set_default_interest_rate_model(model)
               \/ pause \/ unpause
        PROVE  reserve_configs' = reserve_configs
    BY <2>1 DEF set_default_interest_rate_model, pause, unpause, SetPaused
  <2>2. QED BY <1>1, <1>5, <2>1, SetterKeepsFactors DEF Administered
<1>6. ASSUME UNCHANGED vars \/ UserOperation \/ Environment
      PROVE  reserve_configs' = reserve_configs
  BY <1>6, UserKeepsSettings DEF vars, configVars, Environment, RegistryChanges, OracleMoves
<1>7. QED BY <1>1, <1>4, <1>5, <1>6 DEF Next

LEMMA LoansCoverStep ==
  ASSUME SaneCollateral, IInv, LoansCover, [Next]_vars
  PROVE  LoansCover'
<1>1. CASE FactorsStand
  BY <1>1 DEF LoansCover, FactorsStand
<1>2. ASSUME NEW a \in Assets, NEW cfg \in Configs, Installed(a, cfg)
      PROVE  LoansCover'
  <2>1. IsFiniteSet(Listed')
    BY <1>2, FS_AddElement DEF LoansCover, Installed
  <2>2. cfg.collateral_factor_bps <= cfg.liquidation_threshold_bps
    BY DEF SaneCollateral
  <2>3. QED BY <1>2, <2>1, <2>2 DEF LoansCover, Installed
<1>3. QED BY <1>1, <1>2, FactorsKept

\* While the protocol is paused, at most fees leave.
Frozen ==
  /\ \A u \in Users : /\ accounts'[u].supplied_shares = accounts[u].supplied_shares
                      /\ accounts'[u].debt_shares = accounts[u].debt_shares
  /\ \A a \in Listed :
       reserves'[a].total_cash < reserves[a].total_cash =>
         reserves[a].total_cash - reserves'[a].total_cash
           = reserves[a].protocol_fees - reserves'[a].protocol_fees

LEMMA FrozenStep ==
  ASSUME IInv, [Next]_vars, paused
  PROVE  Frozen
<1>1. \A a \in Listed : reserves[a].total_cash \in Nat
  BY ReserveOK, BackedTotals
<1>2. ASSUME Untouched \/ FeesLeft PROVE Frozen
  BY <1>1, <1>2 DEF Untouched, FeesLeft, Frozen
<1>3. CASE UNCHANGED vars
  BY <1>2, <1>3 DEF vars, Untouched
<1>4. CASE Governed \/ Administered \/ Environment
  BY <1>2, <1>4, GovernedCall, AdministeredCall
<1>5. CASE UserOperation
  <2>1. ASSUME NEW u \in Users, NEW a \in Assets, NEW enabled \in BOOLEAN,
               set_collateral_enabled(u, a, enabled)
        PROVE  Frozen
    <3> DEFINE after == [accounts EXCEPT ![u].collateral_enabled[a] = enabled]
    <3>1. /\ reserves' = reserves
          /\ accounts' = accounts \/ accounts' = after
      BY <2>1 DEF set_collateral_enabled, Succeeds, Fails, Returns
    <3>2. \A v \in Users : /\ after[v].supplied_shares = accounts[v].supplied_shares
                           /\ after[v].debt_shares = accounts[v].debt_shares
      BY Positions DEF IsPosition, AccountPosition
    <3> HIDE DEF after
    <3>3. QED BY <1>1, <3>1, <3>2 DEF Frozen
  <2>2. ASSUME NEW a \in Assets, NEW t \in Timestamps, accrue_interest(a, t)
        PROVE  Frozen
    <3>1. reserves' = AccruedReserves({a}, t) /\ accounts' = accounts
      BY <2>2 DEF accrue_interest, Succeeds, Returns
    <3>2. t \in Nat
      BY LendingAssumption
    <3>3. \A b \in Listed : reserves'[b].total_cash = reserves[b].total_cash
      BY <3>1, <3>2, AccruedIsAccrual DEF Accrual, Grown
    <3>4. \A b \in Listed : ~(reserves'[b].total_cash < reserves[b].total_cash)
      BY <1>1, <3>3
    <3>5. \A u \in Users : accounts'[u] = accounts[u]
      BY <3>1
    <3>6. QED BY <3>4, <3>5 DEF Frozen
  <2>3. \/ \E u \in Users, a \in Assets, enabled \in BOOLEAN :
             set_collateral_enabled(u, a, enabled)
        \/ \E a \in Assets, t \in Timestamps : accrue_interest(a, t)
    BY <1>5 DEF UserOperation, deposit, withdraw, borrow, repay, liquidate, flash_loan,
                ensure_not_paused
  <2>4. QED BY <2>1, <2>2, <2>3
<1>6. QED BY <1>3, <1>4, <1>5 DEF Next

-----------------------------------------------------------------------------
(* The theorems about a single step of Lending *)

(* A liquidation pays for what it takes, in every reachable state, at any    *)
(* prices and with any interest accrued on the way.                          *)
THEOREM SeizuresArePaidFor == SaneLimits => (Spec => SeizureIsPaidFor)
<1>1. SUFFICES ASSUME SaneLimits PROVE Spec => SeizureIsPaidFor
  OBVIOUS
<1>2. IInv /\ [Next]_vars => PaidFor
  BY EveryStep
<1>3. QED BY <1>1, <1>2, Invariance, PTL DEF Spec, SeizureIsPaidFor, PaidFor

(* An asset that the registry stops allowing issues no supply or debt shares *)
(* any more, whatever is deposited, borrowed, repaid or seized: deposit and  *)
(* borrow are the only calls that issue shares, and both ask the registry.   *)
THEOREM BlockedAssetsShrink == SaneLimits => (Spec => BlockedAssetsOnlyShrink)
<1>1. SUFFICES ASSUME SaneLimits PROVE Spec => BlockedAssetsOnlyShrink
  OBVIOUS
<1>2. IInv /\ [Next]_vars => OnlyShrink
  BY EveryStep
<1>3. QED BY <1>1, <1>2, Invariance, PTL DEF Spec, BlockedAssetsOnlyShrink, OnlyShrink

(* While the protocol is paused nobody's shares move and no cash leaves but  *)
(* fees: what is not stopped by the pause, the collateral flags, accrual and *)
(* administration, reaches neither.                                          *)
THEOREM PauseFreezesFunds == SaneLimits => (Spec => PausedFreezesFunds)
<1>1. SUFFICES ASSUME SaneLimits PROVE Spec => PausedFreezesFunds
  OBVIOUS
<1>2. IInv /\ [Next]_vars => (paused => Frozen)
  BY FrozenStep
<1>3. QED BY <1>1, <1>2, Invariance, PTL DEF Spec, PausedFreezesFunds, Frozen

(* With collateral factors no higher than the liquidation thresholds, no     *)
(* call that succeeds makes its caller liquidatable, for any number of       *)
(* assets, at any prices and roundings. A withdrawal and a flag are checked  *)
(* against the threshold itself; a loan is checked against the lower         *)
(* collateral value, so its taker's health factor is at least one.           *)
THEOREM NobodyEndangersItself ==
  SaneLimits /\ SaneCollateral => (Spec => OwnStepsStayHealthy)
<1>1. SUFFICES ASSUME SaneLimits, SaneCollateral PROVE Spec => OwnStepsStayHealthy
  OBVIOUS
<1>2. Init => LoansCover
  BY FS_EmptySet DEF Init, EmptyMap, Listed, LoansCover
<1>3. IInv /\ LoansCover /\ [Next]_vars => LoansCover'
  BY <1>1, LoansCoverStep
<1>4. IInv /\ LoansCover /\ [Next]_vars => StaysHealthy
  BY EveryStep
<1>5. QED BY <1>1, <1>2, <1>3, <1>4, Invariance, PTL DEF Spec, OwnStepsStayHealthy, StaysHealthy

-----------------------------------------------------------------------------
(* The protocol under its multisig *)

GovInv == multisig \in MultiSigs /\ proposals \in Seq(AdminProposal)

-----------------------------------------------------------------------------
(* Lemmas *)

LEMMA ActionFields ==
  ASSUME NEW action \in AdminAction
  PROVE  /\ action.kind = "SetCloseFactor" => action.bps \in CloseFactors
         /\ action.kind \in {"RegisterAsset", "UpdateReserveConfig"}
              => action.asset \in Assets /\ action.config \in Configs
         /\ action.kind = "UpdateMultiSig" => action.config \in MultiSigs
         /\ action.kind = "CollectProtocolFees"
              => action.asset \in Assets /\ action.amount \in FeeRequests
<1>1. CASE action \in [kind : {"SetCloseFactor"}, bps : CloseFactors]
  BY <1>1
<1>2. CASE action \in [kind : {"RegisterAsset", "UpdateReserveConfig"},
                       asset : Assets, config : Configs]
  BY <1>2
<1>3. CASE action \in [kind : {"UpdateMultiSig"}, config : MultiSigs]
  BY <1>3
<1>4. CASE action \in [kind : {"CollectProtocolFees"}, asset : Assets, amount : FeeRequests]
  BY <1>4
<1>5. QED BY <1>1, <1>2, <1>3, <1>4 DEF AdminAction

LEMMA ProposalFields ==
  ASSUME GovInv, NEW id \in DOMAIN proposals
  PROVE  /\ proposals[id] \in AdminProposal
         /\ proposals[id].action \in AdminAction
         /\ \A s \in SUBSET Admins : [proposals[id] EXCEPT !.approvals = s] \in AdminProposal
         /\ \A s \in {"Executed", "Cancelled"} :
              [proposals[id] EXCEPT !.status = s] \in AdminProposal
<1>1. proposals[id] \in AdminProposal
  BY DEF GovInv
<1>2. proposals[id].action \in AdminAction
  BY <1>1, GovAssumption DEF AdminProposal
<1>3. QED BY <1>1, <1>2 DEF AdminProposal

\* p is the only proposal that changes, and it was still pending.
Decides(id, p) ==
  /\ id \in DOMAIN proposals
  /\ Pending(id)
  /\ p \in AdminProposal
  /\ proposals' = [proposals EXCEPT ![id] = p]

\* What a step may do to the list of proposals.
ProposalStep ==
  \/ UNCHANGED proposals
  \/ \E p \in AdminProposal : proposals' = Append(proposals, p)
  \/ \E id \in DOMAIN proposals : \E p \in AdminProposal : Decides(id, p)

LEMMA ProposalsMove ==
  ASSUME GovInv, GovNext
  PROVE  ProposalStep
<1>1. ASSUME NEW caller \in Admins, NEW action \in Actions,
             propose_admin_action(caller, action)
      PROVE  ProposalStep
  <2> DEFINE p == [action |-> action, proposer |-> caller, approvals |-> {caller},
                   status |-> "Pending"]
  <2>1. p \in AdminProposal
    BY DEF AdminProposal
  <2>2. proposals' = Append(proposals, p)
    BY <1>1 DEF propose_admin_action
  <2>3. QED BY <2>1, <2>2 DEF ProposalStep
<1>2. ASSUME NEW caller \in Admins, NEW id \in DOMAIN proposals,
             approve_admin_proposal(caller, id)
      PROVE  ProposalStep
  <2> DEFINE more == proposals[id].approvals \cup {caller}
             p == [proposals[id] EXCEPT !.approvals = more]
  <2>1. more \in SUBSET Admins
    BY ProposalFields DEF AdminProposal
  <2>2. p \in AdminProposal
    BY <2>1, ProposalFields
  <2>3. Decides(id, p)
    BY <1>2, <2>2 DEF approve_admin_proposal, Decides
  <2>4. QED BY <2>2, <2>3 DEF ProposalStep
<1>3. ASSUME NEW caller \in Admins, NEW id \in DOMAIN proposals,
             cancel_admin_proposal(caller, id)
      PROVE  ProposalStep
  <2> DEFINE p == [proposals[id] EXCEPT !.status = "Cancelled"]
  <2>1. p \in AdminProposal
    BY ProposalFields
  <2>2. Decides(id, p)
    BY <1>3, <2>1 DEF cancel_admin_proposal, Decides
  <2>3. QED BY <2>1, <2>2 DEF ProposalStep
<1>4. ASSUME NEW caller \in Admins, NEW id \in DOMAIN proposals, NEW t \in Timestamps,
             execute_admin_proposal(caller, id, t)
      PROVE  ProposalStep
  <2> DEFINE p == [proposals[id] EXCEPT !.status = "Executed"]
  <2>1. p \in AdminProposal
    BY ProposalFields
  <2>2. Decides(id, p)
    BY <1>4, <2>1 DEF execute_admin_proposal, Decides
  <2>3. QED BY <2>1, <2>2 DEF ProposalStep
<1>5. ASSUME NEW caller \in Admins, Directly(caller) \/ Alone(caller)
      PROVE  ProposalStep
  BY <1>5 DEF Directly, Alone, govVars, ProposalStep
<1>6. ASSUME UNCHANGED govVars
      PROVE  ProposalStep
  BY <1>6 DEF govVars, ProposalStep
<1>7. QED BY <1>1, <1>2, <1>3, <1>4, <1>5, <1>6 DEF GovNext

LEMMA ExecutionStep ==
  ASSUME GovInv, NEW caller \in Admins, NEW id \in DOMAIN proposals,
         NEW t \in Timestamps, execute_admin_proposal(caller, id, t)
  PROVE  [Next]_vars /\ multisig' \in MultiSigs
<1> DEFINE action == proposals[id].action
<1>1. action \in AdminAction /\ multisig \in MultiSigs /\ Perform(action, t)
  BY ProposalFields DEF GovInv, execute_admin_proposal
<1> HIDE DEF action
<1>2. CASE action.kind = "SetCloseFactor" /\ set_close_factor(action.bps) /\ UNCHANGED multisig
  BY <1>1, <1>2, ActionFields DEF Next, Governed
<1>3. CASE /\ action.kind = "RegisterAsset"
           /\ register_asset(action.asset, action.config, t)
           /\ UNCHANGED multisig
  BY <1>1, <1>3, ActionFields DEF Next, Governed
<1>4. CASE /\ action.kind = "UpdateReserveConfig"
           /\ update_reserve_config(action.asset, action.config)
           /\ UNCHANGED multisig
  BY <1>1, <1>4, ActionFields DEF Next, Governed
<1>5. CASE /\ action.kind = "CollectProtocolFees"
           /\ CollectProtocolFees(action.asset, action.amount)
           /\ UNCHANGED multisig
  BY <1>1, <1>5, ActionFields DEF CollectProtocolFees, Next, Governed
<1>6. CASE action.kind = "UpdateMultiSig" /\ multisig' = action.config /\ UNCHANGED vars
  BY <1>1, <1>6, ActionFields
<1>7. QED BY <1>1, <1>2, <1>3, <1>4, <1>5, <1>6 DEF Perform

LEMMA DirectStep ==
  ASSUME NEW caller \in Admins, Directly(caller)
  PROVE  Governed
BY DEF Directly, Governed

LEMMA GovStep ==
  ASSUME GovInv, GovNext
  PROVE  [Next]_vars /\ multisig' \in MultiSigs
<1>0. multisig \in MultiSigs
  BY DEF GovInv
<1>1. ASSUME NEW caller \in Admins, NEW action \in Actions,
             propose_admin_action(caller, action)
      PROVE  UNCHANGED vars /\ multisig' = multisig
  BY <1>1 DEF propose_admin_action
<1>2. ASSUME NEW caller \in Admins, NEW id \in DOMAIN proposals,
             approve_admin_proposal(caller, id) \/ cancel_admin_proposal(caller, id)
      PROVE  UNCHANGED vars /\ multisig' = multisig
  BY <1>2 DEF approve_admin_proposal, cancel_admin_proposal
<1>3. ASSUME NEW caller \in Admins, Directly(caller) \/ Alone(caller)
      PROVE  Next /\ multisig' = multisig
  BY <1>3, DirectStep DEF Directly, Alone, Next, govVars
<1>4. ASSUME UserOperation \/ Environment, UNCHANGED govVars
      PROVE  Next /\ multisig' = multisig
  BY <1>4 DEF Next, govVars
<1>5. QED BY <1>0, <1>1, <1>2, <1>3, <1>4, ExecutionStep DEF GovNext

LEMMA GovInvStep ==
  ASSUME GovInv, GovNext
  PROVE  GovInv'
<1>1. proposals' \in Seq(AdminProposal)
  <2>1. ASSUME NEW p \in AdminProposal, proposals' = Append(proposals, p)
        PROVE  proposals' \in Seq(AdminProposal)
    BY <2>1 DEF GovInv
  <2>2. ASSUME NEW id \in DOMAIN proposals, NEW p \in AdminProposal, Decides(id, p)
        PROVE  proposals' \in Seq(AdminProposal)
    BY <2>2 DEF GovInv, Decides
  <2>3. QED BY <2>1, <2>2, ProposalsMove DEF ProposalStep, GovInv
<1>2. QED BY <1>1, GovStep DEF GovInv

LEMMA GovInvariance == GovSpec => []GovInv
<1>1. GovInit => GovInv
  BY DEF GovInit, GovInv
<1>2. GovInv /\ [GovNext]_allVars => GovInv'
  <2>1. SUFFICES ASSUME GovInv, [GovNext]_allVars PROVE GovInv'
    OBVIOUS
  <2>2. CASE UNCHANGED allVars
    BY <2>1, <2>2 DEF allVars, govVars, GovInv
  <2>3. QED BY <2>1, <2>2, GovInvStep
<1>3. QED BY <1>1, <1>2, PTL DEF GovSpec

-----------------------------------------------------------------------------
(* The theorems *)

(* Whatever the multisig lets its administrators do, by proposal or alone,   *)
(* is a step of the lending protocol of the module Lending or none of its    *)
(* business: the executed payload of a proposal is always one of the calls   *)
(* an administrator can make directly.                                       *)
THEOREM MultiSigImplementsLending == GovSpec => Spec
<1>1. GovInit => Init
  BY DEF GovInit
<1>2. GovInv /\ [GovNext]_allVars => [Next]_vars
  <2>1. SUFFICES ASSUME GovInv, [GovNext]_allVars PROVE [Next]_vars
    OBVIOUS
  <2>2. CASE UNCHANGED allVars
    BY <2>2 DEF allVars
  <2>3. QED BY <2>1, <2>2, GovStep
<1>3. QED BY <1>1, <1>2, GovInvariance, PTL DEF GovSpec, Spec

(* The multisig, the proposals and the protocol under them stay typed.       *)
THEOREM GovTypeCorrect == SaneLimits => (GovSpec => []GovTypeOK)
<1>1. GovInv /\ TypeOK => GovTypeOK
  BY DEF GovInv, GovTypeOK
<1>2. QED BY <1>1, GovInvariance, MultiSigImplementsLending, TypeCorrect, PTL

(* Under its multisig too, proposals with unchecked amounts included, no     *)
(* reserve ever owes its suppliers more than it has.                         *)
THEOREM AlwaysSolventUnderMultiSig == SaneLimits => (GovSpec => []Solvent)
BY MultiSigImplementsLending, AlwaysSolvent, PTL

(* A proposal is decided once: an executed or a cancelled one is never       *)
(* approved, executed or cancelled again, and no step decides two.           *)
THEOREM ProposalsDecidedOnce == GovSpec => DecidedOnce
<1> DEFINE changed == {id \in DOMAIN proposals : proposals'[id] # proposals[id]}
           kept    == \A id \in DOMAIN proposals : ~Pending(id) => proposals'[id] = proposals[id]
<1>1. ASSUME GovInv, [GovNext]_allVars
      PROVE  kept /\ Cardinality(changed) <= 1
  <2>1. CASE proposals' = proposals
    <3>1. kept /\ changed = {}
      BY <2>1
    <3>2. QED BY <3>1, FS_EmptySet
  <2>2. ASSUME NEW p \in AdminProposal, proposals' = Append(proposals, p)
        PROVE  kept /\ Cardinality(changed) <= 1
    <3>1. \A id \in DOMAIN proposals : proposals'[id] = proposals[id]
      BY <1>1, <2>2 DEF GovInv
    <3>2. kept /\ changed = {}
      BY <3>1
    <3>3. QED BY <3>2, FS_EmptySet
  <2>3. ASSUME NEW id \in DOMAIN proposals, NEW p \in AdminProposal, Decides(id, p)
        PROVE  kept /\ Cardinality(changed) <= 1
    <3>1. \A i \in DOMAIN proposals : i # id => proposals'[i] = proposals[i]
      BY <2>3 DEF Decides
    <3>2. kept
      BY <2>3, <3>1 DEF Decides
    <3>3. changed = {} \/ changed = {id}
      BY <3>1
    <3>4. Cardinality({id}) = 1 /\ Cardinality({}) = 0
      BY FS_EmptySet, FS_Singleton
    <3> HIDE DEF changed, kept
    <3>5. QED BY <3>2, <3>3, <3>4
  <2>4. proposals' = proposals \/ ProposalStep
    BY <1>1, ProposalsMove DEF allVars, govVars
  <2>5. QED BY <2>1, <2>2, <2>3, <2>4 DEF ProposalStep
<1>2. GovInv /\ [GovNext]_allVars
        => [/\ \A id \in DOMAIN proposals : ~Pending(id) => proposals'[id] = proposals[id]
            /\ Cardinality({id \in DOMAIN proposals : proposals'[id] # proposals[id]}) <= 1
           ]_allVars
  BY <1>1
<1>3. QED BY <1>2, GovInvariance, PTL DEF GovSpec, DecidedOnce

-----------------------------------------------------------------------------
(* What is governed *)

\* Nothing that is governed changes, and no fee leaves.
GovernedStands ==
  /\ UNCHANGED <<multisig, close_factor_bps, Listed>>
  /\ \A a \in Listed :
       /\ reserve_configs'[a].collateral_factor_bps
            = reserve_configs[a].collateral_factor_bps
       /\ reserves[a].protocol_fees <= reserves'[a].protocol_fees

\* One proposal was carried out, and at most what its kind is about changed.
Executed(id) ==
  LET kind == proposals[id].action.kind
  IN  /\ CarriedOut(id, {kind})
      /\ multisig' # multisig => kind = "UpdateMultiSig"
      /\ close_factor_bps' # close_factor_bps => kind = "SetCloseFactor"
      /\ Listed' # Listed => kind = "RegisterAsset"
      /\ \A a \in Listed :
           /\ reserve_configs'[a].collateral_factor_bps
                # reserve_configs[a].collateral_factor_bps
              => kind = "UpdateReserveConfig"
           /\ reserves'[a].protocol_fees < reserves[a].protocol_fees
              => kind = "CollectProtocolFees"

LEMMA FeesType ==
  ASSUME IInv, NEW a \in Listed
  PROVE  reserves[a].protocol_fees \in Nat
BY ReserveOK, BackedTotals

LEMMA KeptStands ==
  ASSUME IInv, UNCHANGED vars, multisig' = multisig
  PROVE  GovernedStands
BY FeesType DEF vars, configVars, Listed, GovernedStands

LEMMA OpenCallsStand ==
  ASSUME IInv, UserOperation \/ Environment \/ Administered, UNCHANGED govVars
  PROVE  GovernedStands
<1>1. multisig' = multisig
  BY DEF govVars
<1>2. CASE UserOperation
  <2>1. UNCHANGED <<close_factor_bps, reserve_configs, Listed>>
    BY <1>2, UserKeepsSettings DEF configVars, Listed
  <2>2. Withheld
    BY <1>2, UserCall
  <2>3. QED BY <1>1, <2>1, <2>2 DEF Withheld, GovernedStands
<1>3. CASE Environment \/ Administered
  <2>1. \A a \in Listed : reserves[a].protocol_fees <= reserves'[a].protocol_fees
    BY <1>3, AdministeredCall, FeesType DEF Untouched
  <2>2. close_factor_bps' = close_factor_bps
    BY <1>3 DEF Environment, RegistryChanges, OracleMoves, configVars, Administered,
                set_asset_interest_rate_model, set_supply_cap, set_borrow_cap,
                set_reserve_factor, Configure, pause, unpause, SetPaused,
                set_default_interest_rate_model
  <2>3. FactorsStand
    <3>1. CASE Environment
      BY <3>1 DEF Environment, RegistryChanges, OracleMoves, configVars, Listed, FactorsStand
    <3>2. ASSUME \/ \E model \in Models : set_default_interest_rate_model(model)
                 \/ pause \/ unpause
          PROVE  FactorsStand
      BY <3>2 DEF set_default_interest_rate_model, pause, unpause, SetPaused, Listed,
                  FactorsStand
    <3>3. QED BY <1>3, <3>1, <3>2, SetterKeepsFactors DEF Administered
  <2>4. QED BY <1>1, <2>1, <2>2, <2>3 DEF FactorsStand, GovernedStands
<1>4. QED BY <1>2, <1>3

LEMMA ExecutionCarriesOut ==
  ASSUME IInv, GovInv, NEW caller \in Admins, NEW id \in DOMAIN proposals,
         NEW t \in Timestamps, execute_admin_proposal(caller, id, t)
  PROVE  Executed(id)
<1> DEFINE action == proposals[id].action
           kind == action.kind
<1>1. CarriedOut(id, {kind})
  <2>1. proposals[id] \in AdminProposal
    BY ProposalFields
  <2>2. proposals'[id].status = "Executed"
    BY <2>1 DEF execute_admin_proposal, AdminProposal, GovInv
  <2>3. QED BY <2>2 DEF execute_admin_proposal, EnoughApprovals, CarriedOut
<1>2. action \in AdminAction /\ Perform(action, t)
  BY ProposalFields DEF execute_admin_proposal
<1>3. \A a \in Listed : reserves[a].protocol_fees \in Nat
  BY FeesType
<1> HIDE DEF action
<1>4. CASE action.kind = "SetCloseFactor" /\ set_close_factor(action.bps) /\ UNCHANGED multisig
  BY <1>1, <1>3, <1>4 DEF set_close_factor, Listed, Executed, action
<1>5. CASE /\ action.kind = "RegisterAsset"
           /\ register_asset(action.asset, action.config, t)
           /\ UNCHANGED multisig
  <2>1. /\ UNCHANGED <<multisig, close_factor_bps>>
        /\ \A a \in Listed : reserve_configs'[a] = reserve_configs[a]
                             /\ reserves'[a] = reserves[a]
    BY <1>5 DEF register_asset, Succeeds, Returns, Put, Listed, IInv
  <2>2. QED BY <1>1, <1>3, <1>5, <2>1 DEF Executed, action
<1>6. CASE /\ action.kind = "UpdateReserveConfig"
           /\ update_reserve_config(action.asset, action.config)
           /\ UNCHANGED multisig
  BY <1>1, <1>3, <1>6 DEF update_reserve_config, Configure, Listed, Executed, action
<1>7. CASE /\ action.kind = "CollectProtocolFees"
           /\ CollectProtocolFees(action.asset, action.amount)
           /\ UNCHANGED multisig
  BY <1>1, <1>7 DEF CollectProtocolFees, collect_protocol_fees, configVars, Listed,
                    Executed, action
<1>8. CASE action.kind = "UpdateMultiSig" /\ multisig' = action.config /\ UNCHANGED vars
  BY <1>1, <1>3, <1>8 DEF vars, configVars, Listed, Executed, action
<1>9. QED BY <1>2, <1>4, <1>5, <1>6, <1>7, <1>8 DEF Perform

\* Every step leaves what is governed alone, is a lone administrator's, or
\* carries a proposal out.
LEMMA GovernedCases ==
  ASSUME IInv, GovInv, [GovNext]_allVars
  PROVE  \/ GovernedStands
         \/ multisig.threshold <= 1 /\ multisig' = multisig
         \/ \E id \in DOMAIN proposals : Executed(id)
<1>1. CASE UNCHANGED allVars
  BY <1>1, KeptStands DEF allVars, govVars
<1>2. ASSUME NEW caller \in Admins, NEW action \in Actions,
             propose_admin_action(caller, action)
      PROVE  GovernedStands
  BY <1>2, KeptStands DEF propose_admin_action
<1>3. ASSUME NEW caller \in Admins, NEW id \in DOMAIN proposals,
             approve_admin_proposal(caller, id) \/ cancel_admin_proposal(caller, id)
      PROVE  GovernedStands
  BY <1>3, KeptStands DEF approve_admin_proposal, cancel_admin_proposal
<1>4. ASSUME NEW caller \in Admins, Alone(caller)
      PROVE  GovernedStands
  BY <1>4, OpenCallsStand DEF Alone
<1>5. ASSUME NEW caller \in Admins, Directly(caller)
      PROVE  multisig.threshold <= 1 /\ multisig' = multisig
  BY <1>5 DEF Directly, govVars
<1>6. CASE (UserOperation \/ Environment) /\ UNCHANGED govVars
  BY <1>6, OpenCallsStand
<1>7. QED BY <1>1, <1>2, <1>3, <1>4, <1>5, <1>6, ExecutionCarriesOut DEF GovNext

\* GovernedChangesAreApproved, of one step.
Approved ==
  LET byProposal(kinds) == \E id \in DOMAIN proposals : CarriedOut(id, kinds)
      alone == multisig.threshold <= 1
  IN  /\ multisig' # multisig => byProposal({"UpdateMultiSig"})
      /\ close_factor_bps' # close_factor_bps => alone \/ byProposal({"SetCloseFactor"})
      /\ Listed' # Listed => alone \/ byProposal({"RegisterAsset"})
      /\ \A a \in Listed :
           /\ reserve_configs'[a].collateral_factor_bps
                # reserve_configs[a].collateral_factor_bps
              => alone \/ byProposal({"UpdateReserveConfig"})
           /\ reserves'[a].protocol_fees < reserves[a].protocol_fees
              => alone \/ byProposal({"CollectProtocolFees"})

LEMMA ApprovedStep ==
  ASSUME IInv, IInv', GovInv, [GovNext]_allVars
  PROVE  Approved
<1>1. CASE GovernedStands
  <2>1. ASSUME NEW a \in Listed
        PROVE  ~(reserves'[a].protocol_fees < reserves[a].protocol_fees)
    <3>1. reserves[a].protocol_fees \in Nat
      BY FeesType
    <3>2. reserves'[a].protocol_fees \in Nat
      <4>1. a \in Listed'
        BY <1>1 DEF GovernedStands
      <4>2. IsReserve(reserves'[a]) /\ BackedReserve(reserves'[a])
        BY <4>1 DEF IInv, Ledger, Agrees
      <4>3. QED BY <4>2, BackedTotals
    <3>3. QED BY <1>1, <3>1, <3>2 DEF GovernedStands
  <2>2. QED BY <1>1, <2>1 DEF GovernedStands, Approved
<1>2. CASE multisig.threshold <= 1 /\ multisig' = multisig
  BY <1>2 DEF Approved
<1>3. ASSUME NEW id \in DOMAIN proposals, Executed(id) PROVE Approved
  BY <1>3 DEF Executed, Approved
<1>4. QED BY <1>1, <1>2, <1>3, GovernedCases

\* Nobody can reach the threshold of a locked out multisig.
LEMMA LockedOutStep ==
  ASSUME IInv, GovInv, LockedOut, [GovNext]_allVars
  PROVE  GovernedStands
<1>1. ~(multisig.threshold <= 1)
  <2>1. multisig.threshold \in Nat
    BY GovAssumption DEF GovInv, MultiSigConfig
  <2>2. QED BY <2>1 DEF LockedOut
<1>2. ASSUME NEW id \in DOMAIN proposals, Executed(id) PROVE FALSE
  <2> DEFINE given == proposals[id].approvals
             could == given \cup multisig.admins
  <2>1. Pending(id) /\ Cardinality(given) >= multisig.threshold
    BY <1>2 DEF Executed, CarriedOut
  <2>2. Cardinality(could) < multisig.threshold
    BY <2>1 DEF LockedOut
  <2>3. could \subseteq Admins
    BY ProposalFields, GovAssumption DEF AdminProposal, GovInv, MultiSigConfig
  <2>4. IsFiniteSet(could)
    BY <2>3, GovAssumption, FS_Subset
  <2>5. Cardinality(given) <= Cardinality(could)
    BY <2>4, FS_Subset
  <2>6. Cardinality(given) \in Nat /\ Cardinality(could) \in Nat
    <3>1. IsFiniteSet(given)
      BY <2>4, FS_Subset
    <3>2. QED BY <2>4, <3>1, FS_CardinalityType
  <2>7. multisig.threshold \in Nat
    BY GovAssumption DEF GovInv, MultiSigConfig
  <2> HIDE DEF given, could
  <2>8. QED BY <2>1, <2>2, <2>5, <2>6, <2>7
<1>3. QED BY <1>1, <1>2, GovernedCases

LEMMA StaysLockedOut ==
  ASSUME IInv, GovInv, LockedOut, [GovNext]_allVars
  PROVE  LockedOut'
<1>1. multisig' = multisig
  BY LockedOutStep DEF GovernedStands
<1>2. SUFFICES ASSUME NEW id \in DOMAIN proposals', proposals'[id].status = "Pending"
               PROVE  Cardinality(proposals'[id].approvals \cup multisig.admins)
                        < multisig.threshold
  BY <1>1 DEF LockedOut, Pending
<1> DEFINE short == Cardinality(proposals'[id].approvals \cup multisig.admins)
                      < multisig.threshold
<1>3. ASSUME NEW i \in DOMAIN proposals, Pending(i),
             proposals'[id].approvals \cup multisig.admins
               = proposals[i].approvals \cup multisig.admins
      PROVE  short
  BY <1>3 DEF LockedOut
<1>4. ASSUME proposals' = proposals PROVE short
  BY <1>2, <1>3, <1>4 DEF Pending
<1>5. ASSUME NEW caller \in Admins, NEW action \in Actions,
             propose_admin_action(caller, action)
      PROVE  short
  <2> DEFINE p == [action |-> action, proposer |-> caller, approvals |-> {caller},
                   status |-> "Pending"]
  <2>1. proposals \in Seq(AdminProposal) /\ p \in AdminProposal
    BY DEF GovInv, AdminProposal
  <2>2. proposals' = Append(proposals, p) /\ caller \in multisig.admins
    BY <1>5 DEF propose_admin_action, IsAdmin
  <2>3. p.approvals \cup multisig.admins = multisig.admins
    BY <2>2
  <2> HIDE DEF p
  <2>4. \/ id \in DOMAIN proposals /\ proposals'[id] = proposals[id]
        \/ proposals'[id] = p
    BY <2>1, <2>2
  <2>5. QED BY <1>2, <1>3, <2>3, <2>4 DEF LockedOut, Pending
<1>6. ASSUME NEW caller \in Admins, NEW i \in DOMAIN proposals,
             approve_admin_proposal(caller, i)
      PROVE  short
  <2>1. /\ caller \in multisig.admins
        /\ proposals' = [proposals EXCEPT ![i].approvals = @ \cup {caller}]
    BY <1>6 DEF approve_admin_proposal, IsAdmin
  <2>2. /\ id \in DOMAIN proposals
        /\ proposals'[id].status = proposals[id].status
        /\ \/ proposals'[id].approvals = proposals[id].approvals
           \/ proposals'[id].approvals = proposals[id].approvals \cup {caller}
    BY <2>1, ProposalFields DEF AdminProposal
  <2>3. QED BY <1>2, <1>3, <2>1, <2>2 DEF Pending
<1>7. ASSUME NEW caller \in Admins, NEW i \in DOMAIN proposals,
             \/ cancel_admin_proposal(caller, i)
             \/ \E t \in Timestamps : execute_admin_proposal(caller, i, t)
      PROVE  short
  <2>1. \/ proposals' = [proposals EXCEPT ![i].status = "Cancelled"]
        \/ proposals' = [proposals EXCEPT ![i].status = "Executed"]
    BY <1>7 DEF cancel_admin_proposal, execute_admin_proposal
  <2>2. /\ id \in DOMAIN proposals
        /\ proposals'[id] = proposals[id] \/ proposals'[id].status # "Pending"
    BY <2>1, ProposalFields DEF AdminProposal
  <2>3. QED BY <1>2, <1>3, <2>2 DEF Pending
<1>8. ASSUME \/ UNCHANGED allVars \/ UNCHANGED govVars
             \/ \E caller \in Admins : Directly(caller) \/ Alone(caller)
      PROVE  short
  BY <1>4, <1>8 DEF Directly, Alone, allVars, govVars
<1> HIDE DEF short
<1>9. short
  BY <1>5, <1>6, <1>7, <1>8 DEF GovNext
<1>10. QED BY <1>9 DEF short

(* What is governed changes by one administrator's act only where one is     *)
(* enough, and else by carrying out a proposal with enough approvals.        *)
THEOREM GovernedByApproval == SaneLimits => (GovSpec => GovernedChangesAreApproved)
<1>1. SUFFICES ASSUME SaneLimits PROVE GovSpec => GovernedChangesAreApproved
  OBVIOUS
<1>2. IInv /\ IInv' /\ GovInv /\ [GovNext]_allVars => Approved
  BY ApprovedStep
<1>3. GovSpec => []IInv
  BY <1>1, MultiSigImplementsLending, Invariance, PTL
<1>4. QED BY <1>2, <1>3, GovInvariance, PTL
          DEF GovSpec, GovernedChangesAreApproved, Approved

(* A threshold that nobody can reach any more is never reached again.        *)
THEOREM LockedOutStays == SaneLimits => (GovSpec => LockedOutForGood)
<1>1. SUFFICES ASSUME SaneLimits PROVE GovSpec => LockedOutForGood
  OBVIOUS
<1>2. ASSUME IInv, IInv', GovInv, LockedOut, [GovNext]_allVars
      PROVE  /\ LockedOut'
             /\ UNCHANGED <<multisig, close_factor_bps, Listed>>
             /\ \A a \in Listed : reserves'[a].protocol_fees >= reserves[a].protocol_fees
  <2>1. GovernedStands /\ LockedOut'
    BY <1>2, LockedOutStep, StaysLockedOut
  <2>2. ASSUME NEW a \in Listed
        PROVE  reserves'[a].protocol_fees >= reserves[a].protocol_fees
    BY <2>1 DEF GovernedStands
  <2>3. QED BY <2>1, <2>2 DEF GovernedStands
<1>3. IInv /\ IInv' /\ GovInv /\ [GovNext]_allVars
        => (LockedOut =>
             /\ LockedOut'
             /\ UNCHANGED <<multisig, close_factor_bps, Listed>>
             /\ \A a \in Listed : reserves'[a].protocol_fees >= reserves[a].protocol_fees)
  BY <1>2
<1>4. GovSpec => []IInv
  BY <1>1, MultiSigImplementsLending, Invariance, PTL
<1>5. QED BY <1>3, <1>4, GovInvariance, PTL DEF GovSpec, LockedOutForGood
=============================================================================
