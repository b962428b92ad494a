------------------------------- MODULE Vault -------------------------------
(***************************************************************************)
(* YieldVaultContract of vault.rs: shares of a pot that strategies invest. *)
(* The vault does not keep who holds the shares, anyone may redeem any.    *)
(* Its clock always reads 0, so that a harvest is always too soon, and     *)
(* strategies earn nothing; what they are given and asked for succeeds.    *)
(***************************************************************************)
EXTENDS Integers, Sequences

CONSTANTS
  U64,
  VaultAmounts,     \* what callers pass
  Apys,             \* the estimated_apy of strategies
  Thresholds,       \* the thresholds of optimize_strategy, in bps
  PerformanceFees,  \* the fees an admin asks for, in bps
  MAX_PERFORMANCE_FEE_BPS, MAX_STRATEGIES,
  MaxVaultAssets         \* bound of the model: there are no more tokens than this

VaultAssumption ==
  /\ U64 \in Nat \ {0}
  /\ VaultAmounts \subseteq 1 .. (U64 - 1)
  /\ Apys \subseteq Nat /\ Thresholds \subseteq Nat /\ PerformanceFees \subseteq Nat
  /\ {MAX_PERFORMANCE_FEE_BPS, MAX_STRATEGIES} \subseteq Nat
  /\ MaxVaultAssets \in 0 .. (U64 - 1)

VARIABLE vault

U64_MAX == U64 - 1
MulOrMax(x, y) == IF x * y < U64 THEN x * y ELSE U64_MAX

VaultType == [total_shares : 0 .. U64_MAX, total_assets : 0 .. MaxVaultAssets, strategies : Seq(Apys),
              active : Nat, fee : Nat, admin : BOOLEAN, paused : BOOLEAN]

VaultInit ==
  vault = [total_shares |-> 0, total_assets |-> 0, strategies |-> <<>>, active |-> 1,
           fee |-> 1000, admin |-> FALSE, paused |-> FALSE]

\* An admin must have been set; it is not asked for.
require_admin == vault.admin
require_not_paused == ~vault.paused

vault_initialize(fee) ==
  /\ fee <= MAX_PERFORMANCE_FEE_BPS
  /\ vault' = [vault EXCEPT !.admin = TRUE, !.fee = fee]

set_performance_fee(fee) ==
  /\ require_admin
  /\ fee <= MAX_PERFORMANCE_FEE_BPS
  /\ vault' = [vault EXCEPT !.fee = fee]

add_strategy(apy) ==
  /\ require_admin
  /\ Len(vault.strategies) < MAX_STRATEGIES
  /\ vault' = [vault EXCEPT !.strategies = Append(@, apy)]

Switched(to) == [vault EXCEPT !.active = to]

switch_strategy(to) ==
  /\ require_admin
  /\ require_not_paused
  /\ to # vault.active
  /\ vault.active <= Len(vault.strategies)
  /\ vault' = Switched(to)

\* The first of the strategies with the highest estimate, if that is not 0.
Optimal ==
  LET best == {i \in DOMAIN vault.strategies :
                 /\ vault.strategies[i] > 0
                 /\ \A j \in DOMAIN vault.strategies :
                      /\ vault.strategies[j] <= vault.strategies[i]
                      /\ j < i => vault.strategies[j] < vault.strategies[i]}
  IN  IF best = {} THEN 1 ELSE CHOOSE i \in best : TRUE

Apy(i) == IF i \in DOMAIN vault.strategies THEN vault.strategies[i] ELSE 0

Improvement(from, to) ==
  IF Apy(from) > 0 THEN ((Apy(to) - Apy(from)) * 10000) \div Apy(from)
  ELSE IF Apy(to) > 0 THEN 10000 ELSE 0

optimize_strategy(threshold) ==
  /\ require_admin
  /\ require_not_paused
  /\ Optimal # vault.active
  /\ Improvement(vault.active, Optimal) >= threshold
  /\ vault' = Switched(Optimal)

\* Mutant: shares rounded up.
SharesRoundedUp(amount) ==
  IF 0 \in {vault.total_shares, vault.total_assets} THEN amount
  ELSE (MulOrMax(amount, vault.total_shares) + vault.total_assets - 1) \div vault.total_assets

calculate_shares_for_amount(amount) ==
  IF 0 \in {vault.total_shares, vault.total_assets} THEN amount
  ELSE MulOrMax(amount, vault.total_shares) \div vault.total_assets

\* Bounded by MaxVaultAssets.
deposit(amount) ==
  /\ require_not_paused
  /\ vault.total_assets + amount <= MaxVaultAssets
  /\ vault' = [vault EXCEPT !.total_assets = @ + amount,
                            !.total_shares = @ + calculate_shares_for_amount(amount)]

calculate_assets_for_shares(shares) == MulOrMax(shares, vault.total_assets) \div vault.total_shares

withdraw(shares) ==
  /\ require_not_paused
  /\ shares <= vault.total_shares
  /\ vault' = [vault EXCEPT !.total_assets = IF calculate_assets_for_shares(shares) > @ THEN 0
                                             ELSE @ - calculate_assets_for_shares(shares),
                            !.total_shares = @ - shares]

\* emergency_exit takes the assets out of the strategy, and keeps its books.
SetPaused(paused) ==
  /\ require_admin
  /\ vault.paused = ~paused
  /\ vault' = [vault EXCEPT !.paused = paused]

VaultNext ==
  \/ \E fee \in PerformanceFees : vault_initialize(fee) \/ set_performance_fee(fee)
  \/ \E apy \in Apys : add_strategy(apy)
  \/ \E to \in DOMAIN vault.strategies : switch_strategy(to)
  \/ \E threshold \in Thresholds : optimize_strategy(threshold)
  \/ \E amount \in VaultAmounts : deposit(amount) \/ withdraw(amount)
  \/ \E paused \in BOOLEAN : SetPaused(paused)

(* A strategy that is active exists, once there is one: deposits and          *)
(* withdrawals fail otherwise. Shares do not run dry while assets are shared: *)
(* a pot with shares and no assets would sell its next depositor short.       *)
VaultSound ==
  /\ vault \in VaultType
  /\ vault.strategies # <<>> => vault.active \in DOMAIN vault.strategies
  /\ vault.total_shares > 0 => vault.total_assets > 0

\* Redeeming and depositing, at any rounding or overflow, take nothing from the
\* shares that stay.
SharesKeepWorth ==
  [][vault.total_shares > 0 /\ vault'.total_shares > 0 =>
       vault'.total_assets * vault.total_shares >= vault.total_assets * vault'.total_shares]_vault
=============================================================================
