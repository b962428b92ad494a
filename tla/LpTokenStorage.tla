--------------------------- MODULE LpTokenStorage ---------------------------
(***************************************************************************)
(* LpTokenStorage of lp_token_storage.rs: anyone mints to anyone.          *)
(***************************************************************************)
EXTENDS Integers, Maps

CONSTANTS NumUsers, LpAmounts,
          MaxLpSupply    \* bound of the model

LpTokenStorageAssumption == NumUsers \in Nat /\ LpAmounts \subseteq Int

VARIABLES lp_balance, lp_supply

LpInit == lp_balance = [u \in 1..NumUsers |-> 0] /\ lp_supply = 0

lp_mint(to, amount) ==
  /\ amount > 0
  /\ lp_supply + amount <= MaxLpSupply
  /\ lp_balance' = [lp_balance EXCEPT ![to] = @ + amount]
  /\ lp_supply' = lp_supply + amount

lp_burn(from, amount) ==
  /\ amount > 0
  /\ lp_balance[from] >= amount
  /\ lp_balance' = [lp_balance EXCEPT ![from] = @ - amount]
  /\ lp_supply' = lp_supply - amount

LpNext == \E u \in 1..NumUsers, amount \in LpAmounts : lp_mint(u, amount) \/ lp_burn(u, amount)

\* The supply is what the holders have.
LpSupplyHeld == lp_supply = SumTo(lp_balance, NumUsers) /\ \A u \in 1..NumUsers : lp_balance[u] >= 0
=============================================================================
