---------------------------- MODULE SorobanToken ----------------------------
(***************************************************************************)
(* SorobanTokenContract of soroban_token_contract.rs: balances and a total *)
(* supply on the ledger, where a call that panics changes nothing.         *)
(***************************************************************************)
EXTENDS Integers, Maps

CONSTANTS NumAddresses,
          Amounts,     \* what is moved or minted; minting checks no sign
          Supplies,    \* what initialize may be given
          NoAdmin,
          MaxHeld      \* bounds every balance, and every supply, on either side of 0

Addresses == 1 .. NumAddresses

SorobanTokenAssumption ==
  /\ NumAddresses \in Nat
  /\ Amounts \subseteq Int
  /\ Supplies \subseteq Int
  /\ NoAdmin \notin Addresses
  /\ MaxHeld \in Nat

VARIABLES balances, total_supply, admin,
          restarted, \* history: what older balances add to the supply set last
          doubled    \* history: what transfers to oneself added since

vars == <<balances, total_supply, admin, restarted, doubled>>

Init ==
  /\ balances = [a \in Addresses |-> 0]
  /\ total_supply = 0
  /\ admin = NoAdmin
  /\ restarted = 0 /\ doubled = 0

Held == SumTo(balances, NumAddresses)

Bounded ==
  /\ total_supply' \in -MaxHeld .. MaxHeld
  /\ \A a \in Addresses : balances'[a] \in -MaxHeld .. MaxHeld

\* Any number of times; only the new admin's balance is set.
initialize(a, supply) ==
  /\ admin' = a
  /\ total_supply' = supply
  /\ balances' = [balances EXCEPT ![a] = supply]
  /\ restarted' = Held - balances[a]
  /\ doubled' = 0

\* Mutant: the receiver is credited before the sender's balance is written.
CreditedThenDebited(from, to, amount) ==
  /\ amount > 0
  /\ amount <= balances[from]
  /\ balances' = [[balances EXCEPT ![to] = @ + amount] EXCEPT ![from] = balances[from] - amount]
  /\ doubled' = IF from = to THEN doubled + amount ELSE doubled
  /\ UNCHANGED <<total_supply, admin, restarted>>

\* Both balances are read before either is written: a transfer to oneself adds.
transfer(from, to, amount) ==
  /\ amount > 0
  /\ amount <= balances[from]
  /\ balances' = [[balances EXCEPT ![from] = @ - amount] EXCEPT ![to] = balances[to] + amount]
  /\ doubled' = IF from = to THEN doubled + amount ELSE doubled
  /\ UNCHANGED <<total_supply, admin, restarted>>

mint(a, to, amount) ==
  /\ admin = a
  /\ balances' = [balances EXCEPT ![to] = @ + amount]
  /\ total_supply' = total_supply + amount
  /\ UNCHANGED <<admin, restarted, doubled>>

Next ==
  /\ \/ \E a \in Addresses, x \in Supplies : initialize(a, x)
     \/ \E a, to \in Addresses, x \in Amounts : transfer(a, to, x) \/ mint(a, to, x)
  /\ Bounded

Spec == Init /\ [][Next]_vars

-----------------------------------------------------------------------------
(* The supply accounts for every balance but what balances from before the  *)
(* last initialize and transfers to oneself have added.                     *)
SupplyAccounts == Held = total_supply + restarted + doubled
=============================================================================
