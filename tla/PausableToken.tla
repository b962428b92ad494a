---------------------------- MODULE PausableToken ----------------------------
(***************************************************************************)
(* PausableTokenContract of pausable_token.rs: balances, an admin, a pause *)
(* and transfer hooks, on the ledger: a call that panics changes nothing.  *)
(* initialize asks for no more than the new admin's signature, each time.  *)
(***************************************************************************)
EXTENDS Integers, FiniteSets, Maps

CONSTANTS NumAddresses, Amounts, Hooks, MAX_HOOKS, NoAdmin,
          MaxMinted   \* bounds what is minted and what transfers to oneself add

Addresses == 1 .. NumAddresses

PausableTokenAssumption ==
  /\ NumAddresses \in Nat
  /\ Amounts \subseteq Nat \ {0}
  /\ NoAdmin \notin Addresses
  /\ {MAX_HOOKS, MaxMinted} \subseteq Nat

VARIABLES balances, admin, paused, before_hooks, after_hooks,
          hook_blocks,          \* hook -> whether it blocks; kept apart from the hooks
          minted, doubled       \* history: minted, and made by transfers to oneself

controlVars == <<admin, paused>>
hookVars == <<before_hooks, after_hooks, hook_blocks>>
historyVars == <<minted, doubled>>
vars == <<balances, controlVars, hookVars, historyVars>>

Init ==
  /\ balances = [a \in Addresses |-> 0]
  /\ admin = NoAdmin /\ paused = FALSE
  /\ before_hooks = {} /\ after_hooks = {} /\ hook_blocks = EmptyMap
  /\ minted = 0 /\ doubled = 0

\* The flags of the hooks are not cleared, nor are the balances.
initialize(a) ==
  /\ admin' = a
  /\ paused' = FALSE
  /\ before_hooks' = {} /\ after_hooks' = {}
  /\ UNCHANGED <<balances, hook_blocks, historyVars>>

SetPaused(a, b) ==
  /\ admin = a
  /\ paused' = b
  /\ UNCHANGED <<balances, admin, hookVars, historyVars>>

Blocks(h) == GetOr(hook_blocks, h, FALSE)

\* Mutant: the pause is looked at by the hooks' callers only.
TransferredAnyway(from, to, amount) ==
  /\ amount <= balances[from]
  /\ \A h \in before_hooks : ~Blocks(h)
  /\ balances' = [[balances EXCEPT ![from] = @ - amount] EXCEPT ![to] = balances[to] + amount]
  /\ doubled' = IF from = to THEN doubled + amount ELSE doubled
  /\ doubled' + minted <= MaxMinted
  /\ UNCHANGED <<controlVars, hookVars, minted>>

\* Both balances are read before either is written: a transfer to oneself adds.
transfer(from, to, amount) ==
  /\ ~paused
  /\ amount <= balances[from]
  /\ \A h \in before_hooks : ~Blocks(h)
  /\ balances' = [[balances EXCEPT ![from] = @ - amount] EXCEPT ![to] = balances[to] + amount]
  /\ doubled' = IF from = to THEN doubled + amount ELSE doubled
  /\ doubled' + minted <= MaxMinted
  /\ UNCHANGED <<controlVars, hookVars, minted>>

\* Mutant: the balance is replaced.
MintedOver(a, to, amount) ==
  /\ admin = a
  /\ doubled + minted + amount <= MaxMinted
  /\ balances' = [balances EXCEPT ![to] = amount]
  /\ minted' = minted + amount
  /\ UNCHANGED <<controlVars, hookVars, doubled>>

\* Not stopped by the pause.
mint(a, to, amount) ==
  /\ admin = a
  /\ doubled + minted + amount <= MaxMinted
  /\ balances' = [balances EXCEPT ![to] = @ + amount]
  /\ minted' = minted + amount
  /\ UNCHANGED <<controlVars, hookVars, doubled>>

\* Mutant: a hook registered again keeps the flag it had.
RegisteredAsItWas(a, h) ==
  /\ admin = a
  /\ h \notin before_hooks /\ Cardinality(before_hooks) < MAX_HOOKS
  /\ before_hooks' = before_hooks \cup {h}
  /\ UNCHANGED <<balances, controlVars, after_hooks, hook_blocks, historyVars>>

register_before_hook(a, h) ==
  /\ admin = a
  /\ h \notin before_hooks /\ Cardinality(before_hooks) < MAX_HOOKS
  /\ before_hooks' = before_hooks \cup {h}
  /\ hook_blocks' = Put(hook_blocks, h, FALSE)
  /\ UNCHANGED <<balances, controlVars, after_hooks, historyVars>>

unregister_before_hook(a, h) ==
  /\ admin = a
  /\ h \in before_hooks
  /\ before_hooks' = before_hooks \ {h}
  /\ hook_blocks' = Drop(hook_blocks, h)
  /\ UNCHANGED <<balances, controlVars, after_hooks, historyVars>>

register_after_hook(a, h) ==
  /\ admin = a
  /\ h \notin after_hooks /\ Cardinality(after_hooks) < MAX_HOOKS
  /\ after_hooks' = after_hooks \cup {h}
  /\ UNCHANGED <<balances, controlVars, before_hooks, hook_blocks, historyVars>>

unregister_after_hook(a, h) ==
  /\ admin = a
  /\ h \in after_hooks
  /\ after_hooks' = after_hooks \ {h}
  /\ UNCHANGED <<balances, controlVars, before_hooks, hook_blocks, historyVars>>

\* Also of a hook that is not registered.
set_before_hook_blocks(a, h, blocks) ==
  /\ admin = a
  /\ hook_blocks' = Put(hook_blocks, h, blocks)
  /\ UNCHANGED <<balances, controlVars, before_hooks, after_hooks, historyVars>>

Next ==
  \/ \E a \in Addresses :
       \/ initialize(a)
       \/ \E b \in BOOLEAN : SetPaused(a, b)
       \/ \E to \in Addresses, x \in Amounts : transfer(a, to, x) \/ mint(a, to, x)
       \/ \E h \in Hooks :
            \/ register_before_hook(a, h) \/ unregister_before_hook(a, h)
            \/ register_after_hook(a, h) \/ unregister_after_hook(a, h)
            \/ \E b \in BOOLEAN : set_before_hook_blocks(a, h, b)

Spec == Init /\ [][Next]_vars

-----------------------------------------------------------------------------
(* One type invariant.                                                      *)
TypeOK ==
  /\ balances \in [Addresses -> Nat]
  /\ admin \in Addresses \cup {NoAdmin}
  /\ paused \in BOOLEAN
  /\ before_hooks \subseteq Hooks /\ Cardinality(before_hooks) <= MAX_HOOKS
  /\ after_hooks \subseteq Hooks /\ Cardinality(after_hooks) <= MAX_HOOKS
  /\ IsMap(hook_blocks, Hooks, BOOLEAN)
  /\ minted \in Nat /\ doubled \in Nat

Held == SumTo(balances, NumAddresses)

(* Tokens come from minting, and from transfers to oneself.                 *)
MintedBooks == Held = minted + doubled

(* Holders' money stands still exactly as long as transfers are stopped:    *)
(* every decrease of a balance is a transfer that neither the pause nor a   *)
(* registered hook stopped, in whatever order hooks were registered,        *)
(* blocked, removed, or the contract initialized again; and a hook never    *)
(* comes into force blocking by what was said of it earlier.                *)
StopsWhenTold ==
  [][/\ paused \/ (\E h \in before_hooks : Blocks(h))
          => \A a \in Addresses : balances'[a] >= balances[a]
     /\ \A h \in before_hooks' \ before_hooks : ~GetOr(hook_blocks', h, FALSE)]_vars

=============================================================================
