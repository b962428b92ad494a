------------------------------- MODULE Token -------------------------------
(***************************************************************************)
(* TokenContract of token.rs: balances, allowances and permits, transfer   *)
(* hooks, a pause, the import of another contract's state, airdrops. It is *)
(* a struct changed in place: a call that fails halfway keeps what it has  *)
(* changed, and its amounts are 64 bits wide. A call that is refused       *)
(* before it changes anything is no step.                                  *)
(*                                                                         *)
(* Nobody asks who the caller is but the few operations of an admin, and   *)
(* that is whoever was named last. Sums that the code does not check wrap, *)
(* as they do in its release profile.                                      *)
(***************************************************************************)
EXTENDS Integers, Sequences, FiniteSets, Maps

CONSTANTS
  NumAddresses,      \* the addresses are 1..NumAddresses
  U64,               \* what amounts wrap at, 2^64
  Initial,           \* the supplies a token may start with
  Amounts, Batches,  \* what callers pass: amounts, and lists of transfers
  Permits,           \* the permits that were signed
  Drops,             \* the airdrops an admin may create
  Snapshots,         \* the states that may be imported
  Hooks, MAX_HOOKS,
  NoAdmin,
  MaxLedger, MaxDrops \* bounds of the model

Addresses == 1 .. NumAddresses
U64s == 0 .. (U64 - 1)

Balances == [Addresses -> U64s]
Allowances == [Addresses -> Balances]
PermitType == [owner : Addresses, spender : Addresses, value : U64s, deadline : Nat, nonce : Nat]

\* Leaves of the tree: who may claim how much. Only leaves have valid proofs,
\* and the code panics on the empty one, which a tree of a single leaf has.
DropType == [leaves : SUBSET (Addresses \X U64s), total_amount : U64s, expiry_ledger : Nat]

MerkleAirdrop == [drop : Drops, claimed_amount : U64s, is_active : BOOLEAN]

ASSUME TokenAssumption ==
  /\ NumAddresses \in Nat
  /\ U64 \in Nat \ {0}
  /\ Initial \subseteq U64s
  /\ Amounts \subseteq U64s \ {0}
  /\ Batches \subseteq Seq([to : Addresses, amount : Amounts])
  /\ Permits \subseteq PermitType
  /\ Drops \subseteq DropType
  /\ Snapshots \subseteq [balances : Balances, allowances : Allowances, expected_total_supply : U64s]
  /\ NoAdmin \notin Addresses
  /\ {MAX_HOOKS, MaxLedger, MaxDrops} \subseteq Nat

VARIABLES
  total_supply, balances, allowances,
  admin, paused,
  permit_nonces,
  before_transfer_hooks,   \* hook -> whether it lets transfers pass
  airdrops,                \* the airdrops; the code counts from 0
  airdrop_claims,          \* <<airdrop, recipient>> -> amount; the code keeps `true'
  sequence                 \* the ledger's number

\* History. Tokens are counted against the supply: never credited to anyone,
\* paid by airdrops, gone in a call that failed halfway or in a sum that wrapped.
VARIABLES uncredited, airdropped, lost,
          granted, spent,  \* owner -> spender -> since the allowance was last set
          used             \* the permits that were accepted

accountVars == <<total_supply, balances>>
allowanceVars == <<allowances, granted, spent>>
permitVars == <<permit_nonces, used>>
airdropVars == <<airdrops, airdrop_claims, sequence>>
controlVars == <<admin, paused, before_transfer_hooks>>
ledgerVars == <<uncredited, airdropped, lost>>
vars == <<accountVars, allowanceVars, permitVars, airdropVars, controlVars, ledgerVars>>

Nobody == [a \in Addresses |-> 0]
NoAllowances == [a \in Addresses |-> Nobody]

Init ==
  /\ total_supply \in Initial
  /\ balances = Nobody             \* the initial supply is credited to nobody
  /\ allowances = NoAllowances
  /\ admin = NoAdmin
  /\ paused = FALSE
  /\ permit_nonces = Nobody
  /\ before_transfer_hooks = EmptyMap
  /\ airdrops = <<>>
  /\ airdrop_claims = EmptyMap
  /\ sequence = 0
  /\ uncredited = total_supply
  /\ airdropped = 0 /\ lost = 0
  /\ granted = NoAllowances /\ spent = NoAllowances
  /\ used = {}

-----------------------------------------------------------------------------
\* Mutant: the largest value is refused.
FitsBelow(b, to, amount) == b[to] + amount < U64 - 1

Fits(b, to, amount) == b[to] + amount < U64

mint(to, amount) ==
  /\ ~paused
  /\ total_supply + amount < U64
  /\ total_supply' = total_supply + amount
  /\ \/ /\ Fits(balances, to, amount)
        /\ balances' = [balances EXCEPT ![to] = @ + amount]
        /\ UNCHANGED lost
     \/ \* An error: the supply was raised before the balance was looked at.
        /\ ~Fits(balances, to, amount)
        /\ lost' = lost + amount
        /\ UNCHANGED balances
  /\ UNCHANGED <<allowanceVars, permitVars, airdropVars, controlVars, uncredited, airdropped>>

\* Not stopped by the pause.
burn(from, amount) ==
  /\ amount <= total_supply
  /\ amount <= balances[from]
  /\ total_supply' = total_supply - amount
  /\ balances' = [balances EXCEPT ![from] = @ - amount]
  /\ UNCHANGED <<allowanceVars, permitVars, airdropVars, controlVars, ledgerVars>>

HooksAllow == \A h \in DOMAIN before_transfer_hooks : before_transfer_hooks[h]

\* The transfer's checks and debit; `success' says whether the credit fits.
Moved(from, to, amount, success) ==
  /\ ~paused
  /\ from # to
  /\ HooksAllow
  /\ amount <= balances[from]
  /\ success = Fits(balances, to, amount)
  /\ IF success
     THEN /\ balances' = [balances EXCEPT ![from] = @ - amount, ![to] = @ + amount]
          /\ UNCHANGED lost
     ELSE /\ balances' = [balances EXCEPT ![from] = @ - amount]
          /\ lost' = lost + amount
  /\ UNCHANGED <<total_supply, uncredited, airdropped>>

transfer(from, to, amount) ==
  /\ \E success \in BOOLEAN : Moved(from, to, amount, success)
  /\ UNCHANGED <<allowanceVars, permitVars, airdropVars, controlVars>>

\* Mutant: the allowance is checked and not reduced.
TransferredOnAllowance(spender, from, to, amount) ==
  /\ amount <= allowances[from][spender]
  /\ \E success \in BOOLEAN : Moved(from, to, amount, success)
  /\ spent' = [spent EXCEPT ![from][spender] = @ + amount]
  /\ UNCHANGED <<allowances, granted, permitVars, airdropVars, controlVars>>

\* A transfer that fails halfway returns before the allowance is reduced.
transfer_from(spender, from, to, amount) ==
  /\ amount <= allowances[from][spender]
  /\ \E success \in BOOLEAN :
       /\ Moved(from, to, amount, success)
       /\ allowances' = IF success THEN [allowances EXCEPT ![from][spender] = @ - amount] ELSE allowances
  /\ spent' = [spent EXCEPT ![from][spender] = @ + amount]
  /\ UNCHANGED <<granted, permitVars, airdropVars, controlVars>>

Total(transfers) == SumTo([i \in 1 .. Len(transfers) |-> transfers[i].amount], Len(transfers))

Pay(r, t) ==
  IF r.ok /\ Fits(r.balances, t.to, t.amount)
  THEN [r EXCEPT !.balances[t.to] = @ + t.amount, !.credited = @ + t.amount]
  ELSE [r EXCEPT !.ok = FALSE]

\* The recipients are credited in turn, until a balance would overflow.
Credited(b, transfers) ==
  LET acc[i \in 0 .. Len(transfers)] ==
        IF i = 0 THEN [balances |-> b, credited |-> 0, ok |-> TRUE] ELSE Pay(acc[i - 1], transfers[i])
  IN  acc[Len(transfers)]

\* Mutant: the recipients are paid and the sender is charged the first amount.
ChargedOnce(from, transfers) ==
  /\ transfers # <<>>
  /\ Total(transfers) <= balances[from]
  /\ \A i \in DOMAIN transfers : transfers[i].to # from
  /\ LET end == Credited([balances EXCEPT ![from] = @ - transfers[1].amount], transfers)
     IN  /\ balances' = end.balances
         /\ lost' = lost + (Total(transfers) - end.credited)
  /\ UNCHANGED <<total_supply, uncredited, airdropped>>
  /\ UNCHANGED <<allowanceVars, permitVars, airdropVars, controlVars>>

\* Neither the pause nor the hooks are asked.
batch_transfer(from, transfers) ==
  /\ transfers # <<>>
  /\ Total(transfers) <= balances[from]
  /\ \A i \in DOMAIN transfers : transfers[i].to # from
  /\ LET end == Credited([balances EXCEPT ![from] = @ - Total(transfers)], transfers)
     IN  /\ balances' = end.balances
         /\ lost' = lost + (Total(transfers) - end.credited)
  /\ UNCHANGED <<total_supply, uncredited, airdropped>>
  /\ UNCHANGED <<allowanceVars, permitVars, airdropVars, controlVars>>

-----------------------------------------------------------------------------
Granted(owner, spender, amount) ==
  /\ allowances' = [allowances EXCEPT ![owner][spender] = amount]
  /\ granted' = [granted EXCEPT ![owner][spender] = amount]
  /\ spent' = [spent EXCEPT ![owner][spender] = 0]

approve(owner, spender, amount) ==
  /\ Granted(owner, spender, amount)
  /\ UNCHANGED <<accountVars, permitVars, airdropVars, controlVars, ledgerVars>>

\* Mutant: the nonce of the permit is not compared with the owner's.
SignedOnce(p) == TRUE

SignatureValid(p) == p.nonce = permit_nonces[p.owner]

permit(p, t) ==
  /\ t <= p.deadline
  /\ SignatureValid(p)
  /\ permit_nonces' = [permit_nonces EXCEPT ![p.owner] = @ + 1]
  /\ Granted(p.owner, p.spender, p.value)
  /\ used' = used \cup {p}
  /\ UNCHANGED <<accountVars, airdropVars, controlVars, ledgerVars>>

\* Open to anyone. The snapshot's balances are added up in 64 bits.
import_migration_state(s) ==
  /\ ~paused
  /\ SumTo(s.balances, NumAddresses) % U64 = s.expected_total_supply
  /\ balances' = s.balances
  /\ allowances' = s.allowances
  /\ total_supply' = s.expected_total_supply
  /\ uncredited' = s.expected_total_supply - SumTo(s.balances, NumAddresses)
  /\ airdropped' = 0 /\ lost' = 0
  /\ granted' = s.allowances
  /\ spent' = NoAllowances
  /\ UNCHANGED <<permitVars, airdropVars, controlVars>>

-----------------------------------------------------------------------------
set_admin(a) ==
  /\ admin' = a
  /\ UNCHANGED <<accountVars, allowanceVars, permitVars, airdropVars, ledgerVars, paused, before_transfer_hooks>>

ensure_admin(caller) == admin = caller

SetPaused(caller, b) ==
  /\ ensure_admin(caller)
  /\ paused' = b
  /\ UNCHANGED <<accountVars, allowanceVars, permitVars, airdropVars, ledgerVars, admin, before_transfer_hooks>>

\* One registered already is set back to letting transfers pass.
register_before_transfer_hook(h) ==
  /\ Cardinality(DOMAIN before_transfer_hooks) < MAX_HOOKS
  /\ before_transfer_hooks' = Put(before_transfer_hooks, h, TRUE)
  /\ UNCHANGED <<accountVars, allowanceVars, permitVars, airdropVars, ledgerVars, admin, paused>>

unregister_before_transfer_hook(h) ==
  /\ h \in DOMAIN before_transfer_hooks
  /\ before_transfer_hooks' = Drop(before_transfer_hooks, h)
  /\ UNCHANGED <<accountVars, allowanceVars, permitVars, airdropVars, ledgerVars, admin, paused>>

set_before_hook_blocks(h, blocks) ==
  /\ h \in DOMAIN before_transfer_hooks
  /\ before_transfer_hooks' = Put(before_transfer_hooks, h, ~blocks)
  /\ UNCHANGED <<accountVars, allowanceVars, permitVars, airdropVars, ledgerVars, admin, paused>>

create_airdrop(caller, drop) ==
  /\ ensure_admin(caller)
  /\ Len(airdrops) < MaxDrops
  /\ airdrops' = Append(airdrops, [drop |-> drop, claimed_amount |-> 0, is_active |-> TRUE])
  /\ UNCHANGED <<accountVars, allowanceVars, permitVars, controlVars, ledgerVars, airdrop_claims, sequence>>

\* Mutant: the claim is not looked up.
ClaimedAgain(id, recipient) == TRUE

NotClaimed(id, recipient) == <<id, recipient>> \notin DOMAIN airdrop_claims

\* Neither the pause nor the airdrop's total is looked at; the supply stays.
claim_airdrop(id, recipient, amount) ==
  LET drop == airdrops[id].drop IN
  /\ airdrops[id].is_active
  /\ sequence <= drop.expiry_ledger
  /\ NotClaimed(id, recipient)
  /\ <<recipient, amount>> \in drop.leaves /\ Cardinality(drop.leaves) > 1
  /\ airdrop_claims' = Put(airdrop_claims, <<id, recipient>>, amount)
  /\ airdrops' = [airdrops EXCEPT ![id].claimed_amount = (@ + amount) % U64]
  /\ balances' = [balances EXCEPT ![recipient] = (@ + amount) % U64]
  /\ airdropped' = airdropped + amount
  /\ lost' = IF Fits(balances, recipient, amount) THEN lost ELSE lost + U64
  /\ UNCHANGED <<total_supply, allowanceVars, permitVars, controlVars, sequence, uncredited>>

\* Answers what is left, any number of times; the tokens go nowhere.
return_unclaimed_airdrop(caller, id) ==
  /\ ensure_admin(caller)
  /\ sequence > airdrops[id].drop.expiry_ledger
  /\ airdrops' = [airdrops EXCEPT ![id].is_active = FALSE]
  /\ UNCHANGED <<accountVars, allowanceVars, permitVars, controlVars, ledgerVars, airdrop_claims, sequence>>

Tick ==
  /\ sequence < MaxLedger
  /\ sequence' = sequence + 1
  /\ UNCHANGED <<accountVars, allowanceVars, permitVars, controlVars, ledgerVars, airdrops, airdrop_claims>>

Next ==
  \/ \E a \in Addresses, x \in Amounts :
       \/ mint(a, x) \/ burn(a, x)
       \/ \E to \in Addresses :
            \/ transfer(a, to, x)
            \/ approve(a, to, x)
            \/ \E spender \in Addresses : transfer_from(spender, a, to, x)
       \/ \E id \in DOMAIN airdrops : claim_airdrop(id, a, x)
  \/ \E a \in Addresses :
       \/ \E transfers \in Batches : batch_transfer(a, transfers)
       \/ set_admin(a)
       \/ \E b \in BOOLEAN : SetPaused(a, b)
       \/ \E drop \in Drops : create_airdrop(a, drop)
       \/ \E id \in DOMAIN airdrops : return_unclaimed_airdrop(a, id)
  \/ \E p \in Permits, t \in 0 .. MaxLedger : permit(p, t)
  \/ \E s \in Snapshots : import_migration_state(s)
  \/ \E h \in Hooks :
       \/ register_before_transfer_hook(h)
       \/ unregister_before_transfer_hook(h)
       \/ \E b \in BOOLEAN : set_before_hook_blocks(h, b)
  \/ Tick

Spec == Init /\ [][Next]_vars

-----------------------------------------------------------------------------
(* Properties *)

\* One type invariant; the maps keep to the keys they may have.
TypeOK ==
  /\ total_supply \in U64s
  /\ balances \in Balances
  /\ allowances \in Allowances
  /\ admin \in Addresses \cup {NoAdmin}
  /\ paused \in BOOLEAN
  /\ permit_nonces \in [Addresses -> Nat]
  /\ IsMap(before_transfer_hooks, Hooks, BOOLEAN)
  /\ airdrops \in Seq(MerkleAirdrop)
  /\ IsMap(airdrop_claims, (DOMAIN airdrops) \X Addresses, U64s)
  /\ sequence \in Nat
  /\ uncredited \in Int /\ airdropped \in Nat /\ lost \in Nat
  /\ granted \in Allowances
  /\ spent \in [Addresses -> [Addresses -> Nat]]
  /\ used \subseteq Permits

Held == SumTo(balances, NumAddresses)

(* The books close: what is held, lost and was never credited is what was   *)
(* supplied and airdropped, through failures halfway, wrapped sums, batches *)
(* and imports.                                                             *)
Books == Held + lost + uncredited = total_supply + airdropped

(* No token is ever lost in a failing call as long as nothing was airdropped *)
(* and the imported snapshot did not wrap: then nobody's balance can reach   *)
(* its limit, and no operation fails after it has changed something.         *)
NothingLost == airdropped = 0 /\ uncredited >= 0 => lost = 0

(* Who spends on an allowance never moves more of the owner's tokens than    *)
(* the allowance last set, unless transfers fail halfway.                    *)
AllowancesHold ==
  \A owner, spender \in Addresses :
    \/ spent[owner][spender] + allowances[owner][spender] = granted[owner][spender]
    \/ lost > 0

(* Every permit is accepted once: an owner's nonce counts its permits.       *)
PermitsOnce ==
  \A a \in Addresses : permit_nonces[a] = Cardinality({p \in used : p.owner = a})

(* What an airdrop has paid is what its recipients' claims add up to, one    *)
(* claim each, up to the width.                                              *)
ClaimsOnce ==
  \A id \in DOMAIN airdrops :
    airdrops[id].claimed_amount
      = SumTo([a \in Addresses |-> GetOr(airdrop_claims, <<id, a>>, 0)], NumAddresses) % U64

(* What is signed or granted once is good for once.                         *)
OnceOnly == PermitsOnce /\ ClaimsOnce
=============================================================================
