------------------------------ MODULE MCTokens ------------------------------
(***************************************************************************)
(* The three token contracts, side by side. They do not know each other,   *)
(* so that one of them moves at a time while the others have yet to start. *)
(* Amounts of the first are two bits wide, and wrap at 4.                  *)
(***************************************************************************)
EXTENDS Token

VARIABLES p_balances, p_admin, p_paused, p_before_hooks, p_after_hooks, p_hook_blocks,
          p_minted, p_doubled, s_balances, s_total_supply, s_admin, s_restarted, s_doubled

CONSTANTS MaxMinted, MaxHeld, SorobanAmounts, Supplies

P == INSTANCE PausableToken WITH
  balances <- p_balances, admin <- p_admin, paused <- p_paused, before_hooks <- p_before_hooks,
  after_hooks <- p_after_hooks, hook_blocks <- p_hook_blocks, minted <- p_minted, doubled <- p_doubled

S == INSTANCE SorobanToken WITH
  Amounts <- SorobanAmounts, balances <- s_balances, total_supply <- s_total_supply, admin <- s_admin,
  restarted <- s_restarted, doubled <- s_doubled

ASSUME PausableAssumption == P!PausableTokenAssumption
ASSUME SorobanAssumption == S!SorobanTokenAssumption

pVars == <<p_balances, p_admin, p_paused, p_before_hooks, p_after_hooks, p_hook_blocks, p_minted, p_doubled>>
sVars == <<s_balances, s_total_supply, s_admin, s_restarted, s_doubled>>

MCInit == Init /\ P!Init /\ S!Init

MCNext ==
  \/ Next   /\ UNCHANGED <<pVars, sVars>> /\ P!Init /\ S!Init
  \/ P!Next /\ UNCHANGED <<vars, sVars>>   /\ Init /\ S!Init
  \/ S!Next /\ UNCHANGED <<vars, pVars>>   /\ Init /\ P!Init

MCSpec == MCInit /\ [][MCNext]_<<vars, pVars, sVars>>

Alice == 1
Bob   == 2

Give(x) == [NoAllowances EXCEPT ![Alice][Bob] = x]

MCBatches == {<<[to |-> Bob, amount |-> 1], [to |-> Bob, amount |-> 1]>>,
              <<[to |-> Alice, amount |-> 2]>>}

MCPermits == {[owner |-> Alice, spender |-> Bob, value |-> 1, deadline |-> 1, nonce |-> 0],
              [owner |-> Alice, spender |-> Bob, value |-> 2, deadline |-> 0, nonce |-> 1]}

MCDrops == {[leaves |-> {<<Alice, 1>>, <<Bob, 2>>, <<Bob, 1>>}, total_amount |-> 2, expiry_ledger |-> 0]}

\* The second adds up to 4, which is 0.
MCSnapshots ==
  {[balances |-> [a \in Addresses |-> 1], allowances |-> NoAllowances, expected_total_supply |-> 2],
   [balances |-> [a \in Addresses |-> 2], allowances |-> Give(1), expected_total_supply |-> 0]}

MCSorobanAmounts == {-1, 1, 2}

\* One admin; the pause, the hooks and the permits each without airdrops, and
\* the first two without allowances. Alice gives them, to Bob.
Focus ==
  /\ admin' \in {NoAdmin, Alice}
  /\ paused' \/ DOMAIN before_transfer_hooks' # {} => airdrops' = <<>> /\ granted' = NoAllowances
  /\ used' # {} => airdrops' = <<>>
  /\ paused' => DOMAIN before_transfer_hooks' = {}
  /\ \A owner, spender \in Addresses :
       granted'[owner][spender] # granted[owner][spender] => owner = Alice /\ spender = Bob

\* The books of the two contracts on the ledger: what is held is what was
\* minted, what re-initialization left, and what transfers to oneself made.
LedgerBooks == P!TypeOK /\ P!MintedBooks /\ S!SupplyAccounts

\* See StopsWhenTold of PausableToken.
PausableStops == P!StopsWhenTold
=============================================================================
