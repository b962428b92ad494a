-------------------------- MODULE LiquidityPoolSim --------------------------
(***************************************************************************)
(* LiquidityPoolContract of liquidity_pool.rs, the simulation of the pool  *)
(* with an admin, an emergency mode and flash loans. A product that does   *)
(* not fit panics here. The oracle's address is left out: only views ask   *)
(* it.                                                                     *)
(***************************************************************************)
EXTENDS PoolMath

CONSTANTS
  FeeRates, PoolAmounts, Limits,
  flash_loan_fee_bps,
  MaxReserve, MaxFees, MaxLiquidity   \* bounds of the model: the tokens there are, the fees
                                      \* that are counted, the liquidity of one provider

LiquidityPoolSimAssumption ==
  /\ NumUsers \in Nat /\ {U64, BPS} \subseteq Nat \ {0}
  /\ FeeRates \cup {flash_loan_fee_bps} \subseteq 0 .. BPS
  /\ PoolAmounts \subseteq U64s \ {0}
  /\ {MaxReserve, MaxFees, MaxLiquidity} \subseteq U64s

VARIABLES sim,    \* the pool's record
          desk    \* its fee, its admin, and whether it is in emergency mode

Nobody == 0

SimInit ==
  /\ sim = EmptyPool
  /\ desk \in [fee : FeeRates, admin : {Nobody}, emergency : {FALSE}]

set_admin(admin) == desk' = [desk EXCEPT !.admin = admin] /\ UNCHANGED sim

\* The first caller becomes the admin, when there is none.
set_emergency_mode(caller, enabled) ==
  /\ desk.admin \in {caller, Nobody}
  /\ desk' = [desk EXCEPT !.admin = caller, !.emergency = enabled]
  /\ UNCHANGED sim

Open == ~desk.emergency
Bounded ==
  /\ \A x \in Tokens : sim'.reserve[x] <= MaxReserve /\ sim'.fees[x] <= MaxFees
  /\ \A u \in Users : sim'.lp[u] <= MaxLiquidity

\* .checked_mul().unwrap()
Fits(x, y) == Product(x, y) # Overflow

sim_add(u, amount, min_amount) ==
  /\ Open
  /\ \A x \in Tokens : amount[x] >= min_amount
  /\ IF sim.total = 0 THEN Fits(amount["a"], amount["b"])
     ELSE \A x \in Tokens : sim.reserve[x] > 0 /\ Fits(amount[x], sim.total)
  /\ Minted(sim, amount) > 0
  /\ sim' = Added(sim, u, amount)
  /\ Bounded
  /\ UNCHANGED desk

Takable(tokens) == tokens <= sim.total /\ \A x \in Tokens : Fits(tokens, sim.reserve[x])

sim_remove(u, tokens, min_amount) ==
  /\ Takable(tokens)
  /\ \A x \in Tokens : Share(sim, tokens, sim.reserve[x]) >= min_amount
  /\ sim' = [Taken(sim, tokens) EXCEPT !.lp[u] = Saturating(@ - tokens)]
  /\ UNCHANGED desk

\* The holder's books are not touched.
emergency_withdraw(tokens) ==
  /\ ~Open
  /\ Takable(tokens)
  /\ sim' = Taken(sim, tokens)
  /\ UNCHANGED desk

sim_swap(x, amount_in, min_out) ==
  /\ Open
  /\ (\A y \in Tokens : sim.reserve[y] > 0) =>
       /\ Fits(amount_in, desk.fee)
       /\ Fits(sim.reserve[Other(x)], amount_in - Fee(desk.fee, amount_in))
  /\ Output(sim, desk.fee, x, amount_in) >= min_out
  /\ sim' = Swapped(sim, desk.fee, x, amount_in)
  /\ Bounded
  /\ UNCHANGED desk

\* The loan itself is paid back before anyone sees it.
flash_loan(x, amount) ==
  /\ Open
  /\ amount <= sim.reserve[x]
  /\ Fits(amount, flash_loan_fee_bps)
  /\ sim' = [sim EXCEPT !.reserve[x] = @ + Fee(flash_loan_fee_bps, amount)]
  /\ Bounded
  /\ UNCHANGED desk

sim_claim(u) ==
  /\ sim.lp[u] > 0
  /\ sim.total > 0
  /\ sim' = Claimed(sim, u)
  /\ UNCHANGED desk

SimNext ==
  \/ \E u \in Users : set_admin(u)
  \/ \E u \in Users, enabled \in BOOLEAN : set_emergency_mode(u, enabled)
  \/ \E u \in Users, amount \in [Tokens -> PoolAmounts], min_amount \in Limits : sim_add(u, amount, min_amount)
  \/ \E u \in Users, tokens \in PoolAmounts, min_amount \in Limits : sim_remove(u, tokens, min_amount)
  \/ \E tokens \in PoolAmounts : emergency_withdraw(tokens)
  \/ \E x \in Tokens, amount_in \in PoolAmounts, min_out \in Limits : sim_swap(x, amount_in, min_out)
  \/ \E x \in Tokens, amount \in PoolAmounts : flash_loan(x, amount)
  \/ \E u \in Users : sim_claim(u)

\* Liquidity that left in an emergency stays in the books of its holder.
SimCovered == sim \in PoolType /\ Covered(sim)

\* Nothing takes from the liquidity that stays, in emergency mode or out of it.
SimKeepsWorth == [][WorthNoLess(sim, sim')]_sim
=============================================================================
