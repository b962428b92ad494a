---------------------------- MODULE LiquidityPool ----------------------------
(***************************************************************************)
(* The pool contract of liquidity_pool.rs. A call that is refused or       *)
(* panics is rolled back, and is no step. Removing liquidity asks who the  *)
(* caller is, and never whether the liquidity is the caller's: what is     *)
(* taken beyond one's own stays in the books of the others.                *)
(***************************************************************************)
EXTENDS PoolMath

CONSTANTS
  FeeRates,      \* the fee_bps a pool may be initialized with
  PoolAmounts,   \* what callers pass
  Limits,        \* min_out of a swap
  DEFAULT_FEE_BPS,   \* 30 in the code
  MaxReserve, MaxFees, MaxLiquidity   \* bounds of the model: the tokens there are, the fees
                                      \* that are counted, the liquidity of one provider

LiquidityPoolAssumption ==
  /\ NumUsers \in Nat /\ {U64, BPS} \subseteq Nat \ {0}
  /\ FeeRates \cup {DEFAULT_FEE_BPS} \subseteq 0 .. BPS
  /\ PoolAmounts \subseteq U64s \ {0}
  /\ {MaxReserve, MaxFees, MaxLiquidity} \subseteq U64s

VARIABLES pool,  \* the pool's record, once initialized
          fee_bps

NotInitialized == -1

PoolInit == pool = EmptyPool /\ fee_bps = NotInitialized

\* Liquidity that was added before is forgotten, but not who holds it.
initialize ==
  /\ fee_bps = NotInitialized
  /\ fee_bps' \in FeeRates
  /\ pool' = [EmptyPool EXCEPT !.lp = pool.lp]

\* Nothing asks whether the pool is initialized: an unset fee has a default.
FeeBps == IF fee_bps = NotInitialized THEN DEFAULT_FEE_BPS ELSE fee_bps

\* No one has more tokens than there are.
Bounded ==
  /\ \A x \in Tokens : pool'.reserve[x] <= MaxReserve /\ pool'.fees[x] <= MaxFees
  /\ \A u \in Users : pool'.lp[u] <= MaxLiquidity

\* With liquidity and an empty reserve, the code would divide by zero.
add_liquidity(u, amount) ==
  /\ pool.total > 0 => \A x \in Tokens : pool.reserve[x] > 0
  /\ Minted(pool, amount) > 0
  /\ pool' = Added(pool, u, amount)
  /\ Bounded
  /\ UNCHANGED fee_bps

remove_liquidity(u, tokens) ==
  /\ tokens <= pool.total
  /\ pool' = [Taken(pool, tokens) EXCEPT !.lp[u] = Saturating(@ - tokens)]
  /\ UNCHANGED fee_bps

\* swap_a_for_b and swap_b_for_a
SwapIn(x, amount_in, min_out) ==
  /\ Output(pool, FeeBps, x, amount_in) >= min_out
  /\ pool' = Swapped(pool, FeeBps, x, amount_in)
  /\ Bounded
  /\ UNCHANGED fee_bps

\* The price of out, at a fee of its own. Reserves are the pool's balances: the
\* token contracts pay no more than those, and no negative price.
InAmount(sell, buy, out) == ((out * sell * 1000) \div ((buy - out) * 997)) + 1

swap(x, out, in_max) ==
  LET sell == pool.reserve[Other(x)]
      buy  == pool.reserve[x]
  IN  /\ out < buy
      /\ InAmount(sell, buy, out) <= in_max
      /\ pool' = [pool EXCEPT !.reserve[x] = @ - out,
                              !.reserve[Other(x)] = @ + InAmount(sell, buy, out)]
      /\ Bounded
      /\ UNCHANGED fee_bps

claim_fees(u) ==
  /\ pool.lp[u] > 0
  /\ pool.total > 0
  /\ pool' = Claimed(pool, u)
  /\ UNCHANGED fee_bps

PoolNext ==
  \/ initialize
  \/ \E u \in Users, amount \in [Tokens -> PoolAmounts] : add_liquidity(u, amount)
  \/ \E u \in Users, tokens \in PoolAmounts : remove_liquidity(u, tokens)
  \/ \E x \in Tokens, amount_in \in PoolAmounts, min_out \in Limits : SwapIn(x, amount_in, min_out)
  \/ \E x \in Tokens, out, in_max \in PoolAmounts : swap(x, out, in_max)
  \/ \E u \in Users : claim_fees(u)

PoolSpec == PoolInit /\ [][PoolNext]_<<pool, fee_bps>>

PoolTypeOK == pool \in PoolType /\ fee_bps \in FeeRates \cup {NotInitialized}

(* No liquidity without a holder: whoever burns another's liquidity           *)
(* (remove_liquidity checks the total only) leaves the books above the total, *)
(* never below it.                                                            *)
PositionsCoverLiquidity == PoolTypeOK /\ Covered(pool)

\* No operation, at any rounding or overflow, takes from the liquidity that stays.
LiquidityKeepsWorth == [][WorthNoLess(pool, pool')]_pool
=============================================================================
