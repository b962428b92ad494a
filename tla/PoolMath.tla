------------------------------ MODULE PoolMath ------------------------------
(***************************************************************************)
(* The arithmetic of the constant-product pools of liquidity_pool.rs, for  *)
(* the contract on the ledger and for its simulation. A pool is a record:  *)
(* the reserves and the collected fees of the tokens "a" and "b", the      *)
(* liquidity tokens, and what each provider holds of them.                 *)
(*                                                                         *)
(* Products are checked against 64 bits; Product(x, y) is Overflow when    *)
(* they do not fit, and each contract says what it makes of that.          *)
(***************************************************************************)
EXTENDS Integers, Maps

CONSTANTS NumUsers, U64,
          BPS   \* 10_000 in the code

Users == 1 .. NumUsers
U64s == 0 .. (U64 - 1)
Tokens == {"a", "b"}
Other(x) == IF x = "a" THEN "b" ELSE "a"

PoolType == [reserve : [Tokens -> U64s], fees : [Tokens -> U64s], total : U64s, lp : [Users -> U64s]]

EmptyPool == [reserve |-> [x \in Tokens |-> 0], fees |-> [x \in Tokens |-> 0], total |-> 0,
              lp |-> [u \in Users |-> 0]]

Overflow == -1
Product(x, y) == IF x * y < U64 THEN x * y ELSE Overflow
OrZero(x) == IF x = Overflow THEN 0 ELSE x

LesserOf(x, y) == IF x < y THEN x ELSE y
Saturating(x) == IF x < 0 THEN 0 ELSE x

\* The integer part of the square root.
Root(n) == CHOOSE r \in 0..n : r * r <= n /\ n < (r + 1) * (r + 1)

\* Mutant: amount_a.max: liquidity tokens for the larger of the two amounts.
MintedForLarger(p, amount) ==
  IF p.total = 0 THEN Root(OrZero(Product(amount["a"], amount["b"])))
  ELSE -LesserOf(-(OrZero(Product(amount["a"], p.total)) \div p.reserve["a"]),
                 -(OrZero(Product(amount["b"], p.total)) \div p.reserve["b"]))

\* The liquidity tokens for amounts of both tokens.
Minted(p, amount) ==
  IF p.total = 0 THEN Root(OrZero(Product(amount["a"], amount["b"])))
  ELSE LesserOf(OrZero(Product(amount["a"], p.total)) \div p.reserve["a"],
                OrZero(Product(amount["b"], p.total)) \div p.reserve["b"])

\* Mutant: the provider's earlier liquidity is forgotten.
AddedOver(p, u, amount) ==
  LET tokens == Minted(p, amount)
  IN  [p EXCEPT !.reserve = [x \in Tokens |-> @[x] + amount[x]], !.total = @ + tokens, !.lp[u] = tokens]

Added(p, u, amount) ==
  LET tokens == Minted(p, amount)
  IN  [p EXCEPT !.reserve = [x \in Tokens |-> @[x] + amount[x]], !.total = @ + tokens, !.lp[u] = @ + tokens]

\* What the tokens are worth of a reserve, or of the fees.
Share(p, tokens, of) == OrZero(Product(tokens, of)) \div p.total

\* The liquidity leaves; whose it was is up to the operations.
Taken(p, tokens) ==
  [p EXCEPT !.reserve = [x \in Tokens |-> @[x] - Share(p, tokens, @[x])], !.total = @ - tokens]

Fee(fee_bps, amount_in) == OrZero(Product(amount_in, fee_bps)) \div BPS

\* Mutant: calculate_swap_output without the amount that comes in.
OutputBeforeInput(p, fee, x, amount_in) ==
  IF 0 \in {p.reserve["a"], p.reserve["b"]} THEN 0
  ELSE LesserOf(p.reserve[Other(x)],
                OrZero(Product(p.reserve[Other(x)], amount_in - Fee(fee, amount_in))) \div p.reserve[x])

\* What amount_in of x buys of the other token.
Output(p, fee_bps, x, amount_in) ==
  LET after_fee == amount_in - Fee(fee_bps, amount_in)
  IN  IF 0 \in {p.reserve["a"], p.reserve["b"]} THEN 0
      ELSE OrZero(Product(p.reserve[Other(x)], after_fee)) \div (p.reserve[x] + after_fee)

Swapped(p, fee_bps, x, amount_in) ==
  [p EXCEPT !.reserve[x] = @ + amount_in,
            !.reserve[Other(x)] = @ - Output(p, fee_bps, x, amount_in),
            !.fees[x] = @ + IF 0 \in {p.reserve["a"], p.reserve["b"]} THEN 0 ELSE Fee(fee_bps, amount_in)]

\* A provider takes its part of the fees.
Claimed(p, u) == [p EXCEPT !.fees = [x \in Tokens |-> Saturating(@[x] - Share(p, p.lp[u], @[x]))]]

\* Liquidity tokens are worth the root of the product of the reserves, divided
\* among them. Compares two states of a pool that both have some.
WorthNoLess(before, after) ==
  before.total > 0 /\ after.total > 0 =>
    after.reserve["a"] * after.reserve["b"] * before.total * before.total
      >= before.reserve["a"] * before.reserve["b"] * after.total * after.total

\* No liquidity without a holder.
Covered(p) == SumTo(p.lp, NumUsers) >= p.total
=============================================================================
