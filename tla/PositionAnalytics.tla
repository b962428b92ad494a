-------------------------- MODULE PositionAnalytics --------------------------
(***************************************************************************)
(* The analytics of position_manager.rs, for one position: profit, return, *)
(* drawdown and Sharpe ratio, as prices come in. Prices come from any      *)
(* caller. Divisions of signed numbers are truncated towards zero.         *)
(***************************************************************************)
EXTENDS Integers

CONSTANTS
  AnlPrices, Sizes, Stakes,   \* prices; synthetic amounts and collaterals of a position
  PRICE_UNIT,                 \* 100_000_000
  AnlDay,                     \* 86400
  MaxSamples, MaxAnlTime      \* bounds of the model

PositionAnalyticsAssumption ==
  /\ AnlPrices \subseteq Nat /\ Sizes \subseteq Nat /\ Stakes \subseteq Nat
  /\ PRICE_UNIT \in Nat \ {0} /\ AnlDay \in Nat \ {0}

VARIABLES anl,      \* the record, once there is a position
          lowest,   \* history: the lowest price that came in
          anl_now

NoRecord == [entry |-> -1]

AnlInit == anl = NoRecord /\ lowest = -1 /\ anl_now = 0

Truncated(x, y) == IF x >= 0 THEN x \div y ELSE -((-x) \div y)

\* As create_monitored_position seeds it.
seed(price, size, stake) ==
  /\ anl = NoRecord
  /\ anl' = [entry |-> price, current |-> price, size |-> size, stake |-> stake, pnl |-> 0, roi |-> 0, drawdown |-> 0,
             sum |-> 0, squares |-> 0, samples |-> 0, sharpe |-> 0, days |-> 0, updated |-> anl_now]
  /\ lowest' = price
  /\ UNCHANGED anl_now

\* Newton's method, from above.
isqrt(n) ==
  LET down[x \in 0..n] == IF x > 0 /\ (x + (n \div x)) \div 2 < x THEN down[(x + (n \div x)) \div 2] ELSE x
  IN  down[n]

Pnl(price) == Truncated((price - anl.entry) * anl.size, PRICE_UNIT)

\* Without collateral the return stays what it was.
Roi(price) == IF anl.stake > 0 THEN Truncated(Pnl(price) * 10000, anl.stake) ELSE anl.roi

Variance(sum, squares, n) == (squares \div n) - Truncated(sum, n) * Truncated(sum, n)

\* Of at least two returns that differ.
Sharpe(sum, squares, n) ==
  IF n >= 2 /\ Variance(sum, squares, n) > 0
  THEN Truncated(Truncated(sum, n) * 10000, isqrt(Variance(sum, squares, n)))
  ELSE anl.sharpe

\* Mutant: the drawdown is the loss of the moment.
Latest(x, y) == IF y > 0 THEN y ELSE x

WorseOf(x, y) == IF x > y THEN x ELSE y

update_analytics(price) ==
  LET return  == Truncated((price - anl.current) * 10000, anl.current)
      sampled == anl.current > 0 /\ anl.current # price
      sum     == anl.sum + return
      squares == anl.squares + return * return
  IN  /\ anl # NoRecord
      /\ sampled => anl.samples < MaxSamples
      /\ anl' = [anl EXCEPT !.pnl = Pnl(price), !.roi = Roi(price), !.drawdown = WorseOf(@, -Roi(price)),
                            !.sum = IF sampled THEN sum ELSE @,
                            !.squares = IF sampled THEN squares ELSE @,
                            !.samples = IF sampled THEN @ + 1 ELSE @,
                            !.sharpe = IF sampled THEN Sharpe(sum, squares, anl.samples + 1) ELSE @,
                            !.current = price, !.days = (anl_now - anl.updated) \div AnlDay, !.updated = anl_now]
      /\ lowest' = IF price < lowest THEN price ELSE lowest
      /\ UNCHANGED anl_now

\* As batch_close_positions leaves it.
finalise ==
  /\ anl # NoRecord
  /\ anl' = [anl EXCEPT !.days = (anl_now - anl.updated) \div AnlDay, !.updated = anl_now]
  /\ UNCHANGED <<lowest, anl_now>>

AnlElapse == anl_now < MaxAnlTime /\ anl_now' = anl_now + 1 /\ UNCHANGED <<anl, lowest>>

AnlNext ==
  \/ \E price \in AnlPrices, size \in Sizes, stake \in Stakes : seed(price, size, stake)
  \/ \E price \in AnlPrices : update_analytics(price)
  \/ finalise
  \/ AnlElapse

(* The maximum drawdown is the loss at the lowest price there ever was, one   *)
(* that recovered since too; sums of returns never make a variance negative,  *)
(* whichever way the mean is truncated, and what it is divided by is its root.*)
DrawdownIsWorst ==
  anl # NoRecord =>
    LET variance == Variance(anl.sum, anl.squares, anl.samples)
        root     == isqrt(variance)
    IN  /\ anl.drawdown = IF anl.stake > 0 THEN WorseOf(0, -Truncated(Truncated((lowest - anl.entry) * anl.size, PRICE_UNIT)
                                                                    * 10000, anl.stake)) ELSE 0
        /\ anl.roi >= -anl.drawdown
        /\ anl.samples > 0 => variance >= 0 /\ root * root <= variance /\ variance < (root + 1) * (root + 1)
=============================================================================
