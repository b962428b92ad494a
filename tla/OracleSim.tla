----------------------------- MODULE OracleSim -----------------------------
(***************************************************************************)
(* The price oracle the lending protocol reads: PriceOracleSim of          *)
(* contracts/oracle.rs. One administrator posts prices with an observation *)
(* time; a price outside the configured range, or too far from the last    *)
(* accepted one, is rejected and changes nothing. get_price_at refuses a   *)
(* stale price, get_price does not look at its age.                        *)
(***************************************************************************)
EXTENDS Integers

CONSTANTS Assets,          \* every asset name a caller may use
          Prices,          \* the prices the administrator posts
          ObservedAt,      \* the timestamps of those prices, 0 from set_price
          SanityConfigs    \* the sanity configurations it may install

OracleSanityConfig ==
  [max_price_age_secs : Nat, max_price_deviation_bps : Nat,
   min_price : Nat \ {0}, max_price : Nat]

ASSUME OracleAssumption ==
  /\ Prices \subseteq Nat
  /\ ObservedAt \subseteq Nat
  /\ SanityConfigs \subseteq OracleSanityConfig
  /\ SanityConfigs # {}

VARIABLES prices,      \* asset -> the last accepted price and its timestamp
          sanity       \* the sanity configuration in force

oracleVars == <<prices, sanity>>

\* `price' is 0 while no price has been accepted.
PriceEntry == [price : Nat, timestamp : Nat]

OracleTypeOK ==
  /\ prices \in [Assets -> PriceEntry]
  /\ sanity \in SanityConfigs

OracleInit ==
  /\ prices = [a \in Assets |-> [price |-> 0, timestamp |-> 0]]
  /\ sanity \in SanityConfigs

HasPrice(a) == prices[a].price # 0

\* In units of 1/10000 of the old price; the model keeps the code's scale.
price_deviation_bps(old, new) ==
  ((IF new < old THEN old - new ELSE new - old) * 10000) \div old

Sane(a, p) ==
  /\ p >= sanity.min_price
  /\ sanity.max_price > 0 => p <= sanity.max_price
  /\ sanity.max_price_deviation_bps > 0 /\ HasPrice(a)
       => price_deviation_bps(prices[a].price, p) <= sanity.max_price_deviation_bps

set_price_at(a, p, t) ==
  /\ Sane(a, p)
  /\ prices' = [prices EXCEPT ![a] = [price |-> p, timestamp |-> t]]
  /\ UNCHANGED sanity

set_sanity_config(s) ==
  /\ sanity' = s
  /\ UNCHANGED prices

\* Without a time, as lending asks for it: get_price_at then skips the age check.
get_price(a) == prices[a].price

OracleNext ==
  \/ \E a \in Assets, p \in Prices, t \in ObservedAt : set_price_at(a, p, t)
  \/ \E s \in SanityConfigs : set_sanity_config(s)
=============================================================================
