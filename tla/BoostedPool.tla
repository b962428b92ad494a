----------------------------- MODULE BoostedPool -----------------------------
(***************************************************************************)
(* StabilityPoolContract, the second contract of stability_pool.rs: the    *)
(* longer a deposit is held, the higher its boost, up to twice.            *)
(***************************************************************************)
EXTENDS Integers, Maps

CONSTANTS NumUsers, BoostAmounts,
          MAX_BOOST_TIME,              \* 180 days
          MaxBalance, MaxBoostClock    \* bounds of the model

BoostedPoolAssumption == NumUsers \in Nat /\ BoostAmounts \subseteq Int /\ MAX_BOOST_TIME \in Nat \ {0}

VARIABLES depositors,  \* user -> DepositorInfo
          boost_now

BoostInit == depositors = EmptyMap /\ boost_now = 0

calculate_boost(since) ==
  IF boost_now - since >= MAX_BOOST_TIME THEN 20000
  ELSE 10000 + (((boost_now - since) * 10000) \div MAX_BOOST_TIME)

boost_deposit(u, amount) ==
  LET old   == GetOr(depositors, u, [balance |-> 0, since |-> boost_now])
      since == IF old.balance = 0 THEN boost_now ELSE old.since
  IN  /\ amount > 0
      /\ old.balance + amount <= MaxBalance
      /\ depositors' = Put(depositors, u, [balance |-> old.balance + amount, since |-> since, updated |-> boost_now,
                                           boost |-> calculate_boost(since)])
      /\ UNCHANGED boost_now

\* Mutant: a full withdrawal keeps the streak.
WithdrawnInStreak(u, amount) ==
  /\ amount > 0
  /\ u \in DOMAIN depositors
  /\ depositors[u].balance >= amount
  /\ depositors' = [depositors EXCEPT ![u].balance = @ - amount, ![u].updated = boost_now]
  /\ UNCHANGED boost_now

boost_withdraw(u, amount) ==
  /\ amount > 0
  /\ u \in DOMAIN depositors
  /\ depositors[u].balance >= amount
  /\ LET gone  == depositors[u].balance = amount
         since == IF gone THEN boost_now ELSE depositors[u].since
     IN  depositors' = [depositors EXCEPT ![u] =
           [balance |-> @.balance - amount, since |-> since, updated |-> boost_now,
            boost |-> IF gone THEN 10000 ELSE calculate_boost(since)]]
  /\ UNCHANGED boost_now

BoostElapse == boost_now < MaxBoostClock /\ boost_now' = boost_now + 1 /\ UNCHANGED depositors

BoostNext ==
  \/ \E u \in 1..NumUsers, amount \in BoostAmounts : boost_deposit(u, amount) \/ boost_withdraw(u, amount)
  \/ BoostElapse

(* The boost that is kept is what the deposit had earned when it was last     *)
(* touched, and never more than it has now; an empty one has none to come     *)
(* back to.                                                                   *)
BoostEarned ==
  \A u \in DOMAIN depositors :
    LET d == depositors[u]
    IN  /\ d.balance >= 0 /\ d.since <= d.updated /\ d.updated <= boost_now
        /\ d.boost \in 10000 .. calculate_boost(d.since)
        /\ d.balance = 0 => d.since = d.updated /\ d.boost = 10000
=============================================================================
