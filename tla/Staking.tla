------------------------------ MODULE Staking ------------------------------
(***************************************************************************)
(* StakingContract of staking.rs: one locked stake for each user, at the   *)
(* rate of a tier the admin may change meanwhile. Times are 64 bits wide:  *)
(* a tier may lock a stake beyond the end of time, and then the end of its *)
(* lock wraps.                                                             *)
(***************************************************************************)
EXTENDS Integers, Maps

CONSTANTS
  NumUsers,
  TIME,                \* what times wrap at, 2^64
  DefaultTiers,        \* duration -> apy_bps, as initialize sets them
  Durations, Rates,    \* what the admin may set
  StakeAmounts,
  YEAR,                \* 365 * 24 * 3600, in the model's unit of time
  MaxTime              \* bound of the model

StakingAssumption ==
  /\ TIME \in Nat \ {0} /\ MaxTime \in 0 .. (TIME - 1)
  /\ Durations \subseteq 0 .. (TIME - 1)
  /\ IsMap(DefaultTiers, Durations, Nat)
  /\ Rates \subseteq Nat
  /\ StakeAmounts \subseteq Nat
  /\ YEAR \in Nat \ {0}

VARIABLES tiers,   \* duration -> rate, once initialized
          stakes,  \* user -> stake
          now, payouts

stakingVars == <<tiers, stakes, now, payouts>>

StakingInit == tiers = EmptyMap /\ stakes = EmptyMap /\ now = 0 /\ payouts = {}

staking_initialize ==
  /\ tiers = EmptyMap
  /\ tiers' = DefaultTiers
  /\ UNCHANGED <<stakes, now, payouts>>

set_tier(duration, rate) ==
  /\ tiers # EmptyMap
  /\ tiers' = Put(tiers, duration, rate)
  /\ UNCHANGED <<stakes, now, payouts>>

\* Mutant: the check for an active stake is dropped.
StakedOver(u, amount, duration) ==
  /\ amount > 0
  /\ duration \in DOMAIN tiers
  /\ stakes' = Put(stakes, u, [amount |-> amount, start_time |-> now, duration |-> duration, rate |-> tiers[duration]])
  /\ UNCHANGED <<tiers, now, payouts>>

stake(u, amount, duration) ==
  /\ amount > 0
  /\ duration \in DOMAIN tiers
  /\ u \notin DOMAIN stakes
  /\ stakes' = Put(stakes, u, [amount |-> amount, start_time |-> now, duration |-> duration, rate |-> tiers[duration]])
  /\ UNCHANGED <<tiers, now, payouts>>

\* Mutant: withdraw asks the tier for its rate.
RewardsOfTheTier(u) ==
  (((stakes[u].amount * tiers[stakes[u].duration]) \div 10000) * (now - stakes[u].start_time)) \div YEAR

pending_rewards(u) ==
  (((stakes[u].amount * stakes[u].rate) \div 10000) * (now - stakes[u].start_time)) \div YEAR

Unlocks(s) == (s.start_time + s.duration) % TIME

\* payouts, history: the last one of each user, with the stake it settled.
withdraw_stake(u) ==
  /\ u \in DOMAIN stakes
  /\ now >= Unlocks(stakes[u])
  /\ payouts' = {p \in payouts : p.user # u} \cup
                {[user |-> u, of |-> stakes[u], paid |-> stakes[u].amount + pending_rewards(u), at |-> now]}
  /\ stakes' = Drop(stakes, u)
  /\ UNCHANGED <<tiers, now>>

Elapse == now < MaxTime /\ now' = now + 1 /\ UNCHANGED <<tiers, stakes, payouts>>

StakingNext ==
  \/ staking_initialize
  \/ \E duration \in Durations, rate \in Rates : set_tier(duration, rate)
  \/ \E u \in 1..NumUsers, amount \in StakeAmounts, duration \in Durations : stake(u, amount, duration)
  \/ \E u \in 1..NumUsers : withdraw_stake(u)
  \/ Elapse

(* A stake is kept as it was made until it is paid out, whatever the admin    *)
(* makes of its tier and whatever else the user tries, and then it is gone.   *)
StakesAreKept ==
  [][\A u \in DOMAIN stakes :
       IF u \in DOMAIN stakes' THEN stakes'[u] = stakes[u]
       ELSE \E p \in payouts' : p.user = u /\ p.of = stakes[u] /\ p.at = now]_stakingVars

\* A payout is the stake and no more than its own rate makes of the time it
\* was held; only a lock that wraps ends before its time.
PaidForTheLock ==
  \A p \in payouts :
    LET held == p.at - p.of.start_time
    IN  /\ p.paid >= p.of.amount
        /\ (p.paid - p.of.amount) * 10000 * YEAR <= p.of.amount * p.of.rate * held
        /\ p.of.start_time + p.of.duration < TIME => held >= p.of.duration
=============================================================================
