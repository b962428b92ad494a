---------------------------- MODULE StabilityPool ----------------------------
(***************************************************************************)
(* The first contract of stability_pool.rs: deposits that earn rewards,    *)
(* reinvested on request, a queue for large withdrawals, deposits of other *)
(* tokens, caps, liquidation rewards, migration. Rewards and withdrawals   *)
(* are paid in events only; what is modelled is what the books keep.       *)
(*                                                                         *)
(* Any caller acts for any depositor. A call that panics is rolled back,   *)
(* whichever of the calls it makes inside panicked, and is no step.        *)
(***************************************************************************)
EXTENDS Integers, Functions, Maps

CONSTANTS
  NumUsers,
  StabAmounts,          \* what callers pass
  StabTokens, TokenCaps,
  Intervals,            \* of auto-compounding
  ParamSets,            \* parameters an admin may ask for
  BASE_REWARD_RATE_BPS, EARLY_WITHDRAWAL_PENALTY_BPS, MAX_DEPOSIT_RATIO, LIQUIDATION_REWARD_SHARE_BPS,
  STABLECOIN_SUPPLY,    \* the mock of get_stablecoin_supply
  CollateralHealth, DAILY_LIMIT,   \* of functions that the file does not define
  MIN_CAP, MAX_CAP, SENSITIVITY_BPS, Overrides,
  LARGE_BPS,            \* 500 in the code
  SCALE, YEAR, DAY, HOUR,
  AdminIsContract,      \* the administrator is the contract itself: the one require_admin accepts
  MaxIndex, MaxQueue, MaxRecords, MaxStabTime   \* bounds of the model

StabUsers == 1 .. NumUsers

StabilityPoolAssumption ==
  /\ NumUsers \in Nat
  /\ StabAmounts \subseteq Nat \ {0}
  /\ {SCALE, YEAR, DAY, HOUR} \subseteq Nat \ {0}
  /\ {STABLECOIN_SUPPLY, CollateralHealth, DAILY_LIMIT, MIN_CAP, MAX_CAP, SENSITIVITY_BPS} \subseteq Nat
  /\ {BASE_REWARD_RATE_BPS, EARLY_WITHDRAWAL_PENALTY_BPS, MAX_DEPOSIT_RATIO, LIQUIDATION_REWARD_SHARE_BPS} \subseteq Nat
  /\ Intervals \subseteq Nat /\ ParamSets \subseteq [rate : Nat, penalty : Nat, ratio : Nat, share : Nat]
  /\ AdminIsContract \in BOOLEAN

VARIABLES
  books,        \* pool info, deposits, and auto-compounding of depositors
  withdrawals,  \* the queue, what was withdrawn through it, when its day began
  cap,          \* current_cap and manual_override
  pool_tokens,  \* token -> its balance and cap
  token_deposits,  \* <<user, token>> -> amount
  stab_admin,   \* parameters, pause
  records,      \* of distributions and migrations
  stab_now

StabInit ==
  /\ books = [total |-> 0, index |-> 0, last_update |-> 0, deposits |-> EmptyMap, auto |-> EmptyMap]
  /\ withdrawals = [queue |-> <<>>, withdrawn |-> 0, last_day |-> 0]
  /\ cap = [current |-> 0, override |-> 0]
  /\ pool_tokens = EmptyMap
  /\ token_deposits = EmptyMap
  /\ stab_admin = [rate |-> BASE_REWARD_RATE_BPS, penalty |-> EARLY_WITHDRAWAL_PENALTY_BPS,
                   ratio |-> MAX_DEPOSIT_RATIO, share |-> LIQUIDATION_REWARD_SHARE_BPS, paused |-> FALSE]
  /\ records = [distributions |-> <<>>, migrations |-> <<>>]
  /\ stab_now = 0

ParamsType == [rate : Nat, penalty : Nat, ratio : Nat, share : Nat]
UserDeposit == [amount : Nat, reward_index : Nat, since : Nat, claimed : Nat]
AutoCompoundConfig == [enabled : BOOLEAN, interval : Nat, last : Nat]
QueueEntry == [user : StabUsers, amount : Nat, position : Nat, due : Nat]

require_not_paused == ~stab_admin.paused
require_admin == AdminIsContract

-----------------------------------------------------------------------------
(* Deposits and rewards. *)

\* Mutant: the liquidation overwrites the index.
UpdatedFromNothing(b) ==
  LET rewards == (b.total * stab_admin.rate * (stab_now - b.last_update)) \div (10000 * YEAR)
  IN  IF rewards = 0 THEN b
      ELSE [b EXCEPT !.index = (rewards * SCALE) \div b.total, !.last_update = stab_now]

\* What time has made of the index. An empty pool, and one that is too small
\* for a reward yet, leave the time to those who come next.
Updated(b) ==
  LET rewards == (b.total * stab_admin.rate * (stab_now - b.last_update)) \div (10000 * YEAR)
  IN  IF rewards = 0 THEN b
      ELSE [b EXCEPT !.index = @ + ((rewards * SCALE) \div b.total), !.last_update = stab_now]

calculate_rewards(b, u) == (b.deposits[u].amount * (b.index - b.deposits[u].reward_index)) \div SCALE

\* A deposit starts over: what the depositor had earned is not paid.
Deposited(b, u, amount) ==
  LET old == GetOr(b.deposits, u, [amount |-> 0, reward_index |-> 0, since |-> stab_now, claimed |-> 0])
  IN  [b EXCEPT !.total = @ + amount,
                !.deposits = Put(b.deposits, u, [old EXCEPT !.amount = @ + amount, !.reward_index = b.index,
                                                            !.since = stab_now])]

stab_deposit(u, amount) ==
  /\ require_not_paused
  /\ books.total + amount <= (STABLECOIN_SUPPLY * stab_admin.ratio) \div 10000
  /\ books' = Deposited(Updated(books), u, amount)
  /\ UNCHANGED <<withdrawals, cap, pool_tokens, token_deposits, stab_admin, records, stab_now>>

Holds(b, u, amount) == u \in DOMAIN b.deposits /\ b.deposits[u].amount >= amount

\* The rewards are paid, and stay pending: reward_index is not moved.
Withdrawn(b, u, amount) ==
  [b EXCEPT !.total = @ - amount,
            !.deposits = IF b.deposits[u].amount = amount THEN Drop(b.deposits, u)
                         ELSE [b.deposits EXCEPT ![u].amount = @ - amount]]

stab_withdraw(u, amount) ==
  /\ require_not_paused
  /\ Holds(books, u, amount)
  /\ books' = Withdrawn(Updated(books), u, amount)
  /\ UNCHANGED <<withdrawals, cap, pool_tokens, token_deposits, stab_admin, records, stab_now>>

\* Nine tenths are withdrawn: the penalty is taken by not paying it out, and
\* stays with the depositor.
emergency_withdraw(u, amount) == stab_withdraw(u, amount - ((amount * 1000) \div 10000))

Claimed(b, u) ==
  [b EXCEPT !.deposits[u].claimed = @ + calculate_rewards(b, u), !.deposits[u].reward_index = b.index]

claim_rewards(u) ==
  /\ require_not_paused
  /\ u \in DOMAIN books.deposits
  /\ calculate_rewards(Updated(books), u) > 0
  /\ books' = Claimed(Updated(books), u)
  /\ UNCHANGED <<withdrawals, cap, pool_tokens, token_deposits, stab_admin, records, stab_now>>

set_auto_compound(u, enabled, interval) ==
  /\ require_not_paused
  /\ interval > 0
  /\ books' = [books EXCEPT !.auto = Put(@, u, [enabled |-> enabled, interval |-> interval, last |-> stab_now])]
  /\ UNCHANGED <<withdrawals, cap, pool_tokens, token_deposits, stab_admin, records, stab_now>>

Due(b, u) ==
  /\ u \in DOMAIN b.auto
  /\ b.auto[u].enabled
  /\ stab_now >= b.auto[u].last + b.auto[u].interval

Compoundable(b, u) == u \in DOMAIN b.deposits /\ calculate_rewards(b, u) > 0

\* Mutant: the entry of the depositor is written back, the total is not.
CompoundedUncounted(b, u) ==
  LET rewards == calculate_rewards(b, u)
  IN  [Claimed(b, u) EXCEPT !.deposits[u].amount = @ + rewards, !.auto[u].last = stab_now]

Compounded(b, u) ==
  LET rewards == calculate_rewards(b, u)
  IN  [Claimed(b, u) EXCEPT !.deposits[u].amount = @ + rewards, !.total = @ + rewards, !.auto[u].last = stab_now]

compound(u) ==
  /\ require_not_paused
  /\ Due(books, u)
  /\ Compoundable(Updated(books), u)
  /\ books' = Compounded(Updated(books), u)
  /\ UNCHANGED <<withdrawals, cap, pool_tokens, token_deposits, stab_admin, records, stab_now>>

\* All that are due, one after the other: one that has earned nothing stops all.
CompoundNext(s, u) ==
  LET b == Updated(s.books)
  IN  IF ~s.ok \/ ~Due(s.books, u) THEN s
      ELSE IF ~Compoundable(b, u) THEN [s EXCEPT !.ok = FALSE]
      ELSE [s EXCEPT !.books = Compounded(b, u)]

compound_all ==
  LET after[u \in 0 .. NumUsers] ==
        IF u = 0 THEN [ok |-> TRUE, books |-> books]
        ELSE IF u \in DOMAIN books.deposits THEN CompoundNext(after[u - 1], u) ELSE after[u - 1]
  IN  /\ require_not_paused
      /\ after[NumUsers].ok
      /\ books' = after[NumUsers].books
      /\ UNCHANGED <<withdrawals, cap, pool_tokens, token_deposits, stab_admin, records, stab_now>>

-----------------------------------------------------------------------------
(* The queue of withdrawals. *)

\* The code divides by the total, and fails without.
Large(amount) == (amount * 10000) \div books.total > LARGE_BPS

\* A new day: the counter that is compared is 0, and the one that is kept is not.
request_withdrawal(u, amount) ==
  LET new_day   == stab_now - withdrawals.last_day >= DAY
      withdrawn == IF new_day THEN 0 ELSE withdrawals.withdrawn
      position  == Len(withdrawals.queue) + 1
  IN  /\ require_not_paused
      /\ books.total > 0
      /\ Large(amount)
      /\ withdrawn + amount <= DAILY_LIMIT
      /\ position <= MaxQueue
      /\ withdrawals' = [withdrawals EXCEPT
           !.last_day = IF new_day THEN stab_now ELSE @,
           !.queue = Append(@, [user |-> u, amount |-> amount, position |-> position,
                                due |-> stab_now + position * HOUR])]
      /\ UNCHANGED <<books, cap, pool_tokens, token_deposits, stab_admin, records, stab_now>>

\* A small one is paid at once.
RequestSmall(u, amount) ==
  /\ books.total > 0
  /\ ~Large(amount)
  /\ stab_withdraw(u, amount)

\* Entries that are not due are passed over; the first that exceeds the limit
\* ends the round; one that cannot be paid fails the whole call.
ProcessEntry(s, entry) ==
  IF s.full \/ entry.due > stab_now THEN s
  ELSE IF s.withdrawn + entry.amount > DAILY_LIMIT THEN [s EXCEPT !.full = TRUE]
  ELSE IF ~s.ok \/ ~Holds(s.books, entry.user, entry.amount) THEN [s EXCEPT !.ok = FALSE]
  ELSE [s EXCEPT !.books = Withdrawn(Updated(s.books), entry.user, entry.amount),
                 !.withdrawn = @ + entry.amount, !.done = @ \cup {entry.position}]

\* Entries are removed by position, and positions repeat.
Remaining(queue, done) == KeptAt(queue, {i \in DOMAIN queue : queue[i].position \notin done})

process_withdrawal_queue ==
  LET after[i \in 0 .. Len(withdrawals.queue)] ==
        IF i = 0
        THEN [books |-> books, withdrawn |-> withdrawals.withdrawn, done |-> {}, ok |-> TRUE, full |-> FALSE]
        ELSE ProcessEntry(after[i - 1], withdrawals.queue[i])
      result == after[Len(withdrawals.queue)]
  IN  /\ require_admin
      /\ result.ok
      /\ result.done # {} => require_not_paused
      /\ books' = result.books
      /\ withdrawals' = [withdrawals EXCEPT !.queue = Remaining(@, result.done), !.withdrawn = result.withdrawn]
      /\ UNCHANGED <<cap, pool_tokens, token_deposits, stab_admin, records, stab_now>>

-----------------------------------------------------------------------------
(* Liquidations, caps, other tokens, migration, administration. *)

StabilityReward(penalty) == (penalty * stab_admin.share) \div 10000

\* The one that records it also keeps the history. Time's rewards are not
\* brought up to date first.
ProcessLiquidation(penalty, recorded) ==
  LET reward == StabilityReward(penalty)
      index  == books.index + ((reward * SCALE) \div books.total)
  IN  /\ require_not_paused
      /\ books.total > 0
      /\ reward > 0
      /\ index <= MaxIndex
      /\ books' = [books EXCEPT !.index = index]
      /\ IF recorded
         THEN /\ Len(records.distributions) < MaxRecords
              /\ records' = [records EXCEPT !.distributions = Append(@, [amount |-> reward, index_after |-> index])]
         ELSE UNCHANGED records
      /\ UNCHANGED <<withdrawals, cap, pool_tokens, token_deposits, stab_admin, stab_now>>

Clamped(x, low, high) == IF x > high THEN (IF high < low THEN low ELSE high) ELSE IF x < low THEN low ELSE x

get_current_cap ==
  LET by_supply == (STABLECOIN_SUPPLY * stab_admin.ratio) \div 10000
      health    == (CollateralHealth * SENSITIVITY_BPS) \div 10000
  IN  IF cap.override > 0 THEN cap.override
      ELSE Clamped(by_supply + ((by_supply * health) \div 10000), MIN_CAP, MAX_CAP)

update_pool_cap(new_cap) ==
  /\ require_admin
  /\ cap' = [cap EXCEPT !.override = new_cap]
  /\ UNCHANGED <<books, withdrawals, pool_tokens, token_deposits, stab_admin, records, stab_now>>

adjust_cap_dynamically ==
  /\ require_admin
  /\ cap' = [cap EXCEPT !.current = get_current_cap]
  /\ UNCHANGED <<books, withdrawals, pool_tokens, token_deposits, stab_admin, records, stab_now>>

\* A token that is added again starts over; its deposits stay.
add_pool_token(token, token_cap) ==
  /\ require_admin
  /\ pool_tokens' = Put(pool_tokens, token, [cap |-> token_cap, balance |-> 0])
  /\ UNCHANGED <<books, withdrawals, cap, token_deposits, stab_admin, records, stab_now>>

\* There is no way back for these.
deposit_token(u, token, amount) ==
  /\ require_not_paused
  /\ token \in DOMAIN pool_tokens
  /\ pool_tokens[token].balance + amount <= pool_tokens[token].cap
  /\ books.total + amount <= get_current_cap
  /\ pool_tokens' = [pool_tokens EXCEPT ![token].balance = @ + amount]
  /\ token_deposits' = Put(token_deposits, <<u, token>>, GetOr(token_deposits, <<u, token>>, 0) + amount)
  /\ books' = [books EXCEPT !.total = @ + amount]
  /\ UNCHANGED <<withdrawals, cap, stab_admin, records, stab_now>>

update_params(p) ==
  /\ require_admin
  /\ p.rate <= 2000 /\ p.penalty <= 1000 /\ p.ratio <= 8000
  /\ stab_admin' = [rate |-> p.rate, penalty |-> p.penalty, ratio |-> p.ratio, share |-> p.share,
                     paused |-> stab_admin.paused]
  /\ UNCHANGED <<books, withdrawals, cap, pool_tokens, token_deposits, records, stab_now>>

SetPaused(paused) ==
  /\ require_admin
  /\ stab_admin' = [stab_admin EXCEPT !.paused = paused]
  /\ UNCHANGED <<books, withdrawals, cap, pool_tokens, token_deposits, records, stab_now>>

\* The deposit stays where it is.
migrate_to_new_pool(u) ==
  /\ require_admin
  /\ u \in DOMAIN books.deposits
  /\ Len(records.migrations) < MaxRecords
  /\ records' = [records EXCEPT !.migrations = Append(@, [user |-> u, deposit |-> books.deposits[u]])]
  /\ UNCHANGED <<books, withdrawals, cap, pool_tokens, token_deposits, stab_admin, stab_now>>

\* get_pending_rewards, which is no view: it brings the rewards up to date.
get_pending_rewards ==
  /\ books' = Updated(books)
  /\ UNCHANGED <<withdrawals, cap, pool_tokens, token_deposits, stab_admin, records, stab_now>>

StabElapse ==
  /\ stab_now < MaxStabTime
  /\ stab_now' = stab_now + 1
  /\ UNCHANGED <<books, withdrawals, cap, pool_tokens, token_deposits, stab_admin, records>>

StabNext ==
  \/ \E u \in StabUsers, amount \in StabAmounts :
       \/ stab_deposit(u, amount) \/ stab_withdraw(u, amount) \/ emergency_withdraw(u, amount)
       \/ request_withdrawal(u, amount) \/ RequestSmall(u, amount)
       \/ \E token \in StabTokens : deposit_token(u, token, amount)
  \/ \E u \in StabUsers : claim_rewards(u) \/ compound(u) \/ migrate_to_new_pool(u)
  \/ \E u \in StabUsers, enabled \in BOOLEAN, interval \in Intervals : set_auto_compound(u, enabled, interval)
  \/ compound_all
  \/ process_withdrawal_queue
  \/ get_pending_rewards
  \/ \E penalty \in StabAmounts, recorded \in BOOLEAN : ProcessLiquidation(penalty, recorded)
  \/ \E new_cap \in Overrides : update_pool_cap(new_cap)
  \/ adjust_cap_dynamically
  \/ \E token \in StabTokens, token_cap \in TokenCaps : add_pool_token(token, token_cap)
  \/ \E p \in ParamSets : update_params(p)
  \/ \E paused \in BOOLEAN : SetPaused(paused)
  \/ StabElapse

-----------------------------------------------------------------------------

Amounts(deposits) == [u \in DOMAIN deposits |-> deposits[u].amount]

(* The pool's total, which caps, rewards and liquidations divide by, is what  *)
(* depositors can ask for and what they gave in other tokens, through every   *)
(* compounding, queue and penalty. No deposit is ahead of the index, which    *)
(* would underflow its rewards; what the queue paid stays within its limit.   *)
DepositsAddUp ==
  /\ books.total = SumFunction(Amounts(books.deposits)) + SumFunction(token_deposits)
  /\ \A u \in DOMAIN books.deposits :
       books.deposits[u] \in UserDeposit /\ books.deposits[u].amount > 0
         /\ books.deposits[u].reward_index <= books.index
  /\ books.last_update <= stab_now
  /\ withdrawals.withdrawn <= DAILY_LIMIT
  /\ IsMap(books.auto, StabUsers, AutoCompoundConfig)
  /\ withdrawals.queue \in Seq(QueueEntry)

\* The index, and what distributions say of it, only grow.
IndexGrows ==
  [][/\ books'.index >= books.index
     /\ books'.last_update >= books.last_update
     /\ \A i \in DOMAIN records.distributions : records'.distributions[i] = records.distributions[i]
     /\ Len(records'.distributions) > Len(records.distributions) =>
          records'.distributions[Len(records'.distributions)].index_after = books'.index]_<<books, records>>
=============================================================================
