# A verification of the Stellar DeFi toolkit

TLA+ models of the contracts in `src/src/contracts`, TLC runs that check them on small instances, and
theorems about them that TLAPS checks for every value of the constants. Line numbers refer to
`src/src/contracts/lending.rs` unless another file is named.

## The system

The toolkit is a set of Rust simulations and Soroban contracts around one subject: assets that are supplied,
lent, priced and liquidated.

| component | state it keeps | operations | what makes it correct |
|---|---|---|---|
| Lending protocol (`lending.rs`) | reserves (cash, debt, supply and debt shares, fees), accounts, configurations, pause | deposit, withdraw, borrow, repay, liquidate, flash_loan, collateral flags, accrual | users' shares and reserve totals agree; every share is backed; rounding never costs the suppliers; no user makes itself liquidatable |
| Its administration | multisig, proposals | propose, approve, cancel, execute, direct setters | what is governed changes by an approved proposal only, once |
| `PriceOracleSim` (`oracle.rs`) | last price per asset, sanity limits | set_price_at, set_sanity_config, get_price(_at) | prices stay in range; stale prices are refused |
| Asset registry of lending (`asset_registry_protocol.rs`) | allow and block lists | add, remove, block | an asset not allowed gets no new supply or debt |
| Stability pool, boosted pool (`stability_pool.rs`) | deposits, reward index, compounding, withdrawal queue, other tokens, caps, records | deposit, withdraw, claim, compound, queue and process, liquidate, migrate | deposits add up to the total; the index never falls; a boost is earned |
| Stablecoin (`stablecoin.rs`) | vaults, collateral types, supply, fees | mint, redeem, liquidate, stability deposits, shutdown | what circulates is what is owed |
| Synthetic protocol (`synthetic_protocol.rs`) | assets, positions, stakers, statistics | list, mint, burn, liquidate, stake | an asset's supply is held by positions |
| Position manager (`position_manager.rs`) | positions, metadata, alerts, analytics | create, batches, monitor, alert, analyse | closed stays closed; alerts are spaced; the drawdown is the worst one |
| Liquidity pool (ledger, simulation, token storage) | reserves, fees, shares | add, remove, swap, claim, flash loan, emergency | the shares that stay never lose worth |
| Vault | shares, strategies, allocation | deposit, withdraw, switch, optimize, pause | shares never lose worth |
| Staking, escrow | locked stakes; locked amounts | stake, withdraw; create, claim, refund | terms are kept; settled once |
| Token (`token.rs`) | balances, supply, allowances, nonces, hooks, pause, airdrops | mint, burn, transfer, approve, permit, batches, import, claims | every token is accounted for; permits and claims are good for once |
| Pausable token, Soroban token | balances, admin, pause, hooks; supply | initialize (repeatable), transfer, mint, hooks | balances are what was minted; pause and hooks stop transfers |
| Circuit breaker (`circuit_breaker.rs`) | a state per asset, configuration, history, alerts | check, trip, recover, reset, configure, pause | large moves in a row trip it; history, alerts and states agree |
| Decentralized oracle | stakes, reputations, reports, heartbeats, disputes | register, submit, unbond, withdraw, slash, dispute | only who is trusted moves the price; judged once |
| Oracle manager, adapters | weights, heartbeats; priorities and health of adapters | register, weigh, check; fetch, consensus | weights fit the whole; a straying minority is outvoted; the first healthy choice is used |
| Price history | buckets in three tiers, analytics | store, archive, average, clean | a price counts once; an archive does not change |
| Price stream (`api/ws.rs`) | a bounded channel, the last prices, a position per client | push, subscribe, snapshot, receive, lag | nothing is missed unnoticed; who lags catches up |
| Governance (v1, v2, synthetic) | proposals, votes, delegations, parameters | propose, vote, execute, cancel, delegate | every vote counted once; executed once, by a majority, after the vote and the delay |
| Other API, CLI, client, metadata | none of their own | reading and formatting | not modelled |

Components interact by direct calls: the lending protocol reads the oracle and its registry inside each call;
nothing runs concurrently inside a call, except in the price stream, whose tasks interleave at every await. What is hard is therefore the order of calls by different users and
administrators, each with its own timestamp; calls that fail after they have changed something (a Rust struct is
mutated in place and `?` returns early, no rollback); rounding repeated over many calls; state that is stale when it is
used (prices, interest of other assets, prepared proposals); configurations that change under open positions.
No call survives another, and storage is the ledger's, so crashes and restarts play no part; but
entries in temporary storage disappear when their time to live is over, an adapter may fail at every request, and the
price stream drops what a slow client did not read.

## Modules

* `LendingMath` is the integer arithmetic: `mul_div` with Rust's rounding toward zero, the two-slope rate, accrual, and
  the conversions between shares and amounts, as operators on reserve records. The scales (`WAD`, basis points, year) are
  constants. `Maps` is the idiom of Rust maps (functions on the keys present) and the totals over users.
* `OracleSim` is `PriceOracleSim`: prices with timestamps and sanity limits.
* `Lending` EXTENDS these: one action per public operation of `LendingProtocol`, named as in the code. A call either is
  rejected before it changes anything (no step), or fails having changed something (`Fails`, with what it leaves behind:
  usually the accrued interest, sometimes half of the operation), or succeeds (`Succeeds`). `result` keeps which. Accrual is
  part of each action, as it is of each call. The time is a parameter of each call, as in the code, and may go backwards.
* `LendingGov` EXTENDS `Lending` with the multisig and the proposals. An executed proposal is the conjunction of the
  proposal's own step with the action of `Lending` it carries; `Spec` of `Lending` is the abstract specification it implements.
* `Governance`, `GovernanceV2` and `SyntheticGovernance` model the three governance contracts, each on its own variables, and
  each refines `Ballot`, the life of a proposal: opened once, voted on while open, then executed by a majority or rejected, for
  good. `Phases`, `VotesFor` and `VotesAgainst` are the refinement mapping. In the first contract the caller gives the time (and
  its own voting power), so the time is a parameter; in the others the ledger has a clock (`now`, advanced by `Tick`), a failing call is
  rolled back, and `VoteEntryExpires` drops a vote from temporary storage. Voting power is a constant, as it is mocked in the code.
* `CircuitBreaker` is `CircuitBreakerContract`: per asset Active, Tripped or in Recovery, over the clock of the ledger (`Tick`).
  `check_price_update` is the sum of its outcomes: refused, tripped, or accepted with or without an alert. Only the question
  `is_operational` ends a cooldown or a recovery, so it is an action. `ramp` is history: accepted large moves in a row.
* `Token`, `PausableToken` and `SorobanToken` are three contracts that do not know each other; `MCTokens` sets them side by side and
  moves one while the others have yet to start. `Token` is a struct changed in place with 64-bit amounts: a call that fails
  halfway keeps what it did (`mint`, `Moved`, `Credited`), unchecked sums wrap. `uncredited`, `airdropped`, `lost`, `granted`, `spent`
  and `used` are history, against which the properties read the code's state; so are `minted` and `doubled` of the pausable token.
* `PoolMath` is the arithmetic of both constant-product pools; `LiquidityPool` is the contract on the ledger, where a product that
  overflows counts as 0, `LiquidityPoolSim` the simulation, where it panics, with its emergency mode and flash loans. `LpTokenStorage`,
  `Vault`, `Staking` and `Escrow` follow their files.
* `StabilityPool` and `BoostedPool` are the two contracts of `stability_pool.rs`; `Stablecoin` and `SyntheticProtocol` mint against
  collateral; `PositionManager` keeps positions, batches and alerts, `PositionAnalytics` the figures of one position. Where the release
  profile lets 64-bit arithmetic wrap, the models wrap at `U64`, `DEBT_U64` or `TIME`.
* `PriceHistory` is `PriceHistoryManager` for one asset; `PriceStream` the broadcaster and the client tasks of `ws.rs`: `subscribe`,
  `snapshot`, `Receive` and `Skip` are the stretches between two awaits, and a price is the number of the push it came from.
* `DecentralizedOracle` and `OracleManager` are the two contracts, `OracleFailover` the health monitor and the failover engine of
  `price_feed_adapters.rs` with the coordinator of `oracle_manager.rs` that drives them; `round` is history: what the last call asked and returned. A median is the answer that at most half are below and more than half at most.
* `MCMarkets` sets twelve contracts side by side and `MCPrices` six, as `MCTokens` does: none of them calls another, `contract` says which one
  moves. This is composition for checking only.
* `MC*` modules give the constants their values. Operators commented as mutants are faults one could make in the code; each is
  swapped for the definition it follows to confirm that the properties notice.
* `SumLemmas`, `LendingProofs`, `LendingGovProofs`, `GovernanceProofs`, `TokenProofs`, `MarketsProofs` and `PricesProofs` hold the theorems, and the end of `PriceStream`.

Data is abstracted where no property depends on it: asset and user names are model values or numbers, decimals, receivers,
treasury and the event log are left out, a payer is not told from a borrower. i128 overflow is left out: with amounts bounded as in the
runs it cannot happen, and in the code most operations return `MathFailure` for it.

## Runs

| run | question | bounds |
|---|---|---|
| `lending_accounts` | Do the books of the users and of the reserve agree, and does rounding ever cost the suppliers or forgive debt? | 2 users, 1 asset, amounts 1 and 2, cash up to 2, debt up to 3, two timestamps, scale 10 |
| `lending_positions` | Can a user become liquidatable by its own steps; is a seizure paid for? | 1 user, 2 assets, two prices, flags |
| `lending_admin` | What may settings changed under open positions do? | 1 user, 1 asset, two models, two configurations, caps, factors, pause, registry |
| `lending_gov` | Who changes what is governed, and can it be locked? | 2 administrators, 3 multisigs, 7 payloads, 2 proposals |
| `governance` | Are votes counted once, and do decisions and their terms stand, through votes that expire, delegations, pauses, emergency proposals? Three contracts side by side | 2 addresses, 1 or 2 proposals, 3 votes, clock up to 5, 2 or 3 parameter sets (one refused) |
| `tokens` | Do balances, supply, allowances, permits, airdrops, pause and hooks agree through failing and wrapping calls? | 2 addresses, amounts of two bits, 1 airdrop, 2 permits, 2 batches, 2 snapshots (one wraps), 2 hooks |
| `markets` | Do books add up, shares keep their worth, terms stand, alerts and closed positions stay what they are? Twelve contracts | 2 users, amounts of up to two digits, widths 16 and 40, a queue of 2, 2 collaterals, 2 synthetic assets, 2 positions, clocks up to 3 |
| `prices` | How far does a price get before the breaker trips, is a price counted once through late arrivals and archiving, does a slow client catch up, whose price is used? Six components | breaker: 2 assets, moves of every class, clock up to 5; history: 3 prices in 3 tiers, ages past both cutoffs; stream: 2 clients, 3 pushes through a channel of 2; 2 oracles, 1 dispute, 2 slashes; 3 adapters, 2 requests each |
| `claim_shares`, `claim_v2_window`, `claim_breaker_freeze`, `claim_history_loss` | Four statements of tests, comments and documents, refuted | as small as the scenario needs |

`MaxCash` and `MaxDebt` bound what a reserve holds, in the guard of every step that changes reserves (`Bounded`);
`MaxProposals` bounds the proposals; `MaxTime` the clock, which is enough for a vote, its deadline and its delay, and for both
to be over; `MaxVotes` the votes counted on one proposal, one more than there are addresses, so that a second vote of an address shows. `MaxTrips` bounds the trips of an asset (two, so that one is
repeated), `MaxLedger` the ledgers an airdrop lives through, `MaxDrops` the airdrops, `MaxMinted` and `MaxHeld` what the two ledger
tokens hold; `U64` is 4, so that two amounts reach it. Share prices other than 1 appear at these bounds (debt 3 over 2 shares, net assets of 3
over 2 shares), which is where rounding differs; interest, partial repayments, seizures and half-failed calls all occur. The `Focus`
of an MC module is an action constraint that leaves aside what that run is not about; another run has it. The `View` leaves out
`result`, which no guard reads. Users of the lending
protocol are numbered for the sums and not symmetric; addresses of the first two governance contracts are.

The bounds of `MCMarkets.cfg` are amounts at which roundings differ (1, 2, 3, 4 in a pool or vault), sums that reach the width and wrap (a lock of 14 or 15
at 16, a liquidation that repays more than the debt at 40), and clocks that let each term end; its `Focus` lets one of a contract's features that do
not touch (queue, caps, other tokens) be in use at a time. In `MCPrices.cfg` an hour has two minutes and a day two hours, so that three prices reach
every tier and every cutoff falls inside an hour; three pushes overrun a channel of two.

Liveness: no operation of the contracts is owed to anyone, every call is a caller's choice, and no fairness of theirs could be justified. The price
stream is different: its tasks are driven by the runtime. `prices` assumes weak fairness of `Serve` for each client (a task whose channel holds
an update is polled, tokio's `select!` takes its ready branches in random order, and a send ends or fails), and of nothing else: pushes, subscriptions
and messages need not come. Under it a premium client ends up with the last price, however far it lagged (`PremiumCatchesUp`); other clients are
throttled, and a dropped update is not sent later, so nothing of the kind holds for them.

Deadlock is checked except in `markets`, `prices` and the two claims that share the modules of `prices`, where a behaviour ends because the clocks and records of
the model are full.

## What the runs refute

* A test suite says the users' supply shares account for the net assets; a withdraw without cash burns the user's shares alone
  (`claim_shares`).
* The governance process promises an exit window of two days; the delay is read at the execution, after it may have been changed
  (`claim_v2_window`).
* The breaker's guide says a trip preserves the last safe price; an update is accepted while Tripped and replaces it
  (`claim_breaker_freeze`).
* `price_history.rs:1149` says archived buckets are pruned; the hour that holds the cutoff is not archived and its minutes are pruned with the rest
  (`claim_history_loss`). Each run of the archival may lose the part of an hour so.

Other divergences are in the models, which do what the code does, without a run of their own:

* `lending.rs:37-38` says proposals are unreachable; `propose_admin_action` inserts them, and `lending_gov` executes them.
* `lending.rs:55` says the pause blocks all user operations; `set_collateral_enabled` does not look at it.
* `tests/invariant_tests.rs:6-9` says net assets are never negative; `register_asset` and `update_reserve_config` accept a reserve factor
  above 100%, which makes them so. `Solvent` is therefore checked and proved for settings within 100%.
* `lending.rs:856-858` says of `liquidate` that it validates everything before it mutates; the collateral entry is looked up (982-985)
  after the debt was booked: `liquidate` of `Lending` fails there with the debt repaid and nothing seized.
* `lending.rs:460` applies a prepared configuration whole: executed late, it undoes what the setters changed in between. `get_price` (1138)
  does not ask for an age.
* `upgrade_governance_process.md:201` promises one vote per address; a vote in temporary storage expires and can be cast again.
  `MaxVotes` lets the third vote of two addresses happen.
* `governance.rs:434` calls a delisting's notice period mandatory; it is counted from the creation of the proposal, and a late execution
  leaves none of it.
* `governance_v2.rs:325` refuses a delegation to oneself but not a circle of two, after which neither address can vote; and a delegate,
  "address receiving power" (line 320), votes with no more than before.
* `docs/ARCHITECTURE.md:352` gives proposals of synthetic governance 3 to 30 days; an emergency proposal has an hour. Its `vote` refuses
  a second vote (`synthetic_governance.rs:239`) by a test that never succeeds.
* `docs/circuit_breaker_guide.md:12` trips on three large moves in a row. `is_operational` sets the counter back on every change of state, and
  updates are judged while Tripped too, so longer rows pass (`RampsAreBounded` says how long); `reset` goes to Active at once.
* `token.rs:117-118` says the balances add up to the supply. The initial supply is credited to nobody, claims raise no supply, and
  the wrapped snapshot leaves less supply than balances: `Books` says what is true instead. `batch_transfer`, "atomic" in
  `token.rs:582`, keeps the debit and the first credits when a later one overflows, and asks neither the pause nor the hooks. The blacklist
  is enforced nowhere, `return_unclaimed_airdrop` returns the same rest each time, and anyone may import a state.
* In the pausable and the Soroban token a transfer to oneself adds the amount, and `initialize` can be repeated (`LedgerBooks`).
* Pools: fees stay in the reserves as well, so that who removes liquidity is paid them and who claims them is paid again; `claim_fees` may be repeated until
  nothing is left of them. Liquidity added before `initialize` loses its reserves, and `remove_liquidity` never looks at the caller's own shares.
* Stability pool: `withdraw` pays rewards and leaves the depositor's index where it was; a deposit drops the pending rewards; the day's withdrawals are
  never set back; a request at the head of the queue that cannot be paid stops all behind it, and two that share a position leave the queue together, one of them unpaid;
  migration leaves the deposit behind; a token that is added again starts from nothing.
* Stablecoin: a liquidation may repay more than the debt, which wraps. Synthetic assets: the mint values the collateral a hundred times what the ratio does, so that a fresh
  position can be liquidated at once; each `unstake`, of nothing too, pays the rewards for all the time since the first stake.
* Price history: the mean of an archived hour divides a sum over minutes by the number of raw prices; highs and lows of a day are those of all time; a square root
  of ten steps is none for large variances. Price stream: after the snapshot come the updates that were queued before it, so a shown price may go back for a while.
* Decentralized oracle: a request to unbond outlives the withdrawal and lets the next stake leave at once; each `check_heartbeats` counts the same intervals again;
  `update_config` may overwrite any entry with a number, the administrator too, after which every call that reads it fails; the reports of those who left count towards
  the minimum; registering again restores the reputation.
* Oracle manager: `submit_price` never succeeds (`NothingIsPriced`), and a new oracle would be stale from the start; a tolerance of 0 makes `check_heartbeats` fail for all;
  the weight of an inactive oracle is subtracted from a total that does not hold it.
* Failover: who strays is recorded twice, so that its average deviation is half of what it is; one failure at the first request excludes an adapter until an override
  asks it again; when all fail nobody is demoted; an override need not be registered.

## Proofs

Everything is proved for any number of users, any assets, amounts, timestamps, models and configurations, under the
assumptions named in the modules (`ScaleAssumption`, `OracleAssumption`, `LendingAssumption`, `GovAssumption`), which are typing
of the inputs, and, where a theorem says so, `SaneLimits`: no administrator installs a reserve factor or a close
factor above 100%. The code checks that in one setter only (`lending.rs:395`); without it the fees outgrow the interest and the net assets shrink.

The inductive invariant `IInv` (`LendingProofs`) joins, for all reserves at once: totals are natural numbers; net assets are at least the
supply shares; debt is at least the debt shares; there are no shares without what they stand for; the debt shares of all users add up to the
reserve's total, the supply shares to at most it; every account holds non-negative shares of listed assets only. `Solvent` alone is
not inductive: whether a repayment keeps it depends on the cap at the borrower's debt, hence on the shares in the accounts, and these are bounded
by the reserve only because they add up to its total. Each operation is shown to be a move of shares after an accrual: the first part of `LendingProofs`
proves of each reserve operator that it keeps a reserve backed and lowers neither share price (`GoodStep`), `SumLemmas` how a total over the users
changes when one of them changes, and the second part of `LendingProofs` has one lemma per operation.

Proved of lending: `TypeOK`, `SharesAddUp`, `Solvent` (debt at par included), `NoFreeRedemption`, both share prices never falling
(`SharePricesNeverFall`), and all four properties of what a step may do: `SeizureIsPaidFor`, `BlockedAssetsOnlyShrink`, `PausedFreezesFunds`,
`OwnStepsStayHealthy`. The last needs the invariant `LoansCover` (the borrowing power an account is granted is at most the value it is judged by) and
`SaneCollateral`: no configuration has a collateral factor above its liquidation threshold. Nothing in the code relates the two (`register_asset`,
`update_reserve_config`), and without it a fresh loan can be liquidated at once. The value of an account is a recursive sum over the assets; that it
grows with its terms (`SumFunctionMonotone`) is shown by the least number of terms at which it would not. `SeizureIsPaidFor` speaks of the cash
a liquidator brings and not of the debt that falls: the liquidation accrues interest first, in the same step, so the debt may fall by less than
is paid. The run `lending_positions` has no interest, the theorem covers it.

Of the multisig: that it implements the lending protocol (so all of these carry over), its types, `DecidedOnce`, `GovernedChangesAreApproved` and `LockedOutForGood`.

`GovernanceProofs` proves all that the governance run checks, of `MCGovernance` with its inputs left open (`GAssumption`, `SAssumption` and
`GovernanceV2Assumption`: the typing of the inputs, and that the defaults of the code lie within its own limits). `GovernanceV2` refines `Ballot` for any addresses,
quorums, periods and bounds: the proof goes by what one call does to one proposal (`OneChange`: a step that touches one proposal shows in `Ballot` at that number
only). From `TypeOK` and the voting period being in its limits (`PeriodInRange`) follows `TimesAreKept`, and `PauseFreezes` from the steps alone.
The two other contracts refine `Ballot` too; of `SyntheticGovernance` the invariant `Consistent` is inductive as it stands. That the votes add up to the tallies
(`VotesDecide`) needs of `Governance` that the recorded votes are finitely many and only of proposals that exist (`VotesInv`); the tally is a fold over the
recorded votes, and `SumLemmas` shows that any term of it may come first (`AnyTermFirst`), so that one more vote adds its power (`SumOnSetAdd`).

`TokenProofs` proves of `Token`, for any width of the amounts, addresses, batches, permits, airdrops and snapshots, all that its run checks: `Books`,
`NothingLost`, `AllowancesHold`, `OnceOnly`, and its `TypeOK`. `Books` and `NothingLost` need each other (`AccountInv`): nothing is lost because two balances
together never exceed what is held (`TwoBalances`), and what is held is bounded by the supply only while the books close without airdrops.
What a batch does is a statement about the recursive `Credited` (`CreditedLemma`), made by the least index at which it would fail. `OnceOnly`
needs that accepted permits have nonces below their owner's (`PermitInv`), and that remainders add (`AddedInWidth`). The assumption,
`TokenAssumption`, is the typing of the inputs. Of the two tokens on the ledger it proves `LedgerBooks` and `PausableStops`. Both contracts read the two balances
of a transfer before they write either, so that a transfer to oneself leaves more than there was: `SumOfPaid` is the sum after the two writes, and what
is doubled is a term of the books. `PausableStops` goes by the steps alone, for any hooks that are finitely many (`LedgerInv`).

`MarketsProofs` proves, of `MCMarkets` with its inputs left open, `WorthKept`, `EarnedOnly` and `KeptForGood`, each from an inductive invariant of every contract it speaks of
(`PoolInv`, `SimInv`, `VaultInv`, `StakingInv`, `EscrowInv`, `BoostInv`, `StabInv`, `PmInv`; only one contract moves at a time, `StepsOfEach`).
For the pools the invariant is that they are made of natural numbers and that what the providers hold covers the liquidity tokens; the argument is one inequality per
rounding: what is minted is at most the part each deposit is of its reserve (`MintingPart`), what is paid out at most the part that is burnt (`BurningPart`), and neither
way to swap lowers the product of the reserves (`SellingPart`, `BuyingPart`). The vault's is that it never has more shares than assets, the
boosted pool's that every boost is the one that was earned, and staking's that no stake began later than now. For the stability pool the sum of the deposits
and of the tokens is the total through every compounding and every entry of the queue: both loops are recursive functions whose steps keep it (`StepsStay`), and
the sum changes by the one deposit a step writes. A closed position stays closed because every item of a batch finds it so (`Open`) and the monitor looks at open ones only; alerts of one kind
of a position are spaced because `raised` notes every one (`SpacedAt`). The assumptions are the typing of the inputs, that the fee a pool without one falls back on is no more than
the whole, and the bounds of the runs.

It also proves the two invariants of the same run. `BooksAgree` needs of the stablecoin (`CoinInv`) that the debts of the vaults and the supply with the minted fees are
congruent modulo the width of the counters, which every wrapping step keeps (`Congruent`), and of the synthetic protocol (`SynthInv`) that the supply of each asset is what
the positions in it issued; that holds because no supply reaches the width, which is the bound `MaxSupply` of the model and an assumption of the theorem.
`PositionsAreWatched` needs (`AnlInv`) that the recorded drawdown is the loss at the lowest price so far, that no later figure is worse, and that the square of the
summed returns is at most their number times the sum of their squares: Cauchy's inequality, kept by one more sample, which makes the variance a natural number.
Newton's method, a recursive function, ends at the root of it because its guesses fall and stay at or above the root.

`StreamMissesNothing`, at the end of `PriceStream`, is `NothingMissed` for any clients, assets and channel size: what an open client that lost nothing was shown of an asset is one
of its pushes, and none that its receiver is past is newer (`Keeps`). That the receiver is made before the snapshot is what makes this inductive.

`PricesProofs` proves of the circuit breaker all that its run checks, for any assets, prices, configurations and lengths of the lists. `RecordsAgree` is
inductive as it stands; what it rests on is one lemma about lists that keep their newest records (`AfterNewest`: how many records of an asset there
are once one was added and the oldest perhaps dropped, and which is the last). `RampsAreBounded` needs to know, per status, how long a row may be by now
(`RampInv`): no longer than the counter while Tripped, hence below the count in a recovery, and that much more again when Active. A configuration that counts to 0
accepts no large move at all, which is why the property leaves out the empty row. `LifeCycle` uses `RecordsAgree` for the time of the last trip.

Of the other components of `MCPrices` it proves every safety property their run checks, with their inputs left open; as for the markets, one contract moves at a time (`ContractsMove`).

* `OraclesAreCounted`: `ManagerInv` says that the active weights are at most the whole and the minimum of oracles is at least two, so that a submission, which counts
  itself only, is never enough; `NodeInv` types what the decentralized oracle keeps. That the weights fit needs that two weights together do not wrap (2 * BPS < U32).
* `SettledStays`: a period that is archived already is never merged a second time, verdicts fall on what is unresolved, and a reputation is halved or lowered only.
* `OnlyTheTrustedCount`: a weighted average lies between two values that have a weight (`AverageBetween`), and when no value has one the plain average takes its place. The chain
  of the failover is in the order of its priorities (`FailoverInv`): the model sorts by how many go before each, and `EveryPlaceTaken` shows that someone goes to every place.
  A median lies where more than half of the answers lie (`MajorityMoves`), and what is close to it includes that majority, so the second median lies there too.
* `PricesAreTrue`: `HistoryInv` bounds the entries of the three tiers by the number of prices stored, the sum over what is compressed being taken group by group (`SumOfGroups`),
  and dates the windows of each tier, so that no period an average accepts reaches into an archive. The stream's half is `StreamInv` of `PriceStream`.

The assumptions are the typing of the inputs, and of the constants of the code that an average looks back no further than the live tier reaches
(MAX_HISTORY_RETENTION <= TIER_RECENT_SECS) and that the tiers follow each other.

Every safety property of a passing run is now stated by a theorem. Only model-checked are `PremiumCatchesUp`, which is liveness and out of the prover's reach, and the four refuted claims.
Induction over data is out of reach as well: where a sum, a loop or a batch is a recursive function or a fold, the proofs go by its value at each step, or by the least or
largest counterexample.

## Not modelled

* The flash loan provider, the Soroban price oracle and the multi-asset oracle, the two asset registries: each is a small component beside the ones modelled here
  and next in line. The lending protocol sees its registry as the set of assets it allows.
* The second contract of `governance_v2.rs`, the health checks and keepers of `position_manager.rs`, the average price at the end of `liquidity_pool.rs`: they read storage
  that nothing writes, and always fail. `harvest` and `collect_fees` of the vault never get past a clock that reads 0.
* Arbitrage detection, the anomaly detector, exports, token metadata, resolvers, the command line tool and the client: they compute, read or print and keep nothing
  that another call depends on.
