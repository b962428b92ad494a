------------------------------- MODULE MCPrices -------------------------------
(***************************************************************************)
(* What prices pass through, side by side: the circuit breaker, the        *)
(* history, the stream to the clients, the decentralized oracle, the       *)
(* failover between adapters and the oracle manager. None of them calls    *)
(* another: contract says which one moves, the others stay as they start.  *)
(*                                                                         *)
(* The breaker has two assets and prices whose moves fall into every       *)
(* class: below the limit of a recovery, above it, worth a warning, large, *)
(* and too large. Percentages replace basis points. The administrator may  *)
(* widen the recovery, as docs/circuit_breaker_guide.md:343 advises, or    *)
(* switch the breaker off.                                                 *)
(***************************************************************************)
EXTENDS CircuitBreaker, Maps

CONSTANTS
  xlm, usdc, Contracts,
  Duration, HOUR_SECS, DAY_SECS, TIER_RECENT_SECS, TIER_MEDIUM_SECS, MAX_HISTORY_RETENTION,
  archival_interval_secs, CacheSecs, SmaPeriods, HistoryPrices, Ages, Retentions,
  HistoryStart, Steps, MaxHistoryTime, MaxEntries,
  StreamAssets, Clients, Premium, ChannelSize, MaxPushes,
  Oracles, StakeSizes, Reports, HeartbeatIntervals, Updates, NODE_BPS, MIN_STAKE, MIN_ORACLES, SLASH_PERCENTAGE,
  UNBONDING_PERIOD, MAX_ORACLES, DISPUTE_REVIEW_PERIOD, DISPUTE_BOND, StartReputation, DOWNGRADE,
  MaxNodeTime, MaxSlashes, MaxDisputes, MaxMissed,
  Adapters, Priorities, Answers, DEMOTION_THRESHOLD_BPS, MAX_ACCEPTABLE_DEVIATION_BPS,
  min_quorum, max_deviation_bps, StrictGates, MaxRequests,
  ManagedOracles, Weights, BeatIntervals, MissLimits, ParamUpdates, Confidences, MANAGER_MIN_ORACLES, ORACLE_TIMEOUT,
  MIN_CONFIDENCE, MinStart, InitialReputation, MissPenalty, MaxManagerTime, MaxTotalMissed

VARIABLES
  contract,
  clock, store, metadata, analytics, archival,
  log, clients,
  node_now, node, reports, aggregated, beats, unbonding, disputes, settings,
  chain, health, manual_override, strict_health_gate, round,
  registry, beat_configs, beat_status, aggregation, prices_held, manager_now

History  == INSTANCE PriceHistory
Stream   == INSTANCE PriceStream
Node     == INSTANCE DecentralizedOracle WITH BPS <- NODE_BPS
Failover == INSTANCE OracleFailover
Manager  == INSTANCE OracleManager WITH BPS <- NODE_BPS, MIN_ORACLES <- MANAGER_MIN_ORACLES

ASSUME HistoryInputs == History!PriceHistoryAssumption
ASSUME StreamInputs == Stream!PriceStreamAssumption
ASSUME NodeInputs == Node!DecentralizedOracleAssumption
ASSUME FailoverInputs == Failover!OracleFailoverAssumption
ASSUME ManagerInputs == Manager!OracleManagerAssumption

historyVars  == <<clock, store, metadata, analytics, archival>>
streamVars   == <<log, clients>>
nodeVars     == <<node_now, node, reports, aggregated, beats, unbonding, disputes, settings>>
failoverVars == <<chain, health, manual_override, strict_health_gate, round>>
managerVars  == <<registry, beat_configs, beat_status, aggregation, prices_held, manager_now>>
allVars == <<contract, vars, historyVars, streamVars, nodeVars, failoverVars, managerVars>>

MCInit ==
  /\ contract \in Contracts
  /\ initialize /\ History!HistoryInit /\ Stream!StreamInit /\ Node!NodeInit /\ Failover!FailoverInit /\ Manager!ManagerInit
  /\ contract # "failover" => ~strict_health_gate

MCNext ==
  /\ UNCHANGED contract
  /\ \/ contract = "breaker" /\ Next
     \/ contract # "breaker" /\ UNCHANGED vars
  /\ \/ contract = "history" /\ History!HistoryNext
     \/ contract # "history" /\ UNCHANGED historyVars
  /\ \/ contract = "stream" /\ Stream!StreamNext
     \/ contract # "stream" /\ UNCHANGED streamVars
  /\ \/ contract = "node" /\ Node!NodeNext
     \/ contract # "node" /\ UNCHANGED nodeVars
  /\ \/ contract = "failover" /\ Failover!FailoverNext
     \/ contract # "failover" /\ UNCHANGED failoverVars
  /\ \/ contract = "manager" /\ Manager!ManagerNext
     \/ contract # "manager" /\ UNCHANGED managerVars

MCSpec == MCInit /\ [][MCNext]_allVars

\* StreamFairness, where the stream is what moves.
Fairness ==
  \A c \in Clients :
    WF_allVars(/\ contract = "stream" /\ Stream!Serve(c)
               /\ UNCHANGED <<contract, vars, historyVars, nodeVars, failoverVars, managerVars>>)

FairSpec == MCSpec /\ Fairness

-----------------------------------------------------------------------------
Shipped ==
  [single_deviation_threshold |-> 10, consecutive_deviation_count |-> 3,
   min_consecutive_deviation |-> 5, cooldown_period |-> 1,
   min_update_interval |-> 1, recovery_max_change |-> 2, enabled |-> TRUE]

Wide == [Shipped EXCEPT !.recovery_max_change = 6]
Off  == [Shipped EXCEPT !.enabled = FALSE]
MCConfigs == {Wide, Off}

MCDuration == [g \in {"OneMinute", "SixHour"} |-> IF g = "OneMinute" THEN 2 ELSE 6]
MCUpdates == {<<"UNBOND", 0>>, <<"MIN_ORACL", 1>>, <<"PAUSED", 1>>, <<"ADMIN", 1>>}
MCParamUpdates == {[min_oracles |-> n, oracle_timeout |-> 9, min_confidence |-> 0] : n \in {1, 2}}

\* No guard and no property reads the last safe price, the reason of a trip or
\* the level of an alert; of the last update only whether it is this instant's,
\* of the other times only the one the status asks for.
Seen(s) ==
  <<s.status, s.consecutive_deviations, s.trip_count, s.last_update = now,
    IF s.status = "Tripped" THEN s.tripped_at
    ELSE IF s.status = "Recovery" THEN s.recovery_started_at ELSE 0>>

\* What a round returned, no action reads: it is checked as it returns.
View ==
  <<contract, now, [a \in Assets |-> Seen(states[a])], config, global_pause, ramp,
    [i \in DOMAIN trip_history |-> <<trip_history[i].asset, trip_history[i].timestamp>>],
    [i \in DOMAIN warning_alerts |-> warning_alerts[i].consecutive_count],
    historyVars, streamVars, nodeVars, chain, health, manual_override, strict_health_gate, managerVars>>

\* The second asset is there to share the lists: all it does is trip, once. It
\* does so, and the pause comes, where the configuration is the shipped one.
BreakerFocus ==
  /\ states'[usdc].trip_count > 0 \/ global_pause' => config' = Shipped
  /\ states'[usdc].trip_count > 0 => ~global_pause'
  /\ states'[usdc] # states[usdc] => states'[usdc].trip_count = 1 /\ states[usdc].trip_count = 0
  /\ \A i \in DOMAIN warning_alerts' : warning_alerts'[i].asset = xlm

\* Two of the decentralized oracle's features are in use in a behaviour, and the
\* second oracle is there to report, and to make up the minimum.
NodeFocus ==
  LET used == <<beats' # EmptyMap, disputes' # <<>>, reports' # EmptyMap, unbonding' # EmptyMap,
                node'.slash_count # EmptyMap /\ disputes' = <<>>,
                settings'.paused \/ settings'.unreadable # {} \/ settings'.values["UNBOND"] # UNBONDING_PERIOD>>
  IN  /\ Len(SelectSeq(used, LAMBDA x : x)) <= 2 /\ (used[6] => ~used[1])
      /\ (DOMAIN beats') \cup (DOMAIN unbonding') \cup (DOMAIN node'.slash_count) \subseteq {"o1"}
      /\ "o2" \in DOMAIN reports' => reports'["o2"] = 4
      /\ \A i \in DOMAIN disputes' : disputes'[i].oracle = "o1"

\* The third adapter is always the last and asked once; of the first, priority
\* and being enabled change, and only it is forced by an override.
FailoverFocus ==
  /\ manual_override' \subseteq {"a"}
  /\ \A i \in DOMAIN chain' :
       /\ chain'[i].id # "a" => chain'[i].priority = IF chain'[i].id = "b" THEN 1 ELSE 2
       /\ chain'[i].id # "a" => chain'[i].enabled
  /\ "c" \in DOMAIN health' => health'["c"].total <= 1

\* Heartbeats of the oracle manager are followed with one weight.
ManagerFocus ==
  /\ beat_status' # EmptyMap => /\ \A o \in DOMAIN registry' : registry'[o].weight = 6
                                /\ aggregation'.oracle_timeout = ORACLE_TIMEOUT
  /\ "v" \in DOMAIN beat_configs' => beat_configs'["v"].max_missed = 0

Focus ==
  /\ contract = "breaker" => BreakerFocus
  /\ contract = "node" => NodeFocus
  /\ contract = "failover" => FailoverFocus
  /\ contract = "manager" => ManagerFocus

(* A price counts once, averages stay among the prices they are made of, and  *)
(* nothing older is served for newer: see CountedOnce, TwapInRange and        *)
(* CacheIsFresh of PriceHistory and NothingMissed of PriceStream.             *)
PricesAreTrue ==
  /\ contract = "history" => History!CountedOnce /\ History!TwapInRange /\ History!CacheIsFresh
  /\ contract = "stream" => Stream!NothingMissed

(* Only who is registered is staked, and a share of the whole: see            *)
(* StakesAreOfOracles of DecentralizedOracle, WeightsFit and NothingIsPriced  *)
(* of OracleManager.                                                          *)
OraclesAreCounted ==
  /\ contract = "node" => Node!StakesAreOfOracles
  /\ contract = "manager" => Manager!WeightsFit /\ Manager!NothingIsPriced

(* No oracle moves a price that has no say in it: see OnlyTheTrustedCount of  *)
(* DecentralizedOracle, FirstChoice and MinorityIsOutvoted of OracleFailover. *)
OnlyTheTrustedCount ==
  Node!OnlyTheTrustedCount /\ Failover!FirstChoice /\ Failover!MinorityIsOutvoted

(* What is archived or judged stays so: see ArchiveIsKept of PriceHistory and *)
(* PunishedOnce of DecentralizedOracle.                                       *)
SettledStays == History!ArchiveIsKept /\ Node!PunishedOnce

\* See PremiumCatchesUp of PriceStream.
PremiumCatchesUp == Stream!PremiumCatchesUp

\* See ArchivedBeforePruned of PriceHistory.
ArchivedBeforePruned == History!ArchivedBeforePruned

(* docs/circuit_breaker_guide.md:19, on what happens when the breaker trips: *)
(* "Price Freeze: Last safe price is preserved". An update is accepted while *)
(* the asset is Tripped, and replaces it.                                    *)
PriceFrozen ==
  [][\A a \in Assets :
       states[a].status = "Tripped" /\ states'[a].status = "Tripped"
         => states'[a].last_safe_price = states[a].last_safe_price]_vars
=============================================================================
