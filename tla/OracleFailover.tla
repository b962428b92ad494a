---------------------------- MODULE OracleFailover ----------------------------
(***************************************************************************)
(* FailoverEngine and HealthMonitor of price_feed_adapters.rs (mod         *)
(* failover) and the OracleFailoverCoordinator of oracle_manager.rs that   *)
(* owns one: adapters are asked in the order of their priority, those that *)
(* fail too often or stray too far are left out, and a consensus is the    *)
(* median of what the others answer. What an adapter answers is up to it.  *)
(* Latency and uptime are reported and decide nothing: they are left out,  *)
(* and so are the events.                                                  *)
(***************************************************************************)
EXTENDS Integers, FiniteSets, Maps

CONSTANTS
  Adapters, Priorities,
  Answers,                        \* what an adapter may answer: prices, and Failed
  BPS, DEMOTION_THRESHOLD_BPS, MAX_ACCEPTABLE_DEVIATION_BPS,
  min_quorum, max_deviation_bps,  \* CoordinatorConfig, fixed at construction
  StrictGates,                    \* the values of strict_health_gate
  MaxRequests                     \* bound of the model, per adapter

Failed == 0

OracleFailoverAssumption ==
  /\ BPS \in Nat \ {0} /\ min_quorum \in Nat \ {0} /\ max_deviation_bps \in Nat
  /\ Priorities \subseteq Nat
  /\ Answers \subseteq Nat /\ Failed \in Answers

VARIABLES
  chain,                          \* adapters: [id, priority, enabled], sorted
  health,                         \* [total, successful, deviation] of each adapter known
  manual_override,                \* a set of at most one adapter
  strict_health_gate,
  round                           \* what the last call asked and returned

failoverVars == <<chain, health, manual_override, strict_health_gate, round>>

NoRound == [kind |-> "none", answers |-> EmptyMap, price |-> {}]

FailoverInit ==
  /\ chain = <<>>
  /\ health = EmptyMap
  /\ manual_override = {}
  /\ strict_health_gate \in StrictGates
  /\ round = NoRound

-----------------------------------------------------------------------------
NewHealth == [total |-> 0, successful |-> 0, deviation |-> 0]

\* is_healthy, recomputed whenever a request is recorded.
Healthy(h) ==
  /\ h.total > 0 => (h.successful * BPS) \div h.total >= DEMOTION_THRESHOLD_BPS
  /\ h.successful > 0 => h.deviation \div h.successful <= MAX_ACCEPTABLE_DEVIATION_BPS

HealthOf(id) == GetOr(health, id, NewHealth)

Recorded(h, success, deviation) ==
  [total      |-> h.total + 1,
   successful |-> IF success THEN h.successful + 1 ELSE h.successful,
   deviation  |-> IF success THEN h.deviation + deviation ELSE h.deviation]

IdsAt(places) == {chain[i].id : i \in places}

\* The sort is stable.
ByPriority(list) ==
  LET Before(i, j) == \/ list[i].priority < list[j].priority
                      \/ list[i].priority = list[j].priority /\ i < j
      Rank(i) == Cardinality({j \in DOMAIN list : Before(j, i)})
  IN  [k \in DOMAIN list |-> list[CHOOSE i \in DOMAIN list : Rank(i) = k - 1]]

register(id, priority) ==
  /\ health' = Put(health, id, HealthOf(id))
  /\ chain' = ByPriority(Append(KeptAt(chain, {i \in DOMAIN chain : chain[i].id # id}),
                                [id |-> id, priority |-> priority, enabled |-> TRUE]))
  /\ round' = NoRound
  /\ UNCHANGED <<manual_override, strict_health_gate>>

set_enabled(id, enabled) ==
  /\ chain' = [i \in DOMAIN chain |->
                 IF chain[i].id = id THEN [chain[i] EXCEPT !.enabled = enabled] ELSE chain[i]]
  /\ round' = NoRound
  /\ UNCHANGED <<health, manual_override, strict_health_gate>>

\* Mutant: the chain keeps its order.
PriorityOnly(id, priority) ==
  [i \in DOMAIN chain |-> IF chain[i].id = id THEN [chain[i] EXCEPT !.priority = priority] ELSE chain[i]]

Reprioritized(id, priority) ==
  ByPriority([i \in DOMAIN chain |->
                IF chain[i].id = id THEN [chain[i] EXCEPT !.priority = priority] ELSE chain[i]])

set_priority(id, priority) ==
  /\ chain' = Reprioritized(id, priority)
  /\ round' = NoRound
  /\ UNCHANGED <<health, manual_override, strict_health_gate>>

\* Nobody asks whether the adapter is registered.
set_manual_override(ids) ==
  /\ manual_override' = ids
  /\ round' = NoRound
  /\ UNCHANGED <<chain, health, strict_health_gate>>

-----------------------------------------------------------------------------
\* Whose health is too poor, registered or not.
unhealthy_adapters(records) == {id \in DOMAIN records : ~Healthy(records[id])}

auto_demote(records) ==
  [i \in DOMAIN chain |->
     IF chain[i].id \in unhealthy_adapters(records) THEN [chain[i] EXCEPT !.enabled = FALSE] ELSE chain[i]]

\* Every adapter of asked has answered; deviation of those that strayed is 0 here.
AllRecorded(asked, answers) ==
  [id \in DOMAIN health \cup asked |->
     IF id \in asked THEN Recorded(HealthOf(id), answers[id] # Failed, 0) ELSE health[id]]

\* The adapter of a manual override is asked, enabled and healthy or not.
Overridden(answers) ==
  /\ manual_override # {}
  /\ health' = AllRecorded(manual_override, answers)
  /\ round' = [kind |-> "override", answers |-> [id \in manual_override |-> answers[id]],
               price |-> {answers[id] : id \in manual_override} \ {Failed}]
  /\ UNCHANGED <<chain, manual_override, strict_health_gate>>

\* Mutant: the health is looked at when adapters are demoted, and only then.
AllEnabled == {i \in DOMAIN chain : chain[i].enabled}

Candidates == {i \in DOMAIN chain : chain[i].enabled /\ Healthy(HealthOf(chain[i].id))}

Earliest(places) == CHOOSE i \in places : \A j \in places : i <= j

\* The first success ends the search and demotes; if all fail, no one is demoted.
fetch(answers) ==
  /\ manual_override = {}
  /\ LET successes == {i \in Candidates : answers[chain[i].id] # Failed}
         tried     == IF successes = {} THEN Candidates ELSE {i \in Candidates : i <= Earliest(successes)}
     IN  /\ health' = AllRecorded(IdsAt(tried), answers)
         /\ chain' = IF successes = {} THEN chain ELSE auto_demote(health')
         /\ round' = [kind |-> "fetch", answers |-> [id \in IdsAt(tried) |-> answers[id]],
                      price |-> IF successes = {} THEN {} ELSE {answers[chain[Earliest(successes)].id]}]
  /\ UNCHANGED <<manual_override, strict_health_gate>>

\* Mutant: the one in the middle, in the order they were asked.
MiddleOf(prices) ==
  LET Place(id) == CHOOSE i \in DOMAIN chain : chain[i].id = id
      AskedBefore(id) == {other \in DOMAIN prices : Place(other) < Place(id)}
  IN  prices[CHOOSE id \in DOMAIN prices : Cardinality(AskedBefore(id)) = Cardinality(DOMAIN prices) \div 2]

\* Of an even number the larger one in the middle.
Median(prices) ==
  LET half == Cardinality(DOMAIN prices) \div 2
  IN  CHOOSE p \in {prices[id] : id \in DOMAIN prices} :
        /\ Cardinality({id \in DOMAIN prices : prices[id] < p}) <= half
        /\ half < Cardinality({id \in DOMAIN prices : prices[id] <= p})

Distance(a, b) == IF a >= b THEN a - b ELSE b - a
abs_deviation_bps(a, b) == IF b = 0 THEN 0 ELSE (Distance(a, b) * BPS) \div b

\* Who strays too far from the median is recorded a second time.
fetch_consensus(answers) ==
  /\ manual_override = {} /\ chain # <<>>
  /\ LET asked    == IdsAt({i \in DOMAIN chain : /\ chain[i].enabled
                                                 /\ strict_health_gate => Healthy(HealthOf(chain[i].id))})
         valid    == {id \in asked : answers[id] # Failed}
         prices   == [id \in valid |-> answers[id]]
         once     == AllRecorded(asked, answers)
         Deviation(id) == abs_deviation_bps(answers[id], Median(prices))
         close    == {id \in valid : Deviation(id) <= max_deviation_bps}
         result   == [kind |-> "consensus", answers |-> prices, price |-> {}]
     IN  IF Cardinality(valid) < min_quorum
         THEN health' = once /\ round' = result
         ELSE /\ health' = [id \in DOMAIN once |->
                              IF id \in valid \ close THEN Recorded(once[id], TRUE, Deviation(id)) ELSE once[id]]
              /\ round' = IF Cardinality(close) < min_quorum THEN result
                          ELSE [result EXCEPT !.price = {Median([id \in close |-> answers[id]])}]
  /\ UNCHANGED <<chain, manual_override, strict_health_gate>>

FailoverNext ==
  \/ \E id \in Adapters, priority \in Priorities : register(id, priority) \/ set_priority(id, priority)
  \/ \E id \in Adapters, enabled \in BOOLEAN : set_enabled(id, enabled)
  \/ \E ids \in {{id} : id \in Adapters} \cup {{}} : set_manual_override(ids)
  \/ /\ \A id \in DOMAIN health : health[id].total < MaxRequests
     /\ \E answers \in [Adapters -> Answers] : Overridden(answers) \/ fetch(answers) \/ fetch_consensus(answers)

-----------------------------------------------------------------------------
(* Failover: without an override a price comes from an adapter that is      *)
(* enabled and was healthy, and every such adapter whose priority comes     *)
(* before it was asked first and failed, which its record shows.            *)
FirstChoice ==
  [][round'.kind = "fetch" =>
       \A price \in round'.price :
         \E i \in DOMAIN chain :
           /\ chain[i].enabled /\ Healthy(HealthOf(chain[i].id))
           /\ chain[i].id \in DOMAIN round'.answers /\ round'.answers[chain[i].id] = price
           /\ \A j \in DOMAIN chain :
                chain[j].priority < chain[i].priority /\ chain[j].enabled /\ Healthy(HealthOf(chain[j].id)) =>
                  /\ chain[j].id \in DOMAIN round'.answers /\ round'.answers[chain[j].id] = Failed
                  /\ health'[chain[j].id].total = health[chain[j].id].total + 1]_failoverVars

(* A minority cannot move the consensus: if more than half of the prices    *)
(* answered lie between two that are no further apart than is tolerated,    *)
(* so does the consensus, whatever the others are.                          *)
MinorityIsOutvoted ==
  [][round'.kind = "consensus" =>
       \A price \in round'.price, a, b \in DOMAIN round'.answers :
         LET low  == round'.answers[a]
             high == round'.answers[b]
             close == {id \in DOMAIN round'.answers : low <= round'.answers[id] /\ round'.answers[id] <= high}
         IN  /\ low <= high /\ (high - low) * BPS <= max_deviation_bps * low
             /\ 2 * Cardinality(close) > Cardinality(DOMAIN round'.answers)
             => low <= price /\ price <= high]_failoverVars
=============================================================================
