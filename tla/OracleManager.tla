---------------------------- MODULE OracleManager ----------------------------
(***************************************************************************)
(* OracleManagerContract of oracle_manager.rs: weighted oracles, their     *)
(* heartbeats and what misses cost them, and the prices they send. Names,  *)
(* timestamps of observation and alerts are left out.                      *)
(***************************************************************************)
EXTENDS Integers, FiniteSetsExt, Maps

CONSTANTS
  ManagedOracles, Weights, BeatIntervals, MissLimits,
  ParamUpdates,              \* what update_aggregation_params may be given
  Confidences,
  BPS, U32, MIN_ORACLES, ORACLE_TIMEOUT, MIN_CONFIDENCE,
  MinStart,                  \* the contract starts at this time
  InitialReputation, MissPenalty, \* 8000 and 200
  MaxManagerTime, MaxTotalMissed  \* bounds of the model

\* The weights are basis points: one close to 2^32 would pass the checks below
\* as well, because the sum wraps.
OracleManagerAssumption ==
  /\ {BPS, U32} \subseteq Nat \ {0} /\ 2 * BPS < U32
  /\ Weights \subseteq 0 .. BPS /\ BeatIntervals \subseteq Nat
  /\ MIN_ORACLES \in Nat /\ MIN_ORACLES >= 2 /\ \A params \in ParamUpdates : params.min_oracles \in Nat

VARIABLES
  registry,                  \* OracleInfo of each oracle: [weight, reputation, active, last_update]
  beat_configs,              \* [interval, max_missed, enabled]
  beat_status,               \* [last, missed, total_missed, flagged]
  aggregation,               \* AggregationParams
  prices_held,               \* how many prices are stored for the asset
  manager_now

managerVars == <<registry, beat_configs, beat_status, aggregation, prices_held, manager_now>>

ManagerInit ==
  /\ registry = EmptyMap
  /\ beat_configs = EmptyMap
  /\ beat_status = EmptyMap
  /\ aggregation = [min_oracles |-> MIN_ORACLES, oracle_timeout |-> ORACLE_TIMEOUT,
                    min_confidence |-> MIN_CONFIDENCE]
  /\ prices_held = 0
  /\ manager_now = MinStart

-----------------------------------------------------------------------------
\* Sums of u32 wrap.
calculate_total_weight(oracles) ==
  MapThenSumSet(LAMBDA o : oracles[o].weight, {o \in DOMAIN oracles : oracles[o].active}) % U32

\* Mutant: the weight alone is checked.
FitsAlone(o, weight) == weight <= BPS

Fits(o, weight) == (calculate_total_weight(registry) + weight) % U32 <= BPS

register_oracle(o, weight) ==
  /\ o \notin DOMAIN registry
  /\ Fits(o, weight)
  /\ registry' = Put(registry, o, [weight |-> weight, reputation |-> InitialReputation,
                                   active |-> TRUE, last_update |-> 0])
  /\ UNCHANGED <<beat_configs, beat_status, aggregation, prices_held, manager_now>>

\* The total does not hold the weight of an inactive oracle, from which it is
\* subtracted all the same.
update_oracle_weight(o, weight) ==
  /\ o \in DOMAIN registry
  /\ (calculate_total_weight(registry) - registry[o].weight + weight) % U32 <= BPS
  /\ registry' = [registry EXCEPT ![o].weight = weight]
  /\ UNCHANGED <<beat_configs, beat_status, aggregation, prices_held, manager_now>>

\* There is no way back.
deactivate_oracle(o) ==
  /\ o \in DOMAIN registry
  /\ registry' = [registry EXCEPT ![o].active = FALSE]
  /\ UNCHANGED <<beat_configs, beat_status, aggregation, prices_held, manager_now>>

\* Mutant: any minimum is taken.
AnyMinimum(params) == TRUE

EnoughOracles(params) == params.min_oracles >= 2

update_aggregation_params(params) ==
  /\ EnoughOracles(params)
  /\ aggregation' = params
  /\ UNCHANGED <<registry, beat_configs, beat_status, prices_held, manager_now>>

-----------------------------------------------------------------------------
NewStatus == [last |-> 0, missed |-> 0, total_missed |-> 0, flagged |-> FALSE]

\* Of any address.
set_heartbeat_config(o, interval, max_missed) ==
  /\ interval > 0
  /\ beat_configs' = Put(beat_configs, o, [interval |-> interval, max_missed |-> max_missed, enabled |-> TRUE])
  /\ beat_status' = Put(beat_status, o, GetOr(beat_status, o, [NewStatus EXCEPT !.last = manager_now]))
  /\ UNCHANGED <<registry, aggregation, prices_held, manager_now>>

record_heartbeat(o) ==
  /\ beat_status' = Put(beat_status, o, [GetOr(beat_status, o, NewStatus) EXCEPT
                       !.last = manager_now, !.missed = 0, !.flagged = FALSE])
  /\ UNCHANGED <<registry, beat_configs, aggregation, prices_held, manager_now>>

Expected(o) == (manager_now - beat_status[o].last) \div beat_configs[o].interval

\* Every call punishes the same misses once more.
Punished(o) ==
  LET times == Min({Expected(o) \div beat_configs[o].max_missed, 10})
  IN  [registry[o] EXCEPT !.reputation = IF @ > MissPenalty * times THEN @ - MissPenalty * times ELSE 0]

\* A configured tolerance of 0 divides by it: the call fails for every oracle.
check_heartbeats ==
  LET late     == {o \in DOMAIN beat_configs : beat_configs[o].enabled /\ Expected(o) > 0}
      punished == {o \in late \cap DOMAIN registry : Expected(o) >= beat_configs[o].max_missed}
      New(o)   == IF Expected(o) > beat_status[o].missed THEN Expected(o) - beat_status[o].missed ELSE 0
  IN  /\ \A o \in punished : beat_configs[o].max_missed > 0
      /\ \A o \in late : beat_status[o].total_missed < MaxTotalMissed
      /\ beat_status' = [o \in DOMAIN beat_status |->
                           IF o \in late
                           THEN [beat_status[o] EXCEPT !.missed = Expected(o), !.total_missed = @ + New(o),
                                                       !.flagged = Expected(o) >= beat_configs[o].max_missed]
                           ELSE beat_status[o]]
      /\ registry' = [o \in DOMAIN registry |-> IF o \in punished THEN Punished(o) ELSE registry[o]]
      /\ UNCHANGED <<beat_configs, aggregation, prices_held, manager_now>>

disable_heartbeat(o) ==
  /\ o \in DOMAIN beat_configs
  /\ beat_configs' = [beat_configs EXCEPT ![o].enabled = FALSE]
  /\ UNCHANGED <<registry, beat_status, aggregation, prices_held, manager_now>>

-----------------------------------------------------------------------------
\* A price is kept only if the call reaches its end, and it ends with an
\* aggregation that fails while there are too few prices.
Aggregates(count) == count >= aggregation.min_oracles

MayBeSubmitted(o, confidence) ==
  /\ o \in DOMAIN registry /\ registry[o].active
  /\ manager_now - registry[o].last_update <= aggregation.oracle_timeout
  /\ confidence >= aggregation.min_confidence
  /\ Aggregates(prices_held + 1)

ManagerElapse ==
  /\ manager_now < MaxManagerTime
  /\ manager_now' = manager_now + 1
  /\ UNCHANGED <<registry, beat_configs, beat_status, aggregation, prices_held>>

\* submit_price is not here: it never succeeds, see NothingIsPriced.
ManagerNext ==
  \/ \E o \in ManagedOracles :
       \/ \E weight \in Weights : register_oracle(o, weight) \/ update_oracle_weight(o, weight)
       \/ \E interval \in BeatIntervals, max_missed \in MissLimits : set_heartbeat_config(o, interval, max_missed)
       \/ deactivate_oracle(o) \/ record_heartbeat(o) \/ disable_heartbeat(o)
  \/ \E params \in ParamUpdates : update_aggregation_params(params)
  \/ check_heartbeats \/ ManagerElapse

-----------------------------------------------------------------------------
(* The active weights add up to at most the whole, whoever was deactivated  *)
(* or reweighted in between.                                                *)
WeightsFit == calculate_total_weight(registry) <= BPS

(* submit_price always fails: an aggregation needs two stored prices at     *)
(* least, under every parameter the administrator can set, and the first    *)
(* submission of an asset, which fails with its aggregation, is not stored. *)
NothingIsPriced ==
  \A o \in ManagedOracles, confidence \in Confidences : ~MayBeSubmitted(o, confidence)
=============================================================================
