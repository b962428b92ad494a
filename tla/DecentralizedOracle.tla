------------------------- MODULE DecentralizedOracle -------------------------
(***************************************************************************)
(* DecentralizedOracle of decentralized_oracle.rs, for one asset: oracles  *)
(* stake, report prices that are averaged by reputation, are watched by    *)
(* heartbeats, disputed and slashed, and leave after an unbonding period.  *)
(* A call that fails is rolled back and is no step. The confidence and the *)
(* age of a report are checked on arrival and not kept.                    *)
(***************************************************************************)
EXTENDS Integers, Sequences, FiniteSetsExt, Maps

CONSTANTS
  Oracles, StakeSizes, Reports, HeartbeatIntervals,
  Updates,                   \* what update_config may be given: <<parameter, value>>
  BPS,
  MIN_STAKE, MIN_ORACLES, SLASH_PERCENTAGE, UNBONDING_PERIOD, MAX_ORACLES,
  DISPUTE_REVIEW_PERIOD, DISPUTE_BOND,
  StartReputation, DOWNGRADE,                  \* 8000 and 200
  MaxNodeTime, MaxSlashes, MaxDisputes, MaxMissed \* bounds of the model

\* The entries written and read as u64; of all others an update changes the
\* type, and whatever reads them fails from then on.
U64Params == {"MIN_STAKE", "UNBOND"}

DecentralizedOracleAssumption ==
  /\ {BPS, MIN_ORACLES} \subseteq Nat \ {0}
  /\ SLASH_PERCENTAGE \in 0 .. BPS /\ StartReputation \in 0 .. BPS
  /\ Reports \subseteq Nat \ {0}
  /\ StakeSizes \cup HeartbeatIntervals \cup {DISPUTE_BOND, DOWNGRADE} \subseteq Nat

VARIABLES
  node_now,
  node,                      \* oracles and stakes, reputation, slash_count
  reports,                   \* the last price of each oracle that ever sent one
  aggregated,                \* the set of the aggregated price: empty at first
  beats,                     \* heartbeats: [interval, last, missed]
  unbonding,                 \* when each request to unbond was made
  disputes, settings         \* settings: [paused, values, unreadable]

nodeVars == <<node_now, node, reports, aggregated, beats, unbonding, disputes, settings>>

NodeInit ==
  /\ node_now = 1
  /\ node = [oracles |-> EmptyMap, stakes |-> EmptyMap, reputation |-> EmptyMap, slash_count |-> EmptyMap]
  /\ reports = EmptyMap
  /\ aggregated = {}
  /\ beats = EmptyMap
  /\ unbonding = EmptyMap
  /\ disputes = <<>>
  /\ settings = [paused |-> FALSE, unreadable |-> {},
                 values |-> [p \in U64Params |-> IF p = "MIN_STAKE" THEN MIN_STAKE ELSE UNBONDING_PERIOD]]

-----------------------------------------------------------------------------
Readable(params) == settings.unreadable \cap params = {}
require_admin == Readable({"ADMIN"})
require_not_paused == Readable({"PAUSED"}) /\ ~settings.paused

register_oracle(o, stake) ==
  /\ require_not_paused /\ Readable({"MAX_ORCL"})
  /\ stake >= settings.values["MIN_STAKE"]
  /\ o \notin DOMAIN node.oracles
  /\ Cardinality(DOMAIN node.oracles) < MAX_ORACLES
  /\ node' = [node EXCEPT !.oracles = Put(@, o, stake), !.stakes = Put(@, o, stake),
                          !.reputation = Put(@, o, StartReputation)]
  /\ UNCHANGED <<node_now, reports, aggregated, beats, unbonding, disputes, settings>>

\* Mutant: who has no reputation is weighed as a newcomer.
WeighedAsNewcomer(o) == GetOr(node.reputation, o, StartReputation)

\* Who has left counts towards the minimum and weighs nothing.
WeightOf(o) == GetOr(node.reputation, o, 0)

\* With no weight at all everyone's last price counts the same.
aggregate_price(prices) ==
  LET senders == DOMAIN prices
      total   == MapThenSumSet(WeightOf, senders)
  IN  IF Cardinality(senders) < MIN_ORACLES THEN aggregated
      ELSE IF total = 0
           THEN {MapThenSumSet(LAMBDA o : prices[o], senders) \div Cardinality(senders)}
           ELSE {MapThenSumSet(LAMBDA o : prices[o] * WeightOf(o), senders) \div total}

submit_price(o, price) ==
  /\ require_not_paused /\ Readable({"MIN_CONF", "MIN_ORACL"})
  /\ o \in DOMAIN node.oracles
  /\ reports' = Put(reports, o, price)
  /\ aggregated' = aggregate_price(reports')
  /\ UNCHANGED <<node_now, node, beats, unbonding, disputes, settings>>

-----------------------------------------------------------------------------
NoBeat == [interval |-> 0, last |-> 0, missed |-> 0]

set_heartbeat_interval(o, interval) ==
  /\ require_admin
  /\ o \in DOMAIN node.oracles
  /\ beats' = Put(beats, o, [interval |-> interval, last |-> node_now, missed |-> 0])
  /\ UNCHANGED <<node_now, node, reports, aggregated, unbonding, disputes, settings>>

record_heartbeat(o) ==
  /\ o \in DOMAIN node.oracles
  /\ beats' = Put(beats, o, [GetOr(beats, o, NoBeat) EXCEPT !.last = node_now, !.missed = 0])
  /\ UNCHANGED <<node_now, node, reports, aggregated, unbonding, disputes, settings>>

MissedBy(o) ==
  LET beat == GetOr(beats, o, NoBeat)
  IN  IF beat.interval = 0 THEN 0 ELSE (node_now - beat.last) \div beat.interval

Fallen(score, by) == IF score > by THEN score - by ELSE 0

\* Every call counts all intervals since the last heartbeat once more.
check_heartbeats ==
  LET late == {o \in DOMAIN node.oracles : MissedBy(o) > 0}
      Total(o) == beats[o].missed + MissedBy(o)
  IN  /\ \A o \in late : beats[o].missed < MaxMissed
      /\ beats' = [o \in DOMAIN beats |->
                     IF o \in late THEN [beats[o] EXCEPT !.missed = Total(o)] ELSE beats[o]]
      /\ node' = [node EXCEPT !.reputation = [o \in DOMAIN @ |->
                    IF o \in late /\ Total(o) >= 3
                    THEN Fallen(@[o], DOWNGRADE * Min({Total(o) \div 3, 10})) ELSE @[o]]]
      /\ UNCHANGED <<node_now, reports, aggregated, unbonding, disputes, settings>>

-----------------------------------------------------------------------------
request_unbond(o) ==
  /\ o \in DOMAIN node.stakes
  /\ unbonding' = Put(unbonding, o, node_now)
  /\ UNCHANGED <<node_now, node, reports, aggregated, beats, disputes, settings>>

\* The report, the heartbeat and the request stay behind.
withdraw_stake(o) ==
  /\ o \in DOMAIN node.stakes /\ o \in DOMAIN unbonding
  /\ node_now - unbonding[o] >= settings.values["UNBOND"]
  /\ node' = [node EXCEPT !.oracles = Drop(@, o), !.stakes = Drop(@, o), !.reputation = Drop(@, o)]
  /\ UNCHANGED <<node_now, reports, aggregated, beats, unbonding, disputes, settings>>

\* The request is a temporary entry of the ledger.
UnbondingExpires(o) ==
  /\ o \in DOMAIN unbonding
  /\ unbonding' = Drop(unbonding, o)
  /\ UNCHANGED <<node_now, node, reports, aggregated, beats, disputes, settings>>

Slashed(stake) == stake - (stake * SLASH_PERCENTAGE) \div BPS

slash_oracle(o) ==
  /\ require_admin /\ Readable({"SLASH_PCT"})
  /\ o \in DOMAIN node.stakes /\ GetOr(node.slash_count, o, 0) < MaxSlashes
  /\ node' = [node EXCEPT !.stakes[o] = Slashed(@),
                          !.reputation[o] = (@ * 9) \div 10,
                          !.slash_count = Put(@, o, GetOr(@, o, 0) + 1)]
  /\ UNCHANGED <<node_now, reports, aggregated, beats, unbonding, disputes, settings>>

open_dispute(o) ==
  /\ require_not_paused
  /\ Len(disputes) < MaxDisputes
  /\ disputes' = Append(disputes, [oracle |-> o, start_time |-> node_now, status |-> "Pending"])
  /\ UNCHANGED <<node_now, node, reports, aggregated, beats, unbonding, settings>>

\* Mutant: the bond goes to an oracle that may have left.
BondAlwaysPaid(o, is_valid) ==
  IF is_valid
  THEN IF o \notin DOMAIN node.stakes THEN node
       ELSE [node EXCEPT !.stakes[o] = Slashed(@), !.slash_count = Put(@, o, GetOr(@, o, 0) + 1)]
  ELSE [node EXCEPT !.stakes = Put(@, o, GetOr(@, o, 0) + DISPUTE_BOND)]

\* What a verdict does to the oracle, if it is still there.
Judged(o, is_valid) ==
  IF o \notin DOMAIN node.stakes THEN node
  ELSE IF is_valid
       THEN [node EXCEPT !.stakes[o] = Slashed(@), !.slash_count = Put(@, o, GetOr(@, o, 0) + 1)]
       ELSE [node EXCEPT !.stakes[o] = @ + DISPUTE_BOND]

\* Mutant: only a dispute found invalid is closed.
JudgedAgain(dispute) == dispute.status # "ResolvedInvalid"

Unresolved(dispute) == dispute.status = "Pending"

resolve_dispute(id, is_valid) ==
  /\ require_admin
  /\ Unresolved(disputes[id])
  /\ node_now - disputes[id].start_time >= DISPUTE_REVIEW_PERIOD
  /\ is_valid /\ disputes[id].oracle \in DOMAIN node.stakes => Readable({"SLASH_PCT"})
  /\ disputes' = [disputes EXCEPT ![id].status = IF is_valid THEN "ResolvedValid" ELSE "ResolvedInvalid"]
  /\ node' = Judged(disputes[id].oracle, is_valid)
  /\ UNCHANGED <<node_now, reports, aggregated, beats, unbonding, settings>>

\* Any entry of the contract, under any name.
update_config(param, value) ==
  /\ require_admin
  /\ settings' = IF param \in U64Params THEN [settings EXCEPT !.values[param] = value]
                 ELSE [settings EXCEPT !.unreadable = @ \cup {param}]
  /\ UNCHANGED <<node_now, node, reports, aggregated, beats, unbonding, disputes>>

SetPaused(paused) ==
  /\ require_admin
  /\ settings' = [settings EXCEPT !.paused = paused, !.unreadable = @ \ {"PAUSED"}]
  /\ UNCHANGED <<node_now, node, reports, aggregated, beats, unbonding, disputes>>

NodeElapse ==
  /\ node_now < MaxNodeTime
  /\ node_now' = node_now + 1
  /\ UNCHANGED <<node, reports, aggregated, beats, unbonding, disputes, settings>>

NodeNext ==
  \/ \E o \in Oracles :
       \/ \E stake \in StakeSizes : register_oracle(o, stake)
       \/ \E price \in Reports : submit_price(o, price)
       \/ \E interval \in HeartbeatIntervals : set_heartbeat_interval(o, interval)
       \/ record_heartbeat(o) \/ request_unbond(o) \/ withdraw_stake(o) \/ UnbondingExpires(o)
       \/ slash_oracle(o) \/ open_dispute(o)
  \/ \E id \in DOMAIN disputes, is_valid \in BOOLEAN : resolve_dispute(id, is_valid)
  \/ \E update \in Updates : update_config(update[1], update[2])
  \/ \E paused \in BOOLEAN : SetPaused(paused)
  \/ check_heartbeats \/ NodeElapse

-----------------------------------------------------------------------------
(* Stakes and reputations are of registered oracles, and a verdict on one     *)
(* that has left brings nothing of it back.                                   *)
StakesAreOfOracles ==
  /\ DOMAIN node.stakes = DOMAIN node.oracles
  /\ DOMAIN node.reputation = DOMAIN node.oracles

(* A new aggregate lies within the reports of oracles that are registered and *)
(* have a reputation; only if no one has, others' count.                      *)
OnlyTheTrustedCount ==
  [][aggregated' # aggregated =>
       LET trusted == {o \in DOMAIN reports' : o \in DOMAIN node.reputation /\ node.reputation[o] > 0}
           counted == IF trusted = {} THEN DOMAIN reports' ELSE trusted
       IN  \A p \in aggregated' : /\ \E o \in counted : reports'[o] <= p
                                  /\ \E o \in counted : p <= reports'[o]]_nodeVars

(* A dispute is settled once, after its review; a reputation falls and never  *)
(* rises while its oracle stays; a stake falls by a slash that is counted,    *)
(* and rises by a bond.                                                       *)
PunishedOnce ==
  [][/\ \A id \in DOMAIN disputes : disputes'[id] # disputes[id] =>
          /\ disputes[id].status = "Pending"
          /\ node_now - disputes[id].start_time >= DISPUTE_REVIEW_PERIOD
     /\ \A o \in DOMAIN node.stakes \cap DOMAIN node'.stakes :
          /\ node'.reputation[o] <= node.reputation[o]
          /\ node'.stakes[o] < node.stakes[o] =>
               node'.slash_count[o] = GetOr(node.slash_count, o, 0) + 1
          /\ node'.stakes[o] > node.stakes[o] =>
               \E id \in DOMAIN disputes :
                 disputes[id].oracle = o /\ disputes'[id].status # disputes[id].status]_nodeVars
=============================================================================
