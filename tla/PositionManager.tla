--------------------------- MODULE PositionManager ---------------------------
(***************************************************************************)
(* PositionManagerContract of position_manager.rs: monitored positions,    *)
(* batches of operations on them, risk scores and alerts. What a position  *)
(* earns is the matter of PositionAnalytics.                               *)
(*                                                                         *)
(* A position's id, and an alert's, is the number of the ledger it was     *)
(* made in: two of one ledger share it. Left out are the health checks and *)
(* the keepers, whose registries are never set up, so that every call of   *)
(* them panics. The ledger's number is its time.                           *)
(***************************************************************************)
EXTENDS Integers, Maps

CONSTANTS
  NumUsers, PmAssets,
  PmRatios,                  \* target_ratio, in bps
  PmCollaterals, Deltas,     \* collateral of a new position, and changes of it
  Volatilities, Markets,     \* what the callers say of the market, in bps
  Ages,                      \* what the callers say of a position, in days
  AlertTypes, MAX_BATCH_SIZE,
  MONITORING_INTERVAL, ALERT_DEDUP_WINDOW, PM_DAY, REBALANCING_THRESHOLD,
  MaxPmLedger, MaxPositions, MaxAlerts   \* bounds of the model

PositionManagerAssumption ==
  /\ NumUsers \in Nat /\ {PM_DAY, MaxPmLedger} \subseteq Nat \ {0} /\ ALERT_DEDUP_WINDOW \in Nat
  /\ {"LowCollateral", "PriceVolatility", "LiquidationRisk", "OracleFailure"} = AlertTypes
  /\ UNION {PmRatios, PmCollaterals, Volatilities, Markets, Ages} \subseteq Nat /\ Deltas \subseteq Int

VARIABLES
  held,    \* user -> positions
  meta,    \* id -> PositionMetadata
  alerts,  \* id -> alerts
  raised,  \* <<id, type>> -> when the last one was raised
  ledger

Traders == 1 .. NumUsers
PositionStatus == {"Active", "Warning", "Liquidating", "Closed", "Frozen"}
Scores == {x \in Nat : x <= 10000}
PositionMetadata == [owner : Traders, asset : PmAssets, created : Nat, updated : Nat,
                     status : PositionStatus, score : Scores]
PositionAlert == [id : Nat, type : AlertTypes, at : Nat, acknowledged : BOOLEAN]

PmInit ==
  /\ held = [u \in Traders |-> <<>>]
  /\ meta = EmptyMap /\ alerts = EmptyMap /\ raised = EmptyMap
  /\ ledger = 1

AtMost(x, y) == IF x < y THEN x ELSE y

\* The file uses weights it does not define; the comments of the fields say 50,
\* 30, 10 and 10 percent.
compute_risk_score(ratio, volatility, age_days, market) ==
  LET collateral == IF ratio >= 30000 THEN 0 ELSE IF ratio <= 11000 THEN 10000
                    ELSE ((30000 - ratio) * 10000) \div 19000
      age == AtMost((age_days * 10000) \div 365, 10000)
  IN  (collateral * 5000 + AtMost(volatility, 10000) * 3000 + age * 1000 + AtMost(market, 10000) * 1000) \div 10000

StatusOf(score) == IF score >= 9500 THEN "Frozen" ELSE IF score >= 8000 THEN "Warning" ELSE "Active"

create_monitored_position(u, asset, collateral, ratio) ==
  /\ Len(held[u]) < MaxPositions
  /\ held' = [held EXCEPT ![u] = Append(@, [asset |-> asset, collateral |-> collateral, ratio |-> ratio])]
  /\ meta' = Put(meta, ledger, [owner |-> u, asset |-> asset, created |-> ledger, updated |-> ledger,
                                status |-> "Active", score |-> compute_risk_score(ratio, 3000, 0, 5000)])
  /\ UNCHANGED <<alerts, raised, ledger>>

-----------------------------------------------------------------------------
(* Batches: items are taken one after the other, and one that fails does not  *)
(* stop the others. The caller must be someone; the owner is whoever the item *)
(* says. A state s is [held, meta].                                           *)

Open(s, item) ==
  /\ item.id \in DOMAIN s.meta
  /\ s.meta[item.id].owner = item.owner
  /\ s.meta[item.id].status \notin {"Closed", "Liquidating"}

\* All positions of the owner in the asset leave, those of other ids too.
CloseItem(s, item) ==
  LET mine  == s.held[item.owner]
      entry == s.meta[item.id]
  IN  IF ~Open(s, item) THEN s
      ELSE [held |-> [s.held EXCEPT ![item.owner] = KeptAt(mine, {i \in DOMAIN mine : mine[i].asset # entry.asset})],
            meta |-> [s.meta EXCEPT ![item.id] = [entry EXCEPT !.updated = ledger, !.status = "Closed"]]]

Distance(x, y) == IF x > y THEN x - y ELSE y - x

Rescored(entry, score) ==
  [entry EXCEPT !.score = score, !.updated = ledger, !.status = IF score >= 8000 THEN "Warning" ELSE entry.status]

RebalanceItem(s, item) ==
  LET mine     == s.held[item.owner]
      Moves(p) == p.asset = s.meta[item.id].asset /\ Distance(p.ratio, item.ratio) >= REBALANCING_THRESHOLD
  IN  IF ~Open(s, item) \/ \A i \in DOMAIN mine : ~Moves(mine[i]) THEN s
      ELSE [held |-> [s.held EXCEPT ![item.owner] =
                        [i \in DOMAIN mine |-> IF Moves(mine[i]) THEN [mine[i] EXCEPT !.ratio = item.ratio] ELSE mine[i]]],
            meta |-> [s.meta EXCEPT ![item.id] =
                        Rescored(s.meta[item.id], compute_risk_score(item.ratio, 2000, 0, 5000))]]

AdjustItem(s, item) ==
  LET mine     == s.held[item.owner]
      Moves(p) == p.asset = s.meta[item.id].asset /\ p.collateral + item.delta >= 0
  IN  IF ~Open(s, item) \/ \A i \in DOMAIN mine : ~Moves(mine[i]) THEN s
      ELSE [held |-> [s.held EXCEPT ![item.owner] =
                        [i \in DOMAIN mine |->
                           IF Moves(mine[i]) THEN [mine[i] EXCEPT !.collateral = mine[i].collateral + item.delta]
                           ELSE mine[i]]],
            meta |-> [s.meta EXCEPT ![item.id] = [s.meta[item.id] EXCEPT !.updated = ledger]]]

Batch(Item(_, _), items) ==
  LET after[i \in 0 .. Len(items)] ==
        IF i = 0 THEN [held |-> held, meta |-> meta] ELSE Item(after[i - 1], items[i])
  IN  /\ Len(items) <= MAX_BATCH_SIZE
      /\ held' = after[Len(items)].held
      /\ meta' = after[Len(items)].meta
      /\ UNCHANGED <<alerts, raised, ledger>>

batch_close_positions(items) == Batch(CloseItem, items)
batch_rebalance_positions(items) == Batch(RebalanceItem, items)
batch_adjust_collateral(items) == Batch(AdjustItem, items)

-----------------------------------------------------------------------------
(* Risk and alerts. *)

calculate_risk_score(id, ratio, volatility, age, market) ==
  LET score == compute_risk_score(ratio, volatility, age, market)
  IN  /\ id \in DOMAIN meta
      /\ meta' = [meta EXCEPT ![id] =
           [meta[id] EXCEPT !.score = score, !.updated = ledger,
                            !.status = IF meta[id].status \in {"Closed", "Liquidating"} THEN meta[id].status
                                       ELSE StatusOf(score)]]
      /\ UNCHANGED <<held, alerts, raised, ledger>>

\* Mutant: the window is compared with a timestamp that is not renewed.
RaisedOnce(s, id, type) ==
  IF <<id, type>> \in DOMAIN s.raised /\ ledger - s.raised[<<id, type>>] < ALERT_DEDUP_WINDOW THEN s
  ELSE [alerts |-> Put(s.alerts, id, Append(GetOr(s.alerts, id, <<>>),
                       [id |-> ledger, type |-> type, at |-> ledger, acknowledged |-> FALSE])),
        raised |-> Put(s.raised, <<id, type>>, GetOr(s.raised, <<id, type>>, ledger))]

\* An alert of the same type within the window is ignored. A state s is
\* [alerts, raised].
Raised(s, id, type) ==
  IF <<id, type>> \in DOMAIN s.raised /\ ledger - s.raised[<<id, type>>] < ALERT_DEDUP_WINDOW THEN s
  ELSE [alerts |-> Put(s.alerts, id, Append(GetOr(s.alerts, id, <<>>),
                       [id |-> ledger, type |-> type, at |-> ledger, acknowledged |-> FALSE])),
        raised |-> Put(s.raised, <<id, type>>, ledger)]

\* Anyone raises, for any position.
raise_alert(id, type) ==
  LET s == Raised([alerts |-> alerts, raised |-> raised], id, type)
  IN  /\ Len(GetOr(s.alerts, id, <<>>)) <= MaxAlerts
      /\ alerts' = s.alerts
      /\ raised' = s.raised
      /\ UNCHANGED <<held, meta, ledger>>

\* All alerts of the id, whatever they are about.
acknowledge_alert(caller, id, alert_id) ==
  /\ id \in DOMAIN meta /\ meta[id].owner = caller
  /\ id \in DOMAIN alerts
  /\ LET told == alerts[id]
     IN  alerts' = [alerts EXCEPT ![id] =
           [i \in DOMAIN told |-> IF told[i].id = alert_id THEN [told[i] EXCEPT !.acknowledged = TRUE] ELSE told[i]]]
  /\ UNCHANGED <<held, meta, raised, ledger>>

\* Mutant: the monitor takes closed positions too.
WatchedAll == {id \in DOMAIN meta : ledger - meta[id].updated >= MONITORING_INTERVAL}

\* Closed positions, and those that were looked at lately, are passed over.
Watched == {id \in DOMAIN meta : meta[id].status # "Closed" /\ ledger - meta[id].updated >= MONITORING_INTERVAL}

\* The first position of the owner in the asset; 150% if there is none any more.
RatioOf(m) ==
  LET those == {i \in DOMAIN held[m.owner] : held[m.owner][i].asset = m.asset}
      first == CHOOSE i \in those : \A j \in those : i <= j
  IN  IF those = {} THEN 15000 ELSE held[m.owner][first].ratio

ScoreNow(id, volatility, market) ==
  compute_risk_score(RatioOf(meta[id]), volatility, (ledger - meta[id].created) \div PM_DAY, market)

\* A score from 6000 on warns of the collateral, and leaves the status.
Monitored(m, score) ==
  [m EXCEPT !.score = score, !.updated = ledger,
            !.status = IF score >= 6000 /\ score < 8000 THEN m.status ELSE StatusOf(score)]

Alerted(s, id, score, volatility) ==
  LET scored == IF score >= 8000 THEN Raised(s, id, "LiquidationRisk")
                ELSE IF score >= 6000 THEN Raised(s, id, "LowCollateral") ELSE s
  IN  IF volatility >= 5000 THEN Raised(scored, id, "PriceVolatility") ELSE scored

monitor_positions(volatility, market) ==
  LET after[id \in 0 .. MaxPmLedger] ==
        IF id = 0 THEN [alerts |-> alerts, raised |-> raised]
        ELSE IF id \in Watched THEN Alerted(after[id - 1], id, ScoreNow(id, volatility, market), volatility)
        ELSE after[id - 1]
      s == after[MaxPmLedger]
  IN  /\ Watched # {}
      /\ \A id \in DOMAIN s.alerts : Len(s.alerts[id]) <= MaxAlerts
      /\ meta' = [id \in DOMAIN meta |->
                    IF id \in Watched THEN Monitored(meta[id], ScoreNow(id, volatility, market)) ELSE meta[id]]
      /\ alerts' = s.alerts
      /\ raised' = s.raised
      /\ UNCHANGED <<held, ledger>>

NextLedger == ledger < MaxPmLedger /\ ledger' = ledger + 1 /\ UNCHANGED <<held, meta, alerts, raised>>

Ids == 1 .. MaxPmLedger

\* One or two items, of which the second may fail, repeat or undo the first.
Batches(Chosen) == {<<x>> : x \in Chosen} \cup {<<x, y>> : x, y \in Chosen}

PmNext ==
  \/ \E u \in Traders, asset \in PmAssets, collateral \in PmCollaterals, ratio \in PmRatios :
       create_monitored_position(u, asset, collateral, ratio)
  \/ \E items \in Batches([id : DOMAIN meta, owner : Traders]) : batch_close_positions(items)
  \/ \E ratio \in PmRatios : \E items \in Batches([id : DOMAIN meta, owner : Traders, ratio : {ratio}]) :
       batch_rebalance_positions(items)
  \/ \E delta \in Deltas : \E items \in Batches([id : DOMAIN meta, owner : Traders, delta : {delta}]) :
       batch_adjust_collateral(items)
  \/ \E id \in Ids, ratio \in PmRatios, volatility \in Volatilities, age \in Ages, market \in Markets :
       calculate_risk_score(id, ratio, volatility, age, market)
  \/ \E id \in Ids, type \in AlertTypes : raise_alert(id, type)
  \/ \E u \in Traders, id, alert_id \in Ids : acknowledge_alert(u, id, alert_id)
  \/ \E volatility \in Volatilities, market \in Markets : monitor_positions(volatility, market)
  \/ NextLedger

-----------------------------------------------------------------------------

(* Whoever raises it, the monitor or any caller: two alerts of one kind about *)
(* a position are a window apart, and what suppresses the next one is the     *)
(* last that was raised.                                                      *)
AlertsSpaced ==
  /\ IsMap(meta, Ids, PositionMetadata)
  /\ \A id \in DOMAIN alerts : \A i, j \in DOMAIN alerts[id] :
       /\ i < j /\ alerts[id][i].type = alerts[id][j].type =>
            alerts[id][j].at - alerts[id][i].at >= ALERT_DEDUP_WINDOW
       /\ alerts[id][i].at <= raised[<<id, alerts[id][i].type>>]
  /\ \A k \in DOMAIN raised : \E i \in DOMAIN alerts[k[1]] :
       alerts[k[1]][i].type = k[2] /\ alerts[k[1]][i].at = raised[k]

(* A position that was closed in an earlier ledger stays closed, and its      *)
(* owner and asset stay: no batch, score or monitor takes it up again. (In    *)
(* its own ledger, the next position takes its id over.)                      *)
ClosedForGood ==
  [][\A id \in DOMAIN meta :
       id # ledger =>
         /\ meta'[id].owner = meta[id].owner /\ meta'[id].asset = meta[id].asset
         /\ meta[id].status = "Closed" => meta'[id].status = "Closed"]_meta
=============================================================================
