--------------------------- MODULE CircuitBreaker ---------------------------
(***************************************************************************)
(* CircuitBreakerContract of circuit_breaker.rs. Every asset has a breaker *)
(* of its own: Active, Tripped after a large move or a row of moderate     *)
(* ones, in Recovery once a cooldown is over. Only calls move it: the      *)
(* question is_operational is what ends a cooldown and a recovery. A call  *)
(* that panics or only answers changes nothing and is no step.             *)
(***************************************************************************)
EXTENDS Integers, Sequences, FiniteSets

CONSTANTS
  Assets, Prices,              \* prices a feeder may report, old or new
  Configs,                     \* what an administrator may set, unchecked
  BPS, U32,                    \* 10000; what a deviation wraps at, 2^32
  CIRCUIT_BREAKER_THRESHOLD_BPS,
  CONSECUTIVE_DEVIATION_THRESHOLD,
  MIN_CONSECUTIVE_DEVIATION_BPS,
  CIRCUIT_BREAKER_COOLDOWN,
  MIN_UPDATE_INTERVAL,
  RECOVERY_MAX_CHANGE_BPS,
  WARNING_THRESHOLD_BPS,
  MAX_TRIP_HISTORY,
  MAX_WARNING_ALERTS,          \* 50, a literal in the code
  RECOVERY_MODE_DURATION,
  MaxTime, MaxTrips            \* bounds of the model

ConfigType ==
  [single_deviation_threshold : Nat, consecutive_deviation_count : Nat,
   min_consecutive_deviation : Nat, cooldown_period : Nat,
   min_update_interval : Nat, recovery_max_change : Nat, enabled : BOOLEAN]

ASSUME CircuitBreakerAssumption ==
  /\ Prices \subseteq Nat
  /\ Configs \subseteq ConfigType
  /\ {BPS, U32} \subseteq Nat \ {0}
  /\ {CIRCUIT_BREAKER_THRESHOLD_BPS, CONSECUTIVE_DEVIATION_THRESHOLD,
      MIN_CONSECUTIVE_DEVIATION_BPS, CIRCUIT_BREAKER_COOLDOWN,
      MIN_UPDATE_INTERVAL, RECOVERY_MAX_CHANGE_BPS, WARNING_THRESHOLD_BPS,
      RECOVERY_MODE_DURATION, MaxTime, MaxTrips} \subseteq Nat
  /\ {MAX_TRIP_HISTORY, MAX_WARNING_ALERTS} \subseteq Nat \ {0}

VARIABLES
  now,                         \* the clock of the ledger
  states,                      \* the state of each asset
  config, global_pause,
  trip_history, warning_alerts,
  ramp                         \* history: accepted large moves in a row

vars == <<now, states, config, global_pause, trip_history, warning_alerts, ramp>>

StateType ==
  [status : {"Active", "Tripped", "Recovery"}, consecutive_deviations : Nat,
   tripped_at : Nat, last_safe_price : Nat, last_update : Nat,
   recovery_started_at : Nat, trip_count : Nat]

\* What get_or_create_state returns for an asset never seen.
NewState ==
  [status |-> "Active", consecutive_deviations |-> 0, tripped_at |-> 0,
   last_safe_price |-> 0, last_update |-> 0, recovery_started_at |-> 0,
   trip_count |-> 0]

initialize ==
  /\ now = 1                   \* never 0 on a ledger; 0 stands for never
  /\ states = [a \in Assets |-> NewState]
  /\ config = [single_deviation_threshold |-> CIRCUIT_BREAKER_THRESHOLD_BPS,
               consecutive_deviation_count |-> CONSECUTIVE_DEVIATION_THRESHOLD,
               min_consecutive_deviation |-> MIN_CONSECUTIVE_DEVIATION_BPS,
               cooldown_period |-> CIRCUIT_BREAKER_COOLDOWN,
               min_update_interval |-> MIN_UPDATE_INTERVAL,
               recovery_max_change |-> RECOVERY_MAX_CHANGE_BPS,
               enabled |-> TRUE]
  /\ global_pause = FALSE
  /\ trip_history = <<>>
  /\ warning_alerts = <<>>
  /\ ramp = [a \in Assets |-> 0]

-----------------------------------------------------------------------------
\* The last n elements: the code pops from the front until n are left.
Newest(s, n) == IF Len(s) <= n THEN s ELSE SubSeq(s, Len(s) - n + 1, Len(s))

calculate_deviation(old_price, new_price) ==
  LET diff == IF new_price > old_price THEN new_price - old_price ELSE old_price - new_price
  IN  IF old_price = 0 THEN 0 ELSE ((diff * BPS) \div old_price) % U32

\* Mutant: an asset that is tripped again keeps its old time.
TrippedSinceFirst(a, reason) ==
  /\ states[a].trip_count < MaxTrips
  /\ states' = [states EXCEPT ![a] =
       [@ EXCEPT !.status = "Tripped", !.consecutive_deviations = 0,
                 !.tripped_at = IF states[a].status = "Tripped" THEN @ ELSE now,
                 !.trip_count = @ + 1]]
  /\ trip_history' = Newest(Append(trip_history, [asset |-> a, timestamp |-> now, reason |-> reason]),
                            MAX_TRIP_HISTORY)
  /\ ramp' = [ramp EXCEPT ![a] = 0]

trip_circuit_breaker(a, reason) ==
  /\ states[a].trip_count < MaxTrips
  /\ states' = [states EXCEPT ![a] =
       [@ EXCEPT !.status = "Tripped", !.consecutive_deviations = 0,
                 !.tripped_at = now, !.trip_count = states[a].trip_count + 1]]
  /\ trip_history' = Newest(Append(trip_history, [asset |-> a, timestamp |-> now, reason |-> reason]),
                            MAX_TRIP_HISTORY)
  /\ ramp' = [ramp EXCEPT ![a] = 0]

\* Mutant: the cooldown is not looked at.
RecoveryAtOnce(a) == states[a].status = "Tripped"

CooledDown(a) ==
  /\ states[a].status = "Tripped"
  /\ now >= states[a].tripped_at + config.cooldown_period

transition_to_recovery(a) ==
  states' = [states EXCEPT ![a] =
    [@ EXCEPT !.status = "Recovery", !.consecutive_deviations = 0, !.recovery_started_at = now]]

transition_to_active(a) ==
  states' = [states EXCEPT ![a] =
    [@ EXCEPT !.status = "Active", !.consecutive_deviations = 0, !.recovery_started_at = 0]]

\* Asked while paused or switched off, it answers and leaves the breaker alone.
is_operational(a) ==
  /\ ~global_pause /\ config.enabled
  /\ \/ CooledDown(a) /\ transition_to_recovery(a)
     \/ /\ states[a].status = "Recovery"
        /\ now >= states[a].recovery_started_at + RECOVERY_MODE_DURATION
        /\ transition_to_active(a)
  /\ UNCHANGED <<now, config, global_pause, trip_history, warning_alerts, ramp>>

-----------------------------------------------------------------------------
RateLimited(a) ==
  states[a].last_update > 0 /\ now - states[a].last_update < config.min_update_interval

\* Mutant: the counter is raised in the alert only.
CountsNothing(a, deviation) == 0

\* The counter with this move: on, or back to zero.
Consecutive(a, deviation) ==
  IF deviation >= config.min_consecutive_deviation
  THEN states[a].consecutive_deviations + 1 ELSE 0

Level(deviation, count) ==
  CASE deviation >= MIN_CONSECUTIVE_DEVIATION_BPS /\ count >= 2 -> "Critical"
    [] deviation < WARNING_THRESHOLD_BPS -> "Info"
    [] OTHER -> "Warning"

\* Mutant: the alert reads the counter before it is raised.
AlertedBeforeCounting(a, deviation, count) ==
  warning_alerts' = Newest(Append(warning_alerts,
                      [asset |-> a, consecutive_count |-> states[a].consecutive_deviations,
                       level |-> Level(deviation, count)]),
                    MAX_WARNING_ALERTS)

create_warning_alert(a, deviation, count) ==
  warning_alerts' = Newest(Append(warning_alerts,
                      [asset |-> a, consecutive_count |-> count, level |-> Level(deviation, count)]),
                    MAX_WARNING_ALERTS)

\* Not refused while Tripped: the move is then judged as if it were Active.
check_price_update(a, old_price, new_price) ==
  LET deviation == calculate_deviation(old_price, new_price)
      count == Consecutive(a, deviation)
      large == deviation >= config.min_consecutive_deviation
  IN
  /\ config.enabled
  /\ ~RateLimited(a)
  /\ states[a].status = "Recovery" => deviation <= config.recovery_max_change
  /\ \/ /\ deviation >= config.single_deviation_threshold
        /\ trip_circuit_breaker(a, "SINGLE_DEV")
        /\ UNCHANGED warning_alerts
     \/ /\ deviation < config.single_deviation_threshold
        /\ large /\ count >= config.consecutive_deviation_count
        /\ create_warning_alert(a, deviation, count)
        /\ trip_circuit_breaker(a, "CONSEC_DEV")
     \/ /\ deviation < config.single_deviation_threshold
        /\ ~(large /\ count >= config.consecutive_deviation_count)
        /\ IF large \/ deviation >= WARNING_THRESHOLD_BPS
           THEN create_warning_alert(a, deviation, count)
           ELSE UNCHANGED warning_alerts
        /\ states' = [states EXCEPT ![a] =
             [@ EXCEPT !.consecutive_deviations = count,
                       !.last_update = now, !.last_safe_price = new_price]]
        /\ ramp' = [ramp EXCEPT ![a] = IF large THEN @ + 1 ELSE 0]
        /\ UNCHANGED trip_history
  /\ UNCHANGED <<now, config, global_pause>>
-----------------------------------------------------------------------------
(* What only the administrator may call.                                    *)
manual_trip(a) ==
  /\ trip_circuit_breaker(a, "MANUAL")
  /\ UNCHANGED <<now, config, global_pause, warning_alerts>>

\* Straight to Active; the time of the last update and the trips stay.
reset(a) ==
  /\ states' = [states EXCEPT ![a] =
       [@ EXCEPT !.status = "Active", !.consecutive_deviations = 0, !.tripped_at = 0]]
  /\ ramp' = [ramp EXCEPT ![a] = 0]
  /\ UNCHANGED <<now, config, global_pause, trip_history, warning_alerts>>

\* From any status, also from Active.
force_recovery(a) ==
  /\ transition_to_recovery(a)
  /\ ramp' = [ramp EXCEPT ![a] = 0]
  /\ UNCHANGED <<now, config, global_pause, trip_history, warning_alerts>>

update_config(c) ==
  /\ config' = c
  /\ ramp' = [a \in Assets |-> 0]
  /\ UNCHANGED <<now, states, global_pause, trip_history, warning_alerts>>

clear_warning_alerts ==
  /\ warning_alerts' = <<>>
  /\ UNCHANGED <<now, states, config, global_pause, trip_history, ramp>>

set_global_pause(paused) ==
  /\ global_pause' = paused
  /\ UNCHANGED <<now, states, config, trip_history, warning_alerts, ramp>>

Administration(a) == manual_trip(a) \/ reset(a) \/ force_recovery(a)

Tick ==
  /\ now < MaxTime
  /\ now' = now + 1
  /\ UNCHANGED <<states, config, global_pause, trip_history, warning_alerts, ramp>>

Next ==
  \/ \E a \in Assets :
       \/ is_operational(a)
       \/ \E p, q \in Prices : check_price_update(a, p, q)
       \/ Administration(a)
  \/ \E c \in Configs : update_config(c)
  \/ clear_warning_alerts
  \/ \E b \in BOOLEAN : set_global_pause(b)
  \/ Tick

Spec == initialize /\ [][Next]_vars

-----------------------------------------------------------------------------
(* One type invariant; times never lie ahead of the clock.                  *)
TypeOK ==
  /\ now \in Nat
  /\ states \in [Assets -> StateType]
  /\ \A a \in Assets :
       {states[a].tripped_at, states[a].last_update, states[a].recovery_started_at} \subseteq 0 .. now
  /\ config \in ConfigType
  /\ global_pause \in BOOLEAN
  /\ trip_history \in Seq([asset : Assets, timestamp : 0 .. now,
                           reason : {"SINGLE_DEV", "CONSEC_DEV", "MANUAL"}])
  /\ Len(trip_history) <= MAX_TRIP_HISTORY
  /\ warning_alerts \in Seq([asset : Assets, consecutive_count : Nat,
                             level : {"Info", "Warning", "Critical"}])
  /\ Len(warning_alerts) <= MAX_WARNING_ALERTS
  /\ ramp \in [Assets -> Nat]

\* Where the records of an asset stand in a list of records.
Mine(records, a) == {i \in DOMAIN records : records[i].asset = a}
Last(indices) == CHOOSE i \in indices : \A j \in indices : j <= i
LastTrip(a) == trip_history[Last(Mine(trip_history, a))].timestamp

(* Trips are counted per asset, listed for all assets together, and dated   *)
(* in the state. Until the list overflows it has exactly the trips counted; *)
(* the newest trip of an asset that is Tripped is the one it cools down     *)
(* from, even if the asset was tripped again meanwhile.                     *)
TripsAreRecorded ==
  \A a \in Assets :
    LET trips == Mine(trip_history, a) IN
    /\ Cardinality(trips) <= states[a].trip_count
    /\ Len(trip_history) < MAX_TRIP_HISTORY => Cardinality(trips) = states[a].trip_count
    /\ states[a].status = "Tripped" /\ trips # {} => states[a].tripped_at = LastTrip(a)

(* The last alert kept of an asset whose moves add up tells how many there  *)
(* are: who watches the alerts knows how close the breaker is.              *)
CounterIsAnnounced ==
  \A a \in Assets :
    LET alerts == Mine(warning_alerts, a) IN
    states[a].consecutive_deviations > 0 /\ alerts # {}
      => warning_alerts[Last(alerts)].consecutive_count = states[a].consecutive_deviations

(* States, trips and alerts, three stores written one after the other, tell  *)
(* one story.                                                               *)
RecordsAgree == TypeOK /\ TripsAreRecorded /\ CounterIsAnnounced

(* Trips and recoveries set the counter back, and updates are judged while  *)
(* the asset is Tripped too: a row of large moves is accepted for the time  *)
(* of the trip and again when the asset is Active, but never a longer one.  *)
(* The exception is a configuration whose recovery admits large moves.      *)
RampsAreBounded ==
  \A a \in Assets :
    \/ ramp[a] = 0
    \/ ramp[a] <= 2 * (config.consecutive_deviation_count - 1)
    \/ config.recovery_max_change >= config.min_consecutive_deviation

(* Without the administrator, a breaker goes round in one direction only:   *)
(* it recovers when the cooldown since its last trip is over, is Active     *)
(* again after the recovery, and trips out of a recovery only if that       *)
(* admits moves large enough.                                               *)
LifeCycle ==
  [][\/ \E a \in Assets : Administration(a)
     \/ \A a \in Assets :
          LET old == states[a]
              new == states'[a]
          IN  \/ new.status = old.status
              \/ old.status = "Active" /\ new.status = "Tripped"
              \/ /\ old.status = "Tripped" /\ new.status = "Recovery"
                 /\ Mine(trip_history, a) # {} => now >= LastTrip(a) + config.cooldown_period
              \/ /\ old.status = "Recovery" /\ new.status = "Active"
                 /\ now >= old.recovery_started_at + RECOVERY_MODE_DURATION
              \/ /\ old.status = "Recovery" /\ new.status = "Tripped"
                 /\ \/ config.recovery_max_change >= config.single_deviation_threshold
                    \/ config.recovery_max_change >= config.min_consecutive_deviation
    ]_vars
=============================================================================
