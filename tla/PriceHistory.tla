---------------------------- MODULE PriceHistory ----------------------------
(***************************************************************************)
(* PriceHistoryManager of price_history.rs, for one asset (assets share no *)
(* data). A price is entered in one bucket of every granularity; minutes   *)
(* that are old enough are compressed into hours, hours into days, and     *)
(* what is compressed is pruned. Prices may arrive late. Volumes, exports  *)
(* and the anomaly detector, which keeps nothing, are left out.            *)
(***************************************************************************)
EXTENDS Integers, FiniteSets, FiniteSetsExt, Maps

CONSTANTS
  Duration,                  \* the width of the buckets of each granularity
  HOUR_SECS, DAY_SECS,       \* bucket_secs of the two archives
  TIER_RECENT_SECS, TIER_MEDIUM_SECS,
  MAX_HISTORY_RETENTION,
  archival_interval_secs, CacheSecs, SmaPeriods,
  HistoryPrices, Ages, Retentions,
  HistoryStart, Steps, MaxHistoryTime, MaxEntries   \* bounds of the model

Granularities == DOMAIN Duration

PriceHistoryAssumption ==
  /\ "OneMinute" \in Granularities /\ \A g \in Granularities : Duration[g] \in Nat \ {0}
  /\ HOUR_SECS % Duration["OneMinute"] = 0 /\ DAY_SECS % HOUR_SECS = 0
  /\ MAX_HISTORY_RETENTION <= TIER_RECENT_SECS /\ TIER_RECENT_SECS <= TIER_MEDIUM_SECS
  /\ HistoryPrices \subseteq Nat \ {0} /\ {HOUR_SECS, DAY_SECS} \subseteq Nat \ {0}
  /\ {TIER_RECENT_SECS, TIER_MEDIUM_SECS, MAX_HISTORY_RETENTION, HistoryStart} \subseteq Nat
  /\ Ages \cup Retentions \cup Steps \subseteq Nat
  /\ \A s \in Ages \cup Retentions \cup SmaPeriods : s < HistoryStart

VARIABLES
  clock,
  store,                     \* [live, medium, historical]
  metadata,                  \* of the asset, once it has a price
  analytics,                 \* the cache: empty or one answer
  archival                   \* [auto, last_run]

historyVars == <<clock, store, metadata, analytics, archival>>

HistoryInit ==
  /\ clock = HistoryStart
  /\ store = [live |-> [g \in Granularities |-> EmptyMap], medium |-> EmptyMap, historical |-> EmptyMap]
  /\ metadata = [total_entries |-> 0, last_timestamp |-> 0, low |-> 0, high |-> 0]
  /\ analytics = {}
  /\ archival = [auto |-> TRUE, last_run |-> 0]

-----------------------------------------------------------------------------
Stored(buckets, g, price, t) ==
  LET index == t \div Duration[g]
      new   == [open |-> price, high |-> price, low |-> price, close |-> price,
                entry_count |-> 0, first_timestamp |-> t, last_timestamp |-> t]
      old   == GetOr(buckets, index, new)
  IN  Put(buckets, index,
          [old EXCEPT !.close = price, !.high = Max({@, price}), !.low = Min({@, price}),
                      !.entry_count = @ + 1, !.last_timestamp = t])

\* An hour or a day out of the buckets of m at the given keys, oldest first.
Merged(m, keys, Sum(_), Count(_)) ==
  [open |-> m[Min(keys)].open, close |-> m[Max(keys)].close,
   high |-> Max({m[k].high : k \in keys}), low |-> Min({m[k].low : k \in keys}),
   price_sum |-> MapThenSumSet(Sum, keys), raw_entry_count |-> MapThenSumSet(Count, keys)]

MergedMinutes(m, keys) ==
  Merged(m, keys, LAMBDA k : m[k].close, LAMBDA k : m[k].entry_count)

MergedHours(m, keys) ==
  Merged(m, keys, LAMBDA k : m[k].price_sum, LAMBDA k : m[k].raw_entry_count)

Kept(m, Keep(_)) == [k \in {k \in DOMAIN m : Keep(k)} |-> m[k]]

\* or_insert_with: a window that is archived already stays as it is.
Archived(archive, windows, New(_)) ==
  [w \in DOMAIN archive \cup windows |-> IF w \in DOMAIN archive THEN archive[w] ELSE New(w)]

\* Mutant: minutes are pruned a bucket late.
CompressedKeepingOne(s, cutoff) ==
  LET minutes == s.live["OneMinute"]
      old     == {i \in DOMAIN minutes : i < cutoff \div Duration["OneMinute"]}
      Window(i) == (minutes[i].first_timestamp \div HOUR_SECS) * HOUR_SECS
      full    == {w \in {Window(i) : i \in old} : w + HOUR_SECS <= cutoff}
  IN  [s EXCEPT
        !.medium = Archived(@, full, LAMBDA w : MergedMinutes(minutes, {i \in old : Window(i) = w})),
        !.live = [g \in Granularities |-> Kept(@[g], LAMBDA i : i + 1 >= cutoff \div Duration[g])]]

\* What is older than the cutoff is pruned, whether its hour was full or not.
compress_live_to_medium(s, cutoff) ==
  LET minutes == s.live["OneMinute"]
      old     == {i \in DOMAIN minutes : i < cutoff \div Duration["OneMinute"]}
      Window(i) == (minutes[i].first_timestamp \div HOUR_SECS) * HOUR_SECS
      full    == {w \in {Window(i) : i \in old} : w + HOUR_SECS <= cutoff}
  IN  IF old = {} THEN s
      ELSE [s EXCEPT
             !.medium = Archived(@, full, LAMBDA w : MergedMinutes(minutes, {i \in old : Window(i) = w})),
             !.live = [g \in Granularities |-> Kept(@[g], LAMBDA i : i >= cutoff \div Duration[g])]]

\* Mutant: a day that is archived already is made anew from what came late.
HistoricalReplaced(s, cutoff) ==
  LET old    == {w \in DOMAIN s.medium : w < cutoff}
      Day(w) == (w \div DAY_SECS) * DAY_SECS
      full   == {d \in {Day(w) : w \in old} : d + DAY_SECS <= cutoff}
  IN  [s EXCEPT
        !.historical = Archived(Kept(@, LAMBDA d : d \notin full), full,
                                LAMBDA d : MergedHours(s.medium, {w \in old : Day(w) = d})),
        !.medium = Kept(@, LAMBDA w : w >= cutoff)]

compress_medium_to_historical(s, cutoff) ==
  LET old    == {w \in DOMAIN s.medium : w < cutoff}
      Day(w) == (w \div DAY_SECS) * DAY_SECS
      full   == {d \in {Day(w) : w \in old} : d + DAY_SECS <= cutoff}
  IN  [s EXCEPT
        !.historical = Archived(@, full, LAMBDA d : MergedHours(s.medium, {w \in old : Day(w) = d})),
        !.medium = Kept(@, LAMBDA w : w >= cutoff)]

Before(secs) == IF clock > secs THEN clock - secs ELSE 0

Compacted(s) ==
  compress_medium_to_historical(compress_live_to_medium(s, Before(TIER_RECENT_SECS)),
                                Before(TIER_MEDIUM_SECS))

-----------------------------------------------------------------------------
\* Live buckets first: of two with one first timestamp, the code keeps the first.
get_price_history(g, start_time, end_time) ==
  LET buckets == store.live[g]
      live == {i \in DOMAIN buckets : i \in start_time \div Duration[g] .. end_time \div Duration[g]}
      byTime == [t \in {buckets[i].first_timestamp : i \in live} |-> buckets[t \div Duration[g]]]
      InRange(w) == w \in start_time .. end_time
      Window(m, secs) ==
        [w \in {w \in DOMAIN m : InRange(w)} |->
           [open |-> m[w].open, high |-> m[w].high, low |-> m[w].low, close |-> m[w].close,
            entry_count |-> m[w].raw_entry_count,
            first_timestamp |-> w, last_timestamp |-> w + secs - 1]]
      hours == Window(store.medium, HOUR_SECS)
      days  == Window(store.historical, DAY_SECS)
  IN  [t \in DOMAIN byTime \cup DOMAIN hours \cup DOMAIN days |->
         IF t \in DOMAIN byTime THEN byTime[t] ELSE IF t \in DOMAIN hours THEN hours[t] ELSE days[t]]

\* Mutant: the period may reach into the archives.
PeriodOfAnyTier(period) == period \in 1 .. TIER_MEDIUM_SECS

PeriodAllowed(period) == period \in 1 .. MAX_HISTORY_RETENTION

\* The sums behind a TWAP: every bucket but the first weighs the close before it.
calculate_twap(period) ==
  LET h == get_price_history("OneMinute", clock - period, clock)
      later == {t \in DOMAIN h : \E u \in DOMAIN h : u < t}
      Previous(t) == h[Max({u \in DOMAIN h : u < t})]
      Weight(t) == t - Previous(t).last_timestamp
  IN  [weights |-> {Weight(t) : t \in later},
       total_weight |-> MapThenSumSet(Weight, later),
       weighted_sum |-> MapThenSumSet(LAMBDA t : Previous(t).close * Weight(t), later),
       closes |-> {h[t].close : t \in DOMAIN h}]

Closes(period) == get_price_history("OneMinute", clock - period, clock)

calculate_sma(period) ==
  LET h == Closes(period)
  IN  MapThenSumSet(LAMBDA t : h[t].close, DOMAIN h) \div Cardinality(DOMAIN h)

\* Ten steps from the variance: a square root only if that is enough of them.
calculate_volatility(period) ==
  LET h    == Closes(period)
      mean == calculate_sma(period)
      variance == MapThenSumSet(LAMBDA t : (h[t].close - mean) * (h[t].close - mean), DOMAIN h)
                    \div Cardinality(DOMAIN h)
      approx[n \in 0..10] ==
        IF n = 0 THEN variance
        ELSE IF approx[n - 1] > 1 THEN (approx[n - 1] + variance \div approx[n - 1]) \div 2
             ELSE approx[n - 1]
  IN  (approx[10] * 10000) \div mean

trend(short, long) == IF short > long THEN "Up" ELSE IF short < long THEN "Down" ELSE "Sideways"

-----------------------------------------------------------------------------
\* Mutant: the cached analytics survive a new price.
CacheKept == analytics

invalidate_analytics_cache == {}

update_asset_metadata(price, t) ==
  metadata' = [total_entries |-> metadata.total_entries + 1, last_timestamp |-> t,
               low |-> IF metadata.total_entries = 0 THEN price ELSE Min({metadata.low, price}),
               high |-> Max({metadata.high, price})]

store_price(price, age) ==
  LET t   == clock - age
      new == [store EXCEPT !.live = [g \in Granularities |-> Stored(@[g], g, price, t)]]
      due == archival.auto /\ clock - archival.last_run >= archival_interval_secs
  IN  /\ metadata.total_entries < MaxEntries
      /\ store' = IF due THEN Compacted(new) ELSE new
      /\ archival' = IF due THEN [archival EXCEPT !.last_run = clock] ELSE archival
      /\ update_asset_metadata(price, t)
      /\ analytics' = invalidate_analytics_cache
      /\ UNCHANGED clock

run_archival ==
  /\ store' = Compacted(store)
  /\ archival' = [archival EXCEPT !.last_run = clock]
  /\ UNCHANGED <<clock, metadata, analytics>>

set_archival_config ==
  /\ archival' = [archival EXCEPT !.auto = ~@]
  /\ UNCHANGED <<clock, store, metadata, analytics>>

\* The archives are not cleaned.
cleanup_old_data(retention_period) ==
  /\ store' = [store EXCEPT !.live = [g \in Granularities |->
                 Kept(@[g], LAMBDA i : i >= (clock - retention_period) \div Duration[g])]]
  /\ UNCHANGED <<clock, metadata, analytics, archival>>

get_analytics ==
  /\ \A cached \in analytics : clock - cached.last_update >= CacheSecs
  /\ \A period \in SmaPeriods : DOMAIN Closes(period) # {}
  /\ analytics' = {[sma |-> [period \in SmaPeriods |-> calculate_sma(period)],
                    volatility |-> calculate_volatility(Max(SmaPeriods)),
                    trend |-> trend(calculate_sma(Min(SmaPeriods)), calculate_sma(Max(SmaPeriods))),
                    last_update |-> clock]}
  /\ UNCHANGED <<clock, store, metadata, archival>>

HistoryElapse(secs) ==
  /\ clock + secs <= MaxHistoryTime
  /\ clock' = clock + secs
  /\ UNCHANGED <<store, metadata, analytics, archival>>

HistoryNext ==
  \/ \E price \in HistoryPrices, age \in Ages : store_price(price, age)
  \/ run_archival \/ set_archival_config \/ get_analytics
  \/ \E period \in Retentions : cleanup_old_data(period)
  \/ \E secs \in Steps : HistoryElapse(secs)

-----------------------------------------------------------------------------
EntriesOf(m, Count(_)) == MapThenSumSet(Count, DOMAIN m)

(* However late prices come and however often archiving runs, a price is      *)
(* counted in one tier at most; compression never invents an entry.           *)
CountedOnce ==
  EntriesOf(store.live["OneMinute"], LAMBDA i : store.live["OneMinute"][i].entry_count)
    + EntriesOf(store.medium, LAMBDA w : store.medium[w].raw_entry_count)
    + EntriesOf(store.historical, LAMBDA d : store.historical[d].raw_entry_count)
  <= metadata.total_entries

(* A time-weighted average lies between the closes it is made of: no two      *)
(* buckets of its window overlap, since no period it accepts reaches an       *)
(* archived window.                                                           *)
TwapInRange ==
  \A period \in 1 .. TIER_MEDIUM_SECS :
    LET twap == calculate_twap(period)
    IN  PeriodAllowed(period) /\ twap.total_weight # 0 =>
          /\ \A w \in twap.weights : w >= 0
          /\ twap.weighted_sum \in Min(twap.closes) * twap.total_weight
                                .. Max(twap.closes) * twap.total_weight

(* Analytics are never served from before the last price stored.              *)
CacheIsFresh == \A cached \in analytics : cached.last_update >= metadata.last_timestamp

(* An archived day never changes; an archived hour only goes into a day, once *)
(* it is old enough.                                                          *)
ArchiveIsKept ==
  [][/\ \A d \in DOMAIN store.historical :
          d \in DOMAIN store'.historical /\ store'.historical[d] = store.historical[d]
     /\ \A w \in DOMAIN store.medium :
          IF w \in DOMAIN store'.medium THEN store'.medium[w] = store.medium[w]
          ELSE w < Before(TIER_MEDIUM_SECS)]_historyVars

(* price_history.rs:1149, of run_archival: "Live buckets that have been       *)
(* archived are pruned from the live store": what it prunes is in an archive. *)
ArchivedBeforePruned ==
  [][archival'.last_run # archival.last_run =>
       \A i \in DOMAIN store.live["OneMinute"] \ DOMAIN store'.live["OneMinute"] :
         LET t == store.live["OneMinute"][i].first_timestamp
         IN  \/ (t \div HOUR_SECS) * HOUR_SECS \in DOMAIN store'.medium
             \/ (t \div DAY_SECS) * DAY_SECS \in DOMAIN store'.historical]_historyVars
=============================================================================
