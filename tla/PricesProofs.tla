----------------------------- MODULE PricesProofs -----------------------------
(***************************************************************************)
(* Theorems about what prices pass through. First the circuit breaker: its *)
(* three records agree (RecordsAgree is inductive as it stands), a row of  *)
(* large moves is short (RampInv says for each status how long it may be), *)
(* and the round of a breaker has one direction.                           *)
(*                                                                         *)
(* Then the others, each with an invariant of its own: ManagerInv bounds   *)
(* the active weights and the minimum of oracles, NodeInv types what the   *)
(* decentralized oracle judges and averages, HistoryInv counts the entries *)
(* of the three tiers and dates their windows, FailoverInv keeps the chain *)
(* sorted, and StreamInv is that of PriceStream. The five properties of    *)
(* MCPrices but the liveness one follow.                                   *)
(***************************************************************************)
EXTENDS MCPrices, SumLemmas

-----------------------------------------------------------------------------
(* Lists of records that keep the newest *)

LEMMA LastIs ==
  ASSUME NEW S \in SUBSET Int, NEW i \in S, \A j \in S : j <= i
  PROVE  Last(S) = i
<1>1. \E k \in S : \A j \in S : j <= k
  OBVIOUS
<1>2. Last(S) \in S /\ \A j \in S : j <= Last(S)
  BY <1>1 DEF Last
<1>3. Last(S) \in Int /\ i \in Int /\ Last(S) <= i /\ i <= Last(S)
  BY <1>2
<1>4. QED BY <1>3

LEMMA GreatestElement ==
  ASSUME NEW n \in Nat, NEW T \in SUBSET (1..n), T # {}
  PROVE  \E m \in T : \A y \in T : y <= m
<1> DEFINE D == {n - y : y \in T}
<1>0. \A y \in T : y \in Int /\ n - y \in Nat
  OBVIOUS
<1>1. D \in SUBSET Nat /\ D # {}
  <2>1. PICK y \in T : TRUE
    OBVIOUS
  <2>2. n - y \in D
    OBVIOUS
  <2>3. QED BY <1>0, <2>2
<1>2. PICK d \in D : \A e \in D : d <= e
  <2> HIDE DEF D
  <2>1. QED BY <1>1, LeastElement
<1>3. PICK m \in T : d = n - m
  BY <1>2
<1>4. \A y \in T : n - m <= n - y
  BY <1>2, <1>3
<1> HIDE DEF D
<1>5. \A y \in T : y <= m
  BY <1>0, <1>4
<1>6. QED BY <1>5

\* t is s with the first k records dropped and x added at the end.
Shifted(s, x, k, t) ==
  /\ k \in {0, 1} /\ k <= Len(s)
  /\ Len(s) \in Nat /\ DOMAIN s = 1..Len(s)
  /\ Len(t) \in Nat /\ DOMAIN t = 1..Len(t)
  /\ Len(t) = Len(s) + 1 - k
  /\ t[Len(t)] = x
  /\ \A i \in 1..(Len(t) - 1) : t[i] = s[i + k]

LEMMA NewestShifts ==
  ASSUME NEW R, NEW s \in Seq(R), NEW x \in R, NEW M \in Nat \ {0}, Len(s) <= M
  PROVE  LET t == Newest(Append(s, x), M)
         IN  /\ t \in Seq(R)
             /\ Len(t) <= M
             /\ \/ Shifted(s, x, 0, t)
                \/ Shifted(s, x, 1, t) /\ Len(t) = M /\ Len(s) >= 1
<1> DEFINE u == Append(s, x)
           t == Newest(u, M)
<1>1. /\ u \in Seq(R) /\ Len(u) = Len(s) + 1 /\ Len(s) \in Nat
      /\ u[Len(u)] = x /\ \A i \in 1..Len(s) : u[i] = s[i]
  OBVIOUS
<1>2. CASE Len(u) <= M
  <2>1. t = u
    BY <1>2 DEF Newest
  <2>2. Shifted(s, x, 0, u)
    BY <1>1 DEF Shifted
  <2> HIDE DEF u, t
  <2>3. QED BY <1>1, <1>2, <2>1, <2>2 DEF t, u
<1>3. CASE ~(Len(u) <= M)
  <2>1. Len(s) = M
    BY <1>1, <1>3
  <2>2. t = SubSeq(u, 2, M + 1)
    BY <1>1, <1>3, <2>1 DEF Newest
  <2> HIDE DEF u
  <2>3. /\ SubSeq(u, 2, M + 1) \in Seq(R)
        /\ Len(SubSeq(u, 2, M + 1)) = M
        /\ \A i \in 1..M : SubSeq(u, 2, M + 1)[i] = u[i + 1]
    BY <1>1, <2>1
  <2> HIDE DEF t
  <2>4. t \in Seq(R) /\ Len(t) = M /\ \A i \in 1..M : t[i] = u[i + 1]
    BY <2>2, <2>3
  <2>5. t[M] = x /\ \A i \in 1..(M - 1) : t[i] = s[i + 1]
    BY <1>1, <2>1, <2>4
  <2>6. Shifted(s, x, 1, t)
    BY <2>1, <2>4, <2>5 DEF Shifted
  <2>7. QED BY <2>1, <2>4, <2>6 DEF t, u
<1>4. QED BY <1>2, <1>3

\* Where the records of an asset stand in the longer list.
LEMMA MineShifts ==
  ASSUME NEW s, NEW t, NEW x, NEW k, NEW a, Shifted(s, x, k, t)
  PROVE  /\ Mine(t, a) = {i - k : i \in {j \in Mine(s, a) : j > k}}
                           \cup (IF x.asset = a THEN {Len(t)} ELSE {})
         /\ IsFiniteSet(Mine(s, a)) /\ IsFiniteSet(Mine(t, a))
         /\ Mine(s, a) \subseteq 1..Len(s)
<1>0. /\ k \in {0, 1} /\ k <= Len(s)
      /\ Len(s) \in Nat /\ DOMAIN s = 1..Len(s)
      /\ Len(t) \in Nat /\ DOMAIN t = 1..Len(t)
  BY DEF Shifted
<1>1. \A i \in 1..Len(t) : i # Len(t) => i + k \in 1..Len(s) /\ t[i] = s[i + k]
  BY DEF Shifted
<1>2. ASSUME NEW i \in {j \in Mine(s, a) : j > k}
      PROVE  i - k \in Mine(t, a)
  <2>1. i \in 1..Len(s) /\ i > k /\ s[i].asset = a
    BY DEF Mine
  <2>2. i - k \in 1..Len(t) /\ i - k # Len(t) /\ (i - k) + k = i
    BY <2>1 DEF Shifted
  <2>3. QED BY <1>1, <2>1, <2>2 DEF Mine
<1>3. ASSUME NEW i \in Mine(t, a), i # Len(t)
      PROVE  \E j \in Mine(s, a) : j > k /\ i = j - k
  <2>1. i \in 1..Len(t) /\ t[i].asset = a
    BY DEF Mine
  <2>2. i + k \in 1..Len(s) /\ t[i] = s[i + k]
    BY <1>1, <1>3, <2>1
  <2>5. i + k > k /\ i = (i + k) - k
    BY <1>0, <2>1
  <2>3. i + k \in Mine(s, a)
    BY <2>1, <2>2 DEF Mine
  <2>4. QED BY <2>3, <2>5
<1>4. Len(t) \in Mine(t, a) <=> x.asset = a
  BY DEF Mine, Shifted
<1>5. Mine(s, a) \subseteq 1..Len(s) /\ Mine(t, a) \subseteq 1..Len(t)
  BY <1>0 DEF Mine
<1>6. IsFiniteSet(Mine(s, a)) /\ IsFiniteSet(Mine(t, a))
  <2>1. IsFiniteSet(1..Len(s)) /\ IsFiniteSet(1..Len(t))
    BY FS_Interval
  <2>2. QED BY <1>5, <2>1, FS_Subset
<1>7. Mine(t, a) = {i - k : i \in {j \in Mine(s, a) : j > k}}
                     \cup (IF x.asset = a THEN {Len(t)} ELSE {})
  BY <1>2, <1>3, <1>4
<1>8. QED BY <1>5, <1>6, <1>7

\* What the records of an asset are once x was added to s, of which the M
\* newest are kept: t.
Grown(s, x, M, t, a) ==
  /\ Cardinality(Mine(s, a)) \in Nat /\ Cardinality(Mine(t, a)) \in Nat
  /\ Len(t) < M => Len(s) < M
  /\ x.asset # a => /\ Cardinality(Mine(t, a)) <= Cardinality(Mine(s, a))
                    /\ Len(t) < M => Mine(t, a) = Mine(s, a)
                    /\ Mine(t, a) # {} =>
                         /\ Mine(s, a) # {}
                         /\ t[Last(Mine(t, a))] = s[Last(Mine(s, a))]
  /\ x.asset = a => /\ Cardinality(Mine(t, a)) <= Cardinality(Mine(s, a)) + 1
                    /\ Len(t) < M => Cardinality(Mine(t, a)) = Cardinality(Mine(s, a)) + 1
                    /\ t[Last(Mine(t, a))] = x

LEMMA MineAfter ==
  ASSUME NEW s, NEW t, NEW x, NEW k, NEW a, Shifted(s, x, k, t),
         NEW M \in Nat, k = 1 => Len(t) = M
  PROVE  Grown(s, x, M, t, a)
<1>0. /\ k \in {0, 1} /\ k <= Len(s)
      /\ Len(s) \in Nat /\ DOMAIN s = 1..Len(s)
      /\ Len(t) \in Nat /\ DOMAIN t = 1..Len(t)
      /\ Len(t) = Len(s) + 1 - k
  BY DEF Shifted
<1> DEFINE old == {j \in Mine(s, a) : j > k}
           kept == {i - k : i \in old}
           f == [i \in old |-> i - k]
<1>1. /\ Mine(t, a) = kept \cup (IF x.asset = a THEN {Len(t)} ELSE {})
      /\ IsFiniteSet(Mine(s, a)) /\ IsFiniteSet(Mine(t, a))
      /\ Mine(s, a) \subseteq 1..Len(s)
  BY MineShifts
<1>2. IsFiniteSet(old) /\ Cardinality(old) <= Cardinality(Mine(s, a))
  BY <1>1, FS_Subset
<1>3. f \in Surjection(old, kept)
  BY DEF Surjection
<1>4. IsFiniteSet(kept) /\ Cardinality(kept) <= Cardinality(old)
  <2> HIDE DEF f, old, kept
  <2>1. QED BY <1>2, <1>3, FS_Surjection
<1>5. /\ Cardinality(Mine(s, a)) \in Nat /\ Cardinality(Mine(t, a)) \in Nat
      /\ Cardinality(old) \in Nat /\ Cardinality(kept) \in Nat
  BY <1>1, <1>2, <1>4, FS_CardinalityType
<1>6. k = 0 => kept = Mine(s, a)
  BY <1>1
<1>7. Len(t) \notin kept
  BY <1>1 DEF Shifted
<1>8. ASSUME x.asset # a
      PROVE  /\ Cardinality(Mine(t, a)) <= Cardinality(Mine(s, a))
             /\ k = 0 => Mine(t, a) = Mine(s, a)
             /\ Mine(t, a) # {} => /\ Mine(s, a) # {}
                                   /\ t[Last(Mine(t, a))] = s[Last(Mine(s, a))]
  <2>1. Mine(t, a) = kept
    BY <1>1, <1>8
  <2>2. ASSUME Mine(t, a) # {}
        PROVE  Mine(s, a) # {} /\ t[Last(Mine(t, a))] = s[Last(Mine(s, a))]
    <3>1. Mine(s, a) # {} /\ old # {}
      BY <2>1, <2>2
    <3>2. PICK m \in old : \A j \in old : j <= m
      <4> HIDE DEF kept, f
      <4>1. old \in SUBSET (1..Len(s))
        BY <1>1
      <4> HIDE DEF old
      <4>2. QED BY <1>0, <3>1, <4>1, GreatestElement
    <3>3. Last(Mine(s, a)) = m
      <4>1. Mine(s, a) \in SUBSET Int /\ m \in Mine(s, a) /\ m > k
        BY <1>1, <3>2
      <4>2. \A j \in Mine(s, a) : j <= m
        BY <1>0, <1>1, <3>2, <4>1
      <4>3. QED BY <4>1, <4>2, LastIs
    <3>4. Last(Mine(t, a)) = m - k
      <4>1. m - k \in kept /\ \A j \in kept : j <= m - k
        BY <1>0, <1>1, <3>2
      <4>2. kept \in SUBSET Int
        BY <1>0, <1>1
      <4> HIDE DEF kept
      <4>3. QED BY <2>1, <4>1, <4>2, LastIs
    <3>5. m - k \in 1..(Len(t) - 1) /\ (m - k) + k = m
      BY <1>1, <3>2 DEF Shifted
    <3>6. t[m - k] = s[m]
      BY <3>5 DEF Shifted
    <3>7. QED BY <3>1, <3>3, <3>4, <3>6
  <2> HIDE DEF kept, old, f
  <2>3. QED BY <1>2, <1>4, <1>5, <1>6, <2>1, <2>2
<1>9. ASSUME x.asset = a
      PROVE  /\ Cardinality(Mine(t, a)) <= Cardinality(Mine(s, a)) + 1
             /\ k = 0 => Cardinality(Mine(t, a)) = Cardinality(Mine(s, a)) + 1
             /\ Last(Mine(t, a)) = Len(t) /\ Mine(t, a) # {}
             /\ t[Len(t)] = x
  <2>1. Mine(t, a) = kept \cup {Len(t)}
    BY <1>1, <1>9
  <2>2. \A j \in Mine(t, a) : j \in Int /\ j <= Len(t)
    BY <1>0 DEF Mine
  <2> HIDE DEF kept, old, f
  <2>3. Cardinality(Mine(t, a)) = Cardinality(kept) + 1
    BY <1>4, <1>7, <2>1, FS_AddElement
  <2>4. Last(Mine(t, a)) = Len(t)
    <3>1. Mine(t, a) \in SUBSET Int /\ Len(t) \in Mine(t, a)
      BY <2>1, <2>2
    <3>2. QED BY <2>2, <3>1, LastIs
  <2>5. t[Len(t)] = x
    BY DEF Shifted
  <2>6. /\ Cardinality(kept) + 1 <= Cardinality(Mine(s, a)) + 1
        /\ k = 0 => Cardinality(kept) = Cardinality(Mine(s, a))
    BY <1>2, <1>4, <1>5, <1>6
  <2>7. Mine(t, a) # {}
    BY <2>1
  <2>8. QED BY <2>3, <2>4, <2>5, <2>6, <2>7
<1>10. Len(t) < M => k = 0 /\ Len(s) < M
  BY <1>0
<1>11. t[Len(t)] = x
  BY DEF Shifted
<1> HIDE DEF old, kept, f
<1>12. QED BY <1>5, <1>8, <1>9, <1>10, <1>11 DEF Grown

\* A list that keeps its M newest records.
LEMMA AfterNewest ==
  ASSUME NEW R, NEW s \in Seq(R), NEW x \in R, NEW M \in Nat \ {0}, Len(s) <= M,
         NEW t, t = Newest(Append(s, x), M)
  PROVE  t \in Seq(R) /\ Len(t) <= M /\ \A a : Grown(s, x, M, t, a)
<1>1. /\ t \in Seq(R) /\ Len(t) <= M
      /\ \/ Shifted(s, x, 0, t)
         \/ Shifted(s, x, 1, t) /\ Len(t) = M /\ Len(s) >= 1
  BY NewestShifts
<1>2. PICK k \in {0, 1} : Shifted(s, x, k, t) /\ (k = 1 => Len(t) = M)
  BY <1>1
<1>3. ASSUME NEW a PROVE Grown(s, x, M, t, a)
  <2>1. QED BY <1>2, MineAfter
<1>4. QED BY <1>1, <1>3

-----------------------------------------------------------------------------
(* States, trips and alerts *)

TripRecord == [asset : Assets, timestamp : 0 .. now,
               reason : {"SINGLE_DEV", "CONSEC_DEV", "MANUAL"}]
AlertRecord == [asset : Assets, consecutive_count : Nat,
                level : {"Info", "Warning", "Critical"}]

\* The state st of one asset, at a time.
StateAt(st, time) ==
  /\ st \in StateType
  /\ {st.tripped_at, st.last_update, st.recovery_started_at} \subseteq 0 .. time

StatesOK == states = [a \in Assets |-> states[a]] /\ \A a \in Assets : StateAt(states[a], now)
TripsOK  == trip_history \in Seq(TripRecord) /\ Len(trip_history) <= MAX_TRIP_HISTORY
AlertsOK == warning_alerts \in Seq(AlertRecord) /\ Len(warning_alerts) <= MAX_WARNING_ALERTS
RestOK   == /\ now \in Nat /\ config \in ConfigType /\ global_pause \in BOOLEAN
            /\ ramp \in [Assets -> Nat]

LEMMA TypeParts == TypeOK <=> StatesOK /\ TripsOK /\ AlertsOK /\ RestOK
BY DEF TypeOK, StatesOK, StateAt, TripsOK, AlertsOK, RestOK, TripRecord, AlertRecord

\* TripsAreRecorded and CounterIsAnnounced, of one asset.
Recorded(h, st, a) ==
  /\ Cardinality(Mine(h, a)) <= st.trip_count
  /\ Len(h) < MAX_TRIP_HISTORY => Cardinality(Mine(h, a)) = st.trip_count
  /\ st.status = "Tripped" /\ Mine(h, a) # {}
       => st.tripped_at = h[Last(Mine(h, a))].timestamp

Announced(w, st, a) ==
  st.consecutive_deviations > 0 /\ Mine(w, a) # {}
    => w[Last(Mine(w, a))].consecutive_count = st.consecutive_deviations

LEMMA RecordParts ==
  /\ TripsAreRecorded <=> \A a \in Assets : Recorded(trip_history, states[a], a)
  /\ CounterIsAnnounced <=> \A a \in Assets : Announced(warning_alerts, states[a], a)
BY DEF TripsAreRecorded, CounterIsAnnounced, Recorded, Announced, LastTrip

\* What becomes of the state of a when it is all that changes in it.
LEMMA OneState ==
  ASSUME StatesOK, NEW a \in Assets, NEW st, StateAt(st, now), now' = now,
         states' = [states EXCEPT ![a] = st]
  PROVE  /\ StatesOK'
         /\ states'[a] = st
         /\ \A b \in Assets : b # a => states'[b] = states[b]
BY DEF StatesOK, StateAt

LEMMA TripStep ==
  ASSUME TypeOK, TripsAreRecorded, NEW a \in Assets,
         NEW reason \in {"SINGLE_DEV", "CONSEC_DEV", "MANUAL"},
         trip_circuit_breaker(a, reason), now' = now
  PROVE  /\ StatesOK' /\ TripsOK' /\ TripsAreRecorded'
         /\ states'[a].consecutive_deviations = 0
         /\ states'[a].status = "Tripped"
         /\ \A b \in Assets : b # a => states'[b] = states[b]
         /\ ramp' = [ramp EXCEPT ![a] = 0]
<1>1. /\ StatesOK /\ TripsOK /\ now \in Nat /\ MAX_TRIP_HISTORY \in Nat \ {0}
      /\ StateAt(states[a], now)
  BY TypeParts, CircuitBreakerAssumption DEF RestOK, StatesOK
<1>2. PICK st : st = states'[a]
  OBVIOUS
<1>3. states[a] \in StateType /\ a \in DOMAIN states
  BY <1>1 DEF StatesOK, StateAt
<1>4. st = [states[a] EXCEPT !.status = "Tripped", !.consecutive_deviations = 0,
                             !.tripped_at = now, !.trip_count = states[a].trip_count + 1]
  <2>1. states' = [states EXCEPT ![a] = [states[a] EXCEPT
          !.status = "Tripped", !.consecutive_deviations = 0,
          !.tripped_at = now, !.trip_count = states[a].trip_count + 1]]
    BY DEF trip_circuit_breaker
  <2> DEFINE new == [states[a] EXCEPT
          !.status = "Tripped", !.consecutive_deviations = 0,
          !.tripped_at = now, !.trip_count = states[a].trip_count + 1]
  <2> HIDE DEF new
  <2>2. states' = [states EXCEPT ![a] = new]
    BY <2>1 DEF new
  <2>3. st = new
    BY <1>2, <1>3, <2>2
  <2>4. QED BY <2>3 DEF new
<1>5. /\ st \in StateType
      /\ st.status = "Tripped" /\ st.consecutive_deviations = 0
      /\ st.tripped_at = now /\ st.trip_count = states[a].trip_count + 1
      /\ st.last_update = states[a].last_update
      /\ st.recovery_started_at = states[a].recovery_started_at
  <2>1. PICK old : old = states[a]
    OBVIOUS
  <2>2. old \in StateType /\ now \in Nat /\ old.trip_count \in Nat /\ old.trip_count + 1 \in Nat
    BY <1>1, <1>3, <2>1 DEF StateType
  <2>3. st = [old EXCEPT !.status = "Tripped", !.consecutive_deviations = 0,
                         !.tripped_at = now, !.trip_count = old.trip_count + 1]
    BY <1>4, <2>1
  <2>4. /\ st \in StateType
        /\ st.status = "Tripped" /\ st.consecutive_deviations = 0
        /\ st.tripped_at = now /\ st.trip_count = old.trip_count + 1
        /\ st.last_update = old.last_update
        /\ st.recovery_started_at = old.recovery_started_at
    BY <2>2, <2>3 DEF StateType
  <2>5. QED BY <2>1, <2>4
<1>6. StateAt(st, now)
  BY <1>1, <1>5 DEF StateAt
<1>7. states' = [states EXCEPT ![a] = st]
  BY <1>4 DEF trip_circuit_breaker
<1>8. /\ StatesOK' /\ \A b \in Assets : b # a => states'[b] = states[b]
  BY <1>1, <1>6, <1>7, OneState
<1>9. PICK rec : rec = [asset |-> a, timestamp |-> now, reason |-> reason]
  OBVIOUS
<1>10. rec \in TripRecord /\ rec.asset = a /\ rec.timestamp = now
  BY <1>1, <1>9 DEF TripRecord
<1>11. trip_history' = Newest(Append(trip_history, rec), MAX_TRIP_HISTORY)
  BY <1>9 DEF trip_circuit_breaker
<1>12. trip_history \in Seq(TripRecord) /\ Len(trip_history) <= MAX_TRIP_HISTORY
  BY <1>1 DEF TripsOK
<1>16. /\ trip_history' \in Seq(TripRecord) /\ Len(trip_history') <= MAX_TRIP_HISTORY
       /\ \A b : Grown(trip_history, rec, MAX_TRIP_HISTORY, trip_history', b)
  <2>1. PICK s, t, M : s = trip_history /\ t = trip_history' /\ M = MAX_TRIP_HISTORY
    OBVIOUS
  <2> DEFINE R == TripRecord
  <2>2. /\ s \in Seq(R) /\ rec \in R /\ M \in Nat \ {0} /\ Len(s) <= M
        /\ t = Newest(Append(s, rec), M)
    BY <1>1, <1>10, <1>11, <1>12, <2>1
  <2> HIDE DEF R
  <2>3. t \in Seq(R) /\ Len(t) <= M /\ \A b : Grown(s, rec, M, t, b)
    BY <2>2, AfterNewest
  <2>4. QED BY <2>1, <2>3 DEF R
<1>13. TripsOK'
  <2>1. TripRecord' = TripRecord
    BY DEF TripRecord
  <2>2. trip_history' \in Seq(TripRecord) /\ Len(trip_history') <= MAX_TRIP_HISTORY
    BY <1>16
  <2>3. QED BY <2>1, <2>2 DEF TripsOK
<1>14. ASSUME NEW b \in Assets
       PROVE  Recorded(trip_history', states'[b], b)
  <2>1. Recorded(trip_history, states[b], b) /\ states[b].trip_count \in Nat
    BY <1>1, RecordParts DEF StatesOK, StateAt, StateType
  <2>2. CASE b # a
    <3>1. Grown(trip_history, rec, MAX_TRIP_HISTORY, trip_history', b) /\ rec.asset # b
      BY <1>10, <1>16, <2>2
    <3>2. states'[b] = states[b]
      BY <1>8, <2>2
    <3>3. QED BY <2>1, <3>1, <3>2 DEF Recorded, Grown
  <2>3. CASE b = a
    <3>1. Grown(trip_history, rec, MAX_TRIP_HISTORY, trip_history', a) /\ rec.asset = a
      BY <1>10, <1>16
    <3>2. Recorded(trip_history', st, a)
      BY <1>5, <1>10, <2>1, <2>3, <3>1 DEF Recorded, Grown
    <3>3. QED BY <1>2, <2>3, <3>2
  <2>4. QED BY <2>2, <2>3
<1>15. TripsAreRecorded'
  BY <1>14 DEF TripsAreRecorded, Recorded, LastTrip
<1>17. ramp' = [ramp EXCEPT ![a] = 0]
  BY DEF trip_circuit_breaker
<1>18. QED BY <1>2, <1>5, <1>8, <1>13, <1>15, <1>17

\* An alert tells the count; what the other assets were told stays so.
LEMMA AlertStep ==
  ASSUME TypeOK, CounterIsAnnounced, NEW a \in Assets,
         NEW deviation \in Nat, NEW count \in Nat,
         create_warning_alert(a, deviation, count)
  PROVE  /\ AlertsOK'
         /\ \A st : st.consecutive_deviations = count => Announced(warning_alerts', st, a)
         /\ \A b \in Assets : b # a => Announced(warning_alerts', states[b], b)
<1>1. /\ warning_alerts \in Seq(AlertRecord) /\ Len(warning_alerts) <= MAX_WARNING_ALERTS
      /\ MAX_WARNING_ALERTS \in Nat \ {0}
  BY TypeParts, CircuitBreakerAssumption DEF AlertsOK
<1>2. PICK rec : rec = [asset |-> a, consecutive_count |-> count,
                        level |-> Level(deviation, count)]
  OBVIOUS
<1>3. Level(deviation, count) \in {"Info", "Warning", "Critical"}
  BY DEF Level
<1>4. rec \in AlertRecord /\ rec.asset = a /\ rec.consecutive_count = count
  BY <1>2, <1>3 DEF AlertRecord
<1>5. warning_alerts' = Newest(Append(warning_alerts, rec), MAX_WARNING_ALERTS)
  BY <1>2 DEF create_warning_alert
<1>9. /\ warning_alerts' \in Seq(AlertRecord)
      /\ Len(warning_alerts') <= MAX_WARNING_ALERTS
      /\ \A b : Grown(warning_alerts, rec, MAX_WARNING_ALERTS, warning_alerts', b)
  <2>1. PICK s, t, M : s = warning_alerts /\ t = warning_alerts' /\ M = MAX_WARNING_ALERTS
    OBVIOUS
  <2> DEFINE R == AlertRecord
  <2>2. /\ s \in Seq(R) /\ rec \in R /\ M \in Nat \ {0} /\ Len(s) <= M
        /\ t = Newest(Append(s, rec), M)
    BY <1>1, <1>4, <1>5, <2>1
  <2> HIDE DEF R
  <2>3. t \in Seq(R) /\ Len(t) <= M /\ \A b : Grown(s, rec, M, t, b)
    BY <2>2, AfterNewest
  <2>4. QED BY <2>1, <2>3 DEF R
<1>6. AlertsOK'
  <2>1. AlertRecord' = AlertRecord
    BY DEF AlertRecord
  <2>2. QED BY <1>9, <2>1 DEF AlertsOK
<1>7. ASSUME NEW st, st.consecutive_deviations = count
      PROVE  Announced(warning_alerts', st, a)
  <2>1. warning_alerts'[Last(Mine(warning_alerts', a))] = rec
    BY <1>4, <1>9 DEF Grown
  <2>2. QED BY <1>4, <1>7, <2>1 DEF Announced
<1>8. ASSUME NEW b \in Assets, b # a
      PROVE  Announced(warning_alerts', states[b], b)
  <2>1. Mine(warning_alerts', b) # {} =>
          /\ Mine(warning_alerts, b) # {}
          /\ warning_alerts'[Last(Mine(warning_alerts', b))]
               = warning_alerts[Last(Mine(warning_alerts, b))]
    BY <1>4, <1>8, <1>9 DEF Grown
  <2>2. QED BY <2>1, RecordParts DEF Announced
<1>10. QED BY <1>6, <1>7, <1>8

(* The initial state, and one step at a time *)

LEMMA InitialRecords == initialize => RecordsAgree
<1> SUFFICES ASSUME initialize PROVE RecordsAgree
  OBVIOUS
<1>1. NewState \in StateType
  BY DEF NewState, StateType
<1>2. StatesOK
  <2>1. StateAt(NewState, now)
    BY <1>1 DEF initialize, StateAt, NewState
  <2>2. QED BY <2>1 DEF initialize, StatesOK
<1>3. TripsOK /\ AlertsOK
  BY CircuitBreakerAssumption DEF initialize, TripsOK, AlertsOK
<1>4. RestOK
  BY CircuitBreakerAssumption DEF initialize, RestOK, ConfigType
<1>5. TypeOK
  BY <1>2, <1>3, <1>4, TypeParts
<1>6. \A a : Mine(<<>>, a) = {}
  BY DEF Mine
<1>7. Cardinality({}) = 0
  BY FS_EmptySet
<1>8. ASSUME NEW a \in Assets
      PROVE  Recorded(trip_history, states[a], a) /\ Announced(warning_alerts, states[a], a)
  <2>1. states[a].trip_count = 0 /\ states[a].consecutive_deviations = 0
    BY DEF initialize, NewState
  <2>2. Mine(trip_history, a) = {} /\ Cardinality(Mine(trip_history, a)) = 0
    BY <1>6, <1>7 DEF initialize
  <2>3. QED BY <2>1, <2>2 DEF Recorded, Announced
<1>9. QED BY <1>5, <1>8, RecordParts DEF RecordsAgree

\* A step that changes the state of one asset and adds no trip.
LEMMA QuietStep ==
  ASSUME RecordsAgree, now' = now, NEW a \in Assets, NEW st, StateAt(st, now),
         states' = [states EXCEPT ![a] = st], trip_history' = trip_history,
         st.trip_count = states[a].trip_count,
         st.status = "Tripped" => states[a].status = "Tripped" /\ st.tripped_at = states[a].tripped_at,
         AlertsOK', Announced(warning_alerts', st, a),
         \A b \in Assets : b # a => Announced(warning_alerts', states[b], b),
         config' \in ConfigType, global_pause' \in BOOLEAN, ramp' \in [Assets -> Nat]
  PROVE  RecordsAgree'
<1>1. TypeOK /\ StatesOK /\ TripsOK /\ now \in Nat
  BY TypeParts DEF RecordsAgree, RestOK
<1>2. /\ StatesOK' /\ states'[a] = st
      /\ \A b \in Assets : b # a => states'[b] = states[b]
  BY <1>1, OneState
<1>3. TripsOK'
  <2>1. TripRecord' = TripRecord
    BY DEF TripRecord
  <2>2. QED BY <1>1, <2>1 DEF TripsOK
<1>4. RestOK'
  BY <1>1 DEF RestOK
<1>5. TypeOK'
  <2>1. (StatesOK /\ TripsOK /\ AlertsOK /\ RestOK)' => TypeOK'
    BY DEF TypeOK, StatesOK, StateAt, TripsOK, AlertsOK, RestOK, TripRecord, AlertRecord
  <2>2. QED BY <1>2, <1>3, <1>4, <2>1
<1>6. \A b \in Assets : Recorded(trip_history', states'[b], b)
  <2>1. \A b \in Assets : Recorded(trip_history, states[b], b)
    BY RecordParts DEF RecordsAgree
  <2>2. Recorded(trip_history, st, a)
    BY <2>1 DEF Recorded
  <2>3. QED BY <1>2, <2>1, <2>2
<1>7. \A b \in Assets : Announced(warning_alerts', states'[b], b)
  BY <1>2
<1>8. TripsAreRecorded' /\ CounterIsAnnounced'
  BY <1>6, <1>7 DEF TripsAreRecorded, CounterIsAnnounced, Recorded, Announced, LastTrip
<1>9. QED BY <1>5, <1>8 DEF RecordsAgree

\* Out of a trip or of a recovery: the counter is back at zero.
LEMMA ReleaseStep ==
  ASSUME RecordsAgree, NEW a \in Assets, NEW status \in {"Active", "Recovery"},
         NEW tripped \in 0..now, NEW started \in 0..now, now' = now,
         states' = [states EXCEPT ![a] =
           [states[a] EXCEPT !.status = status, !.consecutive_deviations = 0,
                             !.tripped_at = tripped, !.recovery_started_at = started]],
         trip_history' = trip_history, warning_alerts' = warning_alerts,
         config' = config, global_pause' = global_pause, ramp' \in [Assets -> Nat]
  PROVE  RecordsAgree'
<1>1. /\ StatesOK /\ AlertsOK /\ RestOK
      /\ \A b \in Assets : Announced(warning_alerts, states[b], b)
  BY TypeParts, RecordParts DEF RecordsAgree
<1>2. PICK old : old = states[a]
  OBVIOUS
<1>3. old \in StateType /\ StateAt(old, now) /\ now \in Nat
  BY <1>1, <1>2 DEF StatesOK, StateAt, RestOK
<1>4. PICK st : st = [old EXCEPT !.status = status, !.consecutive_deviations = 0,
                                 !.tripped_at = tripped, !.recovery_started_at = started]
  OBVIOUS
<1>13. tripped \in Nat /\ started \in Nat /\ status \in {"Active", "Tripped", "Recovery"}
  BY <1>3
<1>5. /\ st \in StateType
      /\ st.status = status /\ st.consecutive_deviations = 0
      /\ st.tripped_at = tripped /\ st.recovery_started_at = started
      /\ st.last_update = old.last_update /\ st.trip_count = old.trip_count
  BY <1>3, <1>4, <1>13 DEF StateType
<1>6. StateAt(st, now)
  BY <1>3, <1>5 DEF StateAt
<1>7. states' = [states EXCEPT ![a] = st]
  BY <1>2, <1>4
<1>8. Announced(warning_alerts', st, a)
  BY <1>5 DEF Announced
<1>9. AlertsOK'
  <2>1. AlertRecord' = AlertRecord
    BY DEF AlertRecord
  <2>2. QED BY <1>1, <2>1 DEF AlertsOK
<1>10. st.trip_count = states[a].trip_count /\ st.status # "Tripped"
  BY <1>2, <1>5
<1>11. config' \in ConfigType /\ global_pause' \in BOOLEAN
  BY <1>1 DEF RestOK
<1>12. QED BY <1>1, <1>6, <1>7, <1>8, <1>9, <1>10, <1>11, QuietStep

\* What a price update reckons with.
LEMMA UpdateTypes ==
  ASSUME RecordsAgree, NEW a \in Assets, NEW p \in Prices, NEW q \in Prices
  PROVE  /\ calculate_deviation(p, q) \in Nat
         /\ Consecutive(a, calculate_deviation(p, q)) \in Nat
<1>1. p \in Nat /\ q \in Nat /\ BPS \in Nat \ {0} /\ U32 \in Nat \ {0}
  BY CircuitBreakerAssumption
<1>2. \A d \in Nat : p # 0 => ((d * BPS) \div p) % U32 \in Nat
  <2>1. \A d \in Nat : d * BPS \in Nat
    BY <1>1
  <2>2. \A m \in Nat : p # 0 => (m \div p) \in Nat
    BY <1>1
  <2>3. \A m \in Nat : (m % U32) \in Nat
    BY <1>1
  <2>4. QED BY <2>1, <2>2, <2>3
<1>3. calculate_deviation(p, q) \in Nat
  <2>1. CASE q > p
    <3>1. q - p \in Nat
      BY <1>1, <2>1
    <3>2. QED BY <1>2, <2>1, <3>1 DEF calculate_deviation
  <2>2. CASE ~(q > p)
    <3>1. p - q \in Nat
      BY <1>1, <2>2
    <3>2. QED BY <1>2, <2>2, <3>1 DEF calculate_deviation
  <2>3. QED BY <2>1, <2>2
<1>4. states[a].consecutive_deviations \in Nat
  BY TypeParts DEF RecordsAgree, StatesOK, StateAt, StateType
<1>5. QED BY <1>3, <1>4 DEF Consecutive

\* A trip, with or without an alert before it.
LEMMA TripAgrees ==
  ASSUME RecordsAgree, NEW a \in Assets,
         NEW reason \in {"SINGLE_DEV", "CONSEC_DEV", "MANUAL"},
         trip_circuit_breaker(a, reason), now' = now, config' = config,
         global_pause' = global_pause, AlertsOK',
         \A b \in Assets : b # a => Announced(warning_alerts', states[b], b)
  PROVE  RecordsAgree'
<1>1. TypeOK /\ TripsAreRecorded /\ RestOK /\ StatesOK
  BY TypeParts DEF RecordsAgree
<1>2. /\ StatesOK' /\ TripsOK' /\ TripsAreRecorded'
      /\ states'[a].consecutive_deviations = 0
      /\ \A b \in Assets : b # a => states'[b] = states[b]
      /\ ramp' = [ramp EXCEPT ![a] = 0]
  BY <1>1, TripStep
<1>3. RestOK'
  BY <1>1, <1>2 DEF RestOK
<1>4. TypeOK'
  <2>1. (StatesOK /\ TripsOK /\ AlertsOK /\ RestOK)' => TypeOK'
    BY DEF TypeOK, StatesOK, StateAt, TripsOK, AlertsOK, RestOK, TripRecord, AlertRecord
  <2>2. QED BY <1>2, <1>3, <2>1
<1>5. \A b \in Assets : Announced(warning_alerts', states'[b], b)
  <2>1. Announced(warning_alerts', states'[a], a)
    BY <1>2 DEF Announced
  <2>2. QED BY <1>2, <2>1
<1>6. CounterIsAnnounced'
  BY <1>5 DEF CounterIsAnnounced, Announced
<1>7. QED BY <1>2, <1>4, <1>6 DEF RecordsAgree

\* Alerts that stay tell what they told.
LEMMA AlertsStay ==
  ASSUME RecordsAgree, warning_alerts' = warning_alerts
  PROVE  AlertsOK' /\ \A b \in Assets : Announced(warning_alerts', states[b], b)
<1>1. AlertsOK /\ \A b \in Assets : Announced(warning_alerts, states[b], b)
  BY TypeParts, RecordParts DEF RecordsAgree
<1>2. AlertRecord' = AlertRecord
  BY DEF AlertRecord
<1>3. QED BY <1>1, <1>2 DEF AlertsOK

LEMMA UpdateAgrees ==
  ASSUME RecordsAgree, NEW a \in Assets, NEW p \in Prices, NEW q \in Prices,
         check_price_update(a, p, q)
  PROVE  RecordsAgree'
<1>1. PICK deviation, count :
        deviation = calculate_deviation(p, q) /\ count = Consecutive(a, deviation)
  OBVIOUS
<1>2. deviation \in Nat /\ count \in Nat
  BY <1>1, UpdateTypes
<1>3. /\ now' = now /\ config' = config /\ global_pause' = global_pause
      /\ \/ trip_circuit_breaker(a, "SINGLE_DEV") /\ warning_alerts' = warning_alerts
         \/ create_warning_alert(a, deviation, count) /\ trip_circuit_breaker(a, "CONSEC_DEV")
         \/ /\ IF deviation >= config.min_consecutive_deviation \/ deviation >= WARNING_THRESHOLD_BPS
               THEN create_warning_alert(a, deviation, count)
               ELSE warning_alerts' = warning_alerts
            /\ states' = [states EXCEPT ![a] =
                 [states[a] EXCEPT !.consecutive_deviations = count,
                           !.last_update = now, !.last_safe_price = q]]
            /\ ramp' = [ramp EXCEPT ![a] =
                 IF deviation >= config.min_consecutive_deviation THEN ramp[a] + 1 ELSE 0]
            /\ trip_history' = trip_history
  BY <1>1 DEF check_price_update
<1>4. TypeOK /\ CounterIsAnnounced /\ StatesOK /\ RestOK
  BY TypeParts DEF RecordsAgree
<1>5. create_warning_alert(a, deviation, count) =>
        /\ AlertsOK'
        /\ \A st : st.consecutive_deviations = count => Announced(warning_alerts', st, a)
        /\ \A b \in Assets : b # a => Announced(warning_alerts', states[b], b)
  BY <1>2, <1>4, AlertStep
<1>6. warning_alerts' = warning_alerts =>
        AlertsOK' /\ \A b \in Assets : b # a => Announced(warning_alerts', states[b], b)
  BY AlertsStay
<1>7. CASE trip_circuit_breaker(a, "SINGLE_DEV") /\ warning_alerts' = warning_alerts
  BY <1>3, <1>6, <1>7, TripAgrees
<1>8. CASE create_warning_alert(a, deviation, count) /\ trip_circuit_breaker(a, "CONSEC_DEV")
  BY <1>3, <1>5, <1>8, TripAgrees
<1>9. CASE /\ IF deviation >= config.min_consecutive_deviation \/ deviation >= WARNING_THRESHOLD_BPS
              THEN create_warning_alert(a, deviation, count)
              ELSE warning_alerts' = warning_alerts
           /\ states' = [states EXCEPT ![a] =
                [states[a] EXCEPT !.consecutive_deviations = count,
                          !.last_update = now, !.last_safe_price = q]]
           /\ ramp' = [ramp EXCEPT ![a] =
                IF deviation >= config.min_consecutive_deviation THEN ramp[a] + 1 ELSE 0]
           /\ trip_history' = trip_history
  <2>1. PICK old : old = states[a]
    OBVIOUS
  <2>2. PICK st : st = [old EXCEPT !.consecutive_deviations = count,
                                   !.last_update = now, !.last_safe_price = q]
    OBVIOUS
  <2>3. old \in StateType /\ StateAt(old, now) /\ now \in Nat /\ q \in Nat
    BY <1>4, <2>1, CircuitBreakerAssumption DEF StatesOK, StateAt, RestOK
  <2>4. /\ st \in StateType
        /\ st.consecutive_deviations = count /\ st.last_update = now
        /\ st.status = old.status /\ st.tripped_at = old.tripped_at
        /\ st.recovery_started_at = old.recovery_started_at /\ st.trip_count = old.trip_count
    BY <1>2, <2>2, <2>3 DEF StateType
  <2>5. StateAt(st, now)
    BY <2>3, <2>4 DEF StateAt
  <2>6. states' = [states EXCEPT ![a] = st]
    BY <1>9, <2>1, <2>2
  <2>7. /\ AlertsOK'
        /\ \A b \in Assets : b # a => Announced(warning_alerts', states[b], b)
        /\ Announced(warning_alerts', st, a)
    <3>1. CASE deviation >= config.min_consecutive_deviation \/ deviation >= WARNING_THRESHOLD_BPS
      BY <1>5, <1>9, <2>4, <3>1
    <3>2. CASE ~(deviation >= config.min_consecutive_deviation \/ deviation >= WARNING_THRESHOLD_BPS)
      <4>1. warning_alerts' = warning_alerts
        BY <1>9, <3>2
      <4>2. count = 0
        BY <1>1, <3>2 DEF Consecutive
      <4>3. Announced(warning_alerts', st, a)
        BY <2>4, <4>2 DEF Announced
      <4>4. QED BY <1>6, <4>1, <4>3
    <3>3. QED BY <3>1, <3>2
  <2>8. ramp' \in [Assets -> Nat]
    BY <1>4, <1>9 DEF RestOK
  <2>9. /\ trip_history' = trip_history /\ st.trip_count = states[a].trip_count
        /\ st.status = "Tripped" => states[a].status = "Tripped" /\ st.tripped_at = states[a].tripped_at
        /\ config' \in ConfigType /\ global_pause' \in BOOLEAN
    BY <1>3, <1>4, <1>9, <2>1, <2>4 DEF RestOK
  <2>10. QED BY <1>3, <2>5, <2>6, <2>7, <2>8, <2>9, QuietStep
<1>10. QED BY <1>3, <1>7, <1>8, <1>9

\* Of the three questions and calls that take an asset out of a trip.
LEMMA ReleasesAgree ==
  ASSUME RecordsAgree, NEW a \in Assets,
         is_operational(a) \/ reset(a) \/ force_recovery(a)
  PROVE  RecordsAgree'
<1>1. /\ StatesOK /\ now \in Nat /\ ramp \in [Assets -> Nat]
  BY TypeParts DEF RecordsAgree, RestOK
<1>2. PICK old : old = states[a]
  OBVIOUS
<1>3. /\ old \in StateType /\ old.tripped_at \in 0..now /\ old.recovery_started_at \in 0..now
      /\ now \in 0..now /\ 0 \in 0..now
  BY <1>1, <1>2 DEF StatesOK, StateAt
<1>4. /\ now' = now /\ trip_history' = trip_history /\ warning_alerts' = warning_alerts
      /\ config' = config /\ global_pause' = global_pause /\ ramp' \in [Assets -> Nat]
  BY <1>1 DEF is_operational, reset, force_recovery
<1>5. CASE transition_to_recovery(a)
  <2>1. states' = [states EXCEPT ![a] =
          [states[a] EXCEPT !.status = "Recovery", !.consecutive_deviations = 0,
                            !.recovery_started_at = now]]
    BY <1>5 DEF transition_to_recovery
  <2>2. [old EXCEPT !.status = "Recovery", !.consecutive_deviations = 0,
                    !.recovery_started_at = now]
          = [old EXCEPT !.status = "Recovery", !.consecutive_deviations = 0,
                        !.tripped_at = old.tripped_at, !.recovery_started_at = now]
    BY <1>3 DEF StateType
  <2>3. states' = [states EXCEPT ![a] =
          [states[a] EXCEPT !.status = "Recovery", !.consecutive_deviations = 0,
                            !.tripped_at = old.tripped_at, !.recovery_started_at = now]]
    BY <1>2, <2>1, <2>2
  <2>4. QED BY <1>3, <1>4, <2>3, ReleaseStep
<1>6. CASE transition_to_active(a)
  <2>1. states' = [states EXCEPT ![a] =
          [states[a] EXCEPT !.status = "Active", !.consecutive_deviations = 0,
                            !.recovery_started_at = 0]]
    BY <1>6 DEF transition_to_active
  <2>2. [old EXCEPT !.status = "Active", !.consecutive_deviations = 0,
                    !.recovery_started_at = 0]
          = [old EXCEPT !.status = "Active", !.consecutive_deviations = 0,
                        !.tripped_at = old.tripped_at, !.recovery_started_at = 0]
    BY <1>3 DEF StateType
  <2>3. states' = [states EXCEPT ![a] =
          [states[a] EXCEPT !.status = "Active", !.consecutive_deviations = 0,
                            !.tripped_at = old.tripped_at, !.recovery_started_at = 0]]
    BY <1>2, <2>1, <2>2
  <2>4. QED BY <1>3, <1>4, <2>3, ReleaseStep
<1>7. CASE reset(a)
  <2>1. states' = [states EXCEPT ![a] =
          [states[a] EXCEPT !.status = "Active", !.consecutive_deviations = 0,
                            !.tripped_at = 0]]
    BY <1>7 DEF reset
  <2>2. [old EXCEPT !.status = "Active", !.consecutive_deviations = 0,
                    !.tripped_at = 0]
          = [old EXCEPT !.status = "Active", !.consecutive_deviations = 0,
                        !.tripped_at = 0, !.recovery_started_at = old.recovery_started_at]
    BY <1>3 DEF StateType
  <2>3. states' = [states EXCEPT ![a] =
          [states[a] EXCEPT !.status = "Active", !.consecutive_deviations = 0,
                            !.tripped_at = 0, !.recovery_started_at = old.recovery_started_at]]
    BY <1>2, <2>1, <2>2
  <2>4. QED BY <1>3, <1>4, <2>3, ReleaseStep
<1>8. QED BY <1>5, <1>6, <1>7 DEF is_operational, force_recovery

\* Of the calls that touch no state of an asset, and of the clock.
LEMMA OthersAgree ==
  ASSUME RecordsAgree, states' = states, trip_history' = trip_history,
         warning_alerts' \in {warning_alerts, <<>>},
         now' \in {now, now + 1}, config' \in ConfigType, global_pause' \in BOOLEAN,
         ramp' \in [Assets -> Nat]
  PROVE  RecordsAgree'
<1>1. /\ StatesOK /\ TripsOK /\ AlertsOK /\ now \in Nat
      /\ \A b \in Assets : Recorded(trip_history, states[b], b)
      /\ \A b \in Assets : Announced(warning_alerts, states[b], b)
  BY TypeParts, RecordParts DEF RecordsAgree, RestOK
<1>2. now' \in Nat /\ 0..now \subseteq 0..now'
  BY <1>1
<1>3. StatesOK'
  BY <1>1, <1>2 DEF StatesOK, StateAt
<1>4. TripsOK'
  <2>1. TripRecord \subseteq TripRecord'
    BY <1>2 DEF TripRecord
  <2>2. \A i \in 1..Len(trip_history) : trip_history[i] \in TripRecord'
    BY <1>1, <2>1 DEF TripsOK
  <2>3. /\ Len(trip_history) \in Nat /\ DOMAIN trip_history = 1..Len(trip_history)
        /\ trip_history = [i \in DOMAIN trip_history |-> trip_history[i]]
    BY <1>1 DEF TripsOK
  <2>4. trip_history \in Seq(TripRecord')
    BY <2>2, <2>3
  <2>5. QED BY <1>1, <2>4 DEF TripsOK
<1>5. AlertsOK'
  <2>1. AlertRecord' = AlertRecord /\ MAX_WARNING_ALERTS \in Nat
    BY CircuitBreakerAssumption DEF AlertRecord
  <2>2. CASE warning_alerts' = warning_alerts
    BY <1>1, <2>1, <2>2 DEF AlertsOK
  <2>3. CASE warning_alerts' = <<>>
    <3>1. <<>> \in Seq(AlertRecord) /\ Len(<<>>) = 0
      OBVIOUS
    <3>2. QED BY <2>1, <2>3, <3>1 DEF AlertsOK
  <2>4. QED BY <2>2, <2>3
<1>6. TypeOK'
  <2>1. (StatesOK /\ TripsOK /\ AlertsOK /\ RestOK)' => TypeOK'
    BY DEF TypeOK, StatesOK, StateAt, TripsOK, AlertsOK, RestOK, TripRecord, AlertRecord
  <2>2. QED BY <1>2, <1>3, <1>4, <1>5, <2>1 DEF RestOK
<1>7. \A b \in Assets : Announced(warning_alerts', states'[b], b)
  <2>1. \A b : Mine(<<>>, b) = {}
    BY DEF Mine
  <2>2. QED BY <1>1, <2>1 DEF Announced
<1>8. \A b \in Assets : Recorded(trip_history', states'[b], b)
  BY <1>1
<1>9. TripsAreRecorded' /\ CounterIsAnnounced'
  BY <1>7, <1>8 DEF TripsAreRecorded, CounterIsAnnounced, Recorded, Announced, LastTrip
<1>10. QED BY <1>6, <1>9 DEF RecordsAgree

LEMMA RecordsStep == RecordsAgree /\ [Next]_vars => RecordsAgree'
<1> SUFFICES ASSUME RecordsAgree, [Next]_vars PROVE RecordsAgree'
  OBVIOUS
<1>1. config \in ConfigType /\ global_pause \in BOOLEAN /\ ramp \in [Assets -> Nat]
  BY TypeParts DEF RecordsAgree, RestOK
<1>2. ASSUME NEW a \in Assets, is_operational(a) \/ reset(a) \/ force_recovery(a)
      PROVE  RecordsAgree'
  BY <1>2, ReleasesAgree
<1>3. ASSUME NEW a \in Assets, NEW p \in Prices, NEW q \in Prices, check_price_update(a, p, q)
      PROVE  RecordsAgree'
  BY <1>3, UpdateAgrees
<1>4. ASSUME NEW a \in Assets, manual_trip(a)
      PROVE  RecordsAgree'
  <2>1. /\ trip_circuit_breaker(a, "MANUAL") /\ now' = now /\ config' = config
        /\ global_pause' = global_pause /\ warning_alerts' = warning_alerts
    BY <1>4 DEF manual_trip
  <2>2. AlertsOK' /\ \A b \in Assets : b # a => Announced(warning_alerts', states[b], b)
    BY <2>1, AlertsStay
  <2>3. QED BY <2>1, <2>2, TripAgrees
<1>5. ASSUME NEW c \in Configs, update_config(c)
      PROVE  RecordsAgree'
  <2>1. c \in ConfigType
    BY CircuitBreakerAssumption
  <2>2. QED BY <1>1, <1>5, <2>1, OthersAgree DEF update_config
<1>6. CASE clear_warning_alerts
  BY <1>1, <1>6, OthersAgree DEF clear_warning_alerts
<1>7. ASSUME NEW b \in BOOLEAN, set_global_pause(b)
      PROVE  RecordsAgree'
  BY <1>1, <1>7, OthersAgree DEF set_global_pause
<1>8. CASE Tick
  BY <1>1, <1>8, OthersAgree DEF Tick
<1>9. CASE UNCHANGED vars
  BY <1>1, <1>9, OthersAgree DEF vars
<1>10. QED BY <1>2, <1>3, <1>4, <1>5, <1>6, <1>7, <1>8, <1>9 DEF Next, Administration

(* States, trips and alerts, written one after the other by                 *)
(* check_price_update and trip_circuit_breaker, tell one story whatever the *)
(* configuration and the limits of the lists.                               *)
THEOREM OneStory == Spec => []RecordsAgree
<1>1. QED BY InitialRecords, RecordsStep, PTL DEF Spec

-----------------------------------------------------------------------------
(* How long a row of large moves is accepted *)

\* The configuration whose recovery admits large moves.
WideRecovery == config.recovery_max_change >= config.min_consecutive_deviation

\* What is accepted while Tripped adds to the counter; what was accepted then
\* is all that a recovery and the time after it begin with.
RampOf(st, length) ==
  LET most == config.consecutive_deviation_count - 1 IN
  \/ length = 0
  \/ /\ st.status = "Active" /\ st.consecutive_deviations <= most
     /\ length <= most + st.consecutive_deviations
  \/ /\ st.status = "Tripped" /\ st.consecutive_deviations <= most
     /\ length <= st.consecutive_deviations
  \/ st.status = "Recovery" /\ length <= most

RampInv == WideRecovery \/ \A a \in Assets : RampOf(states[a], ramp[a])

LEMMA RampNumbers ==
  ASSUME RecordsAgree
  PROVE  /\ config.consecutive_deviation_count \in Nat
         /\ config.recovery_max_change \in Nat /\ config.min_consecutive_deviation \in Nat
         /\ \A a \in Assets : /\ states[a] \in StateType
                             /\ states[a].status \in {"Active", "Tripped", "Recovery"}
                             /\ states[a].consecutive_deviations \in Nat /\ ramp[a] \in Nat
         /\ states = [a \in Assets |-> states[a]] /\ ramp = [a \in Assets |-> ramp[a]]
BY TypeParts DEF RecordsAgree, RestOK, ConfigType, StatesOK, StateAt, StateType

LEMMA RampBound == RecordsAgree /\ RampInv => RampsAreBounded
<1> SUFFICES ASSUME RecordsAgree, RampInv, ~WideRecovery, NEW a \in Assets, ramp[a] # 0
             PROVE  ramp[a] <= 2 * (config.consecutive_deviation_count - 1)
  BY DEF RampsAreBounded, WideRecovery
<1>1. RampOf(states[a], ramp[a])
  BY DEF RampInv
<1>2. PICK n, c, r : /\ n = config.consecutive_deviation_count
                     /\ c = states[a].consecutive_deviations /\ r = ramp[a]
  OBVIOUS
<1>3. n \in Nat /\ c \in Nat /\ r \in Nat
  BY <1>2, RampNumbers
<1>4. (c <= n - 1 /\ (r <= n - 1 + c \/ r <= c)) \/ r <= n - 1
  BY <1>1, <1>2 DEF RampOf
<1>5. r # 0
  BY <1>2
<1>6. r <= 2 * (n - 1)
  BY <1>3, <1>4, <1>5
<1>7. QED BY <1>2, <1>6

\* A step in which one asset moves and the configuration stays.
LEMMA RampOfOne ==
  ASSUME RecordsAgree, RampInv, config' = config, NEW a \in Assets,
         \A b \in Assets : b # a => states'[b] = states[b] /\ ramp'[b] = ramp[b],
         WideRecovery \/ RampOf(states'[a], ramp'[a])
  PROVE  RampInv'
<1>1. WideRecovery' <=> WideRecovery
  BY DEF WideRecovery
<1>3. ASSUME ~WideRecovery, NEW b \in Assets
      PROVE  RampOf(states'[b], ramp'[b])
  <2>1. RampOf(states[b], ramp[b])
    BY <1>3 DEF RampInv
  <2>2. QED BY <1>3, <2>1
<1>4. QED BY <1>1, <1>3 DEF RampInv, RampOf

LEMMA RampRelease ==
  ASSUME RecordsAgree, RampInv, NEW a \in Assets,
         is_operational(a) \/ reset(a) \/ force_recovery(a)
  PROVE  RampInv'
<1>1. PICK st, n : st = states'[a] /\ n = config.consecutive_deviation_count
  OBVIOUS
<1>2. /\ a \in DOMAIN states /\ a \in DOMAIN ramp /\ states[a] \in StateType
      /\ n \in Nat /\ ramp[a] \in Nat
  BY <1>1, RampNumbers
<1>3. config' = config
  BY DEF is_operational, reset, force_recovery
<1>4. \A b \in Assets : b # a => states'[b] = states[b] /\ ramp'[b] = ramp[b]
  BY RampNumbers DEF is_operational, reset, force_recovery, transition_to_recovery, transition_to_active
<1>5. CASE reset(a) \/ force_recovery(a)
  <2>1. ramp'[a] = 0
    BY <1>2, <1>5 DEF reset, force_recovery
  <2>2. QED BY <1>3, <1>4, <2>1, RampOfOne DEF RampOf
<1>6. CASE CooledDown(a) /\ transition_to_recovery(a) /\ ramp' = ramp
  <2>1. st.status = "Recovery" /\ states[a].status = "Tripped" /\ ramp'[a] = ramp[a]
    BY <1>1, <1>2, <1>6 DEF CooledDown, transition_to_recovery, StateType
  <2>2. ASSUME ~WideRecovery PROVE RampOf(st, ramp'[a])
    <3>1. RampOf(states[a], ramp[a])
      BY <2>2 DEF RampInv
    <3>2. ramp[a] = 0 \/ ramp[a] <= n - 1
      BY <1>1, <1>2, <2>1, <3>1, RampNumbers DEF RampOf
    <3>3. QED BY <1>1, <2>1, <3>2 DEF RampOf
  <2>3. QED BY <1>1, <1>3, <1>4, <2>2, RampOfOne
<1>7. CASE states[a].status = "Recovery" /\ transition_to_active(a) /\ ramp' = ramp
  <2>1. /\ st.status = "Active" /\ st.consecutive_deviations = 0 /\ ramp'[a] = ramp[a]
    BY <1>1, <1>2, <1>7 DEF transition_to_active, StateType
  <2>2. ASSUME ~WideRecovery PROVE RampOf(st, ramp'[a])
    <3>1. RampOf(states[a], ramp[a])
      BY <2>2 DEF RampInv
    <3>2. ramp[a] = 0 \/ (0 <= n - 1 /\ ramp[a] <= n - 1 + 0)
      BY <1>1, <1>2, <1>7, <3>1 DEF RampOf
    <3>3. QED BY <1>1, <2>1, <3>2 DEF RampOf
  <2>3. QED BY <1>1, <1>3, <1>4, <2>2, RampOfOne
<1>8. QED BY <1>5, <1>6, <1>7 DEF is_operational

LEMMA RampUpdate ==
  ASSUME RecordsAgree, RampInv, NEW a \in Assets, NEW p \in Prices, NEW q \in Prices,
         check_price_update(a, p, q)
  PROVE  RampInv'
<1>1. PICK deviation, count, n, c :
        /\ deviation = calculate_deviation(p, q) /\ count = Consecutive(a, deviation)
        /\ n = config.consecutive_deviation_count /\ c = states[a].consecutive_deviations
  OBVIOUS
<1>2. deviation \in Nat /\ count \in Nat /\ n \in Nat /\ c \in Nat /\ ramp[a] \in Nat
  BY <1>1, UpdateTypes, RampNumbers
<1>3. config' = config
  BY DEF check_price_update
<1>4. CASE \E reason : trip_circuit_breaker(a, reason)
  <2>1. ramp'[a] = 0 /\ \A b \in Assets : b # a => states'[b] = states[b] /\ ramp'[b] = ramp[b]
    BY <1>4, RampNumbers DEF trip_circuit_breaker
  <2>2. QED BY <1>3, <2>1, RampOfOne DEF RampOf
<1>5. CASE /\ ~(deviation >= config.min_consecutive_deviation /\ count >= n)
           /\ states' = [states EXCEPT ![a] =
                [states[a] EXCEPT !.consecutive_deviations = count,
                          !.last_update = now, !.last_safe_price = q]]
           /\ ramp' = [ramp EXCEPT ![a] =
                IF deviation >= config.min_consecutive_deviation THEN ramp[a] + 1 ELSE 0]
  <2>1. \A b \in Assets : b # a => states'[b] = states[b] /\ ramp'[b] = ramp[b]
    BY <1>5, RampNumbers
  <2>2. PICK st : st = states'[a]
    OBVIOUS
  <2>3. st.status = states[a].status /\ st.consecutive_deviations = count
    <3>1. a \in DOMAIN states /\ states[a] \in StateType
      BY RampNumbers
    <3>2. QED BY <1>5, <2>2, <3>1 DEF StateType
  <2>4. ramp'[a] = IF deviation >= config.min_consecutive_deviation THEN ramp[a] + 1 ELSE 0
    BY <1>5, RampNumbers
  <2>5. CASE ~(deviation >= config.min_consecutive_deviation)
    BY <1>3, <2>1, <2>4, <2>5, RampOfOne DEF RampOf
  <2>6. CASE deviation >= config.min_consecutive_deviation
    <3>1. count = c + 1 /\ ~(count >= n) /\ ramp'[a] = ramp[a] + 1
      BY <1>1, <1>5, <2>4, <2>6 DEF Consecutive
    <3>2. ASSUME ~WideRecovery PROVE RampOf(st, ramp'[a])
      <4>1. st.status # "Recovery"
        <5>1. states[a].status = "Recovery" => deviation <= config.recovery_max_change
          BY <1>1 DEF check_price_update
        <5>2. ~(config.recovery_max_change >= config.min_consecutive_deviation)
          BY <3>2 DEF WideRecovery
        <5>3. ~(deviation <= config.recovery_max_change)
          BY <1>2, <2>6, <5>2, RampNumbers
        <5>4. QED BY <2>3, <5>1, <5>3
      <4>2. RampOf(states[a], ramp[a])
        BY <3>2 DEF RampInv
      <4>3. count <= n - 1
        BY <1>2, <3>1
      <4>4. CASE st.status = "Active"
        <5>1. ramp[a] = 0 \/ ramp[a] <= n - 1 + c
          BY <1>1, <2>3, <4>2, <4>4 DEF RampOf
        <5>2. ramp'[a] <= n - 1 + count
          BY <1>2, <3>1, <4>3, <5>1
        <5>3. QED BY <1>1, <2>3, <4>3, <4>4, <5>2 DEF RampOf
      <4>5. CASE st.status = "Tripped"
        <5>1. ramp[a] = 0 \/ ramp[a] <= c
          BY <1>1, <2>3, <4>2, <4>5 DEF RampOf
        <5>2. ramp'[a] <= count
          BY <1>2, <3>1, <5>1
        <5>3. QED BY <1>1, <2>3, <4>3, <4>5, <5>2 DEF RampOf
      <4>6. st.status \in {"Active", "Tripped", "Recovery"}
        BY <2>3, RampNumbers
      <4>7. QED BY <4>1, <4>4, <4>5, <4>6
    <3>3. QED BY <1>3, <2>1, <2>2, <3>2, RampOfOne
  <2>7. QED BY <2>5, <2>6
<1>6. QED BY <1>1, <1>4, <1>5 DEF check_price_update

LEMMA RampStep == RecordsAgree /\ RampInv /\ [Next]_vars => RampInv'
<1> SUFFICES ASSUME RecordsAgree, RampInv, [Next]_vars PROVE RampInv'
  OBVIOUS
<1>1. ASSUME NEW a \in Assets, is_operational(a) \/ reset(a) \/ force_recovery(a)
      PROVE  RampInv'
  BY <1>1, RampRelease
<1>2. ASSUME NEW a \in Assets, NEW p \in Prices, NEW q \in Prices, check_price_update(a, p, q)
      PROVE  RampInv'
  BY <1>2, RampUpdate
<1>3. ASSUME NEW a \in Assets, manual_trip(a)
      PROVE  RampInv'
  <2>1. /\ config' = config /\ ramp'[a] = 0
        /\ \A b \in Assets : b # a => states'[b] = states[b] /\ ramp'[b] = ramp[b]
    BY <1>3, RampNumbers DEF manual_trip, trip_circuit_breaker
  <2>2. QED BY <2>1, RampOfOne DEF RampOf
<1>4. ASSUME NEW c \in Configs, update_config(c)
      PROVE  RampInv'
  <2>1. \A b \in Assets : ramp'[b] = 0
    BY <1>4 DEF update_config
  <2>2. QED BY <2>1 DEF RampInv, RampOf
<1>5. CASE UNCHANGED <<states, config, ramp>>
  BY <1>5 DEF RampInv, RampOf, WideRecovery
<1>6. QED
  BY <1>1, <1>2, <1>3, <1>4, <1>5
  DEF Next, Administration, clear_warning_alerts, set_global_pause, Tick, vars

(* The row of large moves that check_price_update accepts is at most twice  *)
(* the one the configuration allows, less two: once while the asset is      *)
(* Tripped and once more when it is Active.                                 *)
THEOREM RowsAreShort == Spec => []RampsAreBounded
<1>1. initialize => RampInv
  BY DEF initialize, RampInv, RampOf
<1>2. QED BY <1>1, InitialRecords, RecordsStep, RampStep, RampBound, PTL DEF Spec

-----------------------------------------------------------------------------
(* The round of a breaker *)

\* What LifeCycle asks of one asset.
Round(a) ==
  LET old == states[a]
      new == states'[a]
  IN  \/ new.status = old.status
      \/ old.status = "Active" /\ new.status = "Tripped"
      \/ /\ old.status = "Tripped" /\ new.status = "Recovery"
         /\ Mine(trip_history, a) # {} => now >= LastTrip(a) + config.cooldown_period
      \/ /\ old.status = "Recovery" /\ new.status = "Active"
         /\ now >= old.recovery_started_at + RECOVERY_MODE_DURATION
      \/ /\ old.status = "Recovery" /\ new.status = "Tripped"
         /\ \/ config.recovery_max_change >= config.single_deviation_threshold
            \/ config.recovery_max_change >= config.min_consecutive_deviation

\* From an invariant of the states and what each step does, a step property.
LEMMA RoundOfQuestion ==
  ASSUME RecordsAgree, NEW a \in Assets, is_operational(a), NEW b \in Assets
  PROVE  Round(b)
<1>1. a \in DOMAIN states /\ states[a] \in StateType
  BY RampNumbers
<1>2. CASE b # a
  BY <1>2, RampNumbers DEF is_operational, transition_to_recovery, transition_to_active, Round
<1>3. CASE b = a /\ CooledDown(a) /\ transition_to_recovery(a)
  <2>1. states'[a].status = "Recovery"
    BY <1>1, <1>3 DEF transition_to_recovery, StateType
  <2>2. states[a].status = "Tripped" /\ now >= states[a].tripped_at + config.cooldown_period
    BY <1>3 DEF CooledDown
  <2>3. Mine(trip_history, a) # {} => states[a].tripped_at = LastTrip(a)
    BY <2>2 DEF RecordsAgree, TripsAreRecorded
  <2>4. QED BY <1>3, <2>1, <2>2, <2>3 DEF Round
<1>4. CASE b = a /\ states[a].status = "Recovery" /\ transition_to_active(a)
  <2>1. states'[a].status = "Active"
    BY <1>1, <1>4 DEF transition_to_active, StateType
  <2>2. now >= states[a].recovery_started_at + RECOVERY_MODE_DURATION
    BY <1>4 DEF is_operational, CooledDown
  <2>3. QED BY <1>4, <2>1, <2>2 DEF Round
<1>5. QED BY <1>2, <1>3, <1>4 DEF is_operational

LEMMA RoundOfUpdate ==
  ASSUME RecordsAgree, NEW a \in Assets, NEW p \in Prices, NEW q \in Prices,
         check_price_update(a, p, q), NEW b \in Assets
  PROVE  Round(b)
<1>1. /\ a \in DOMAIN states /\ states[a] \in StateType
      /\ states[a].status \in {"Active", "Tripped", "Recovery"}
  BY RampNumbers
<1>2. CASE b # a
  <2>1. states'[b] = states[b]
    BY <1>2, RampNumbers DEF check_price_update, trip_circuit_breaker
  <2>2. QED BY <2>1 DEF Round
<1>3. PICK deviation : deviation = calculate_deviation(p, q)
  OBVIOUS
<1>4. deviation \in Nat
  BY <1>3, UpdateTypes
<1>5. CASE /\ b = a /\ \E reason : trip_circuit_breaker(a, reason)
           /\ \/ deviation >= config.single_deviation_threshold
              \/ deviation >= config.min_consecutive_deviation
  <2>1. states'[a].status = "Tripped"
    <3>1. PICK reason : trip_circuit_breaker(a, reason)
      BY <1>5
    <3>2. PICK old \in StateType : old = states[a]
      BY <1>1
    <3>3. states'[a] = [old EXCEPT !.status = "Tripped", !.consecutive_deviations = 0,
                                   !.tripped_at = now, !.trip_count = old.trip_count + 1]
      BY ONLY <1>1, <3>1, <3>2 DEF trip_circuit_breaker
    <3>4. QED BY <3>2, <3>3 DEF StateType
  <2>2. CASE states[a].status = "Recovery"
    <3>1. deviation <= config.recovery_max_change
      BY <1>3, <2>2 DEF check_price_update
    <3>2. config.single_deviation_threshold \in Nat
      BY TypeParts DEF RecordsAgree, RestOK, ConfigType
    <3>3. \/ config.recovery_max_change >= config.single_deviation_threshold
          \/ config.recovery_max_change >= config.min_consecutive_deviation
      BY <1>4, <1>5, <3>1, <3>2, RampNumbers
    <3>4. QED BY <1>5, <2>1, <2>2, <3>3 DEF Round
  <2>3. CASE states[a].status # "Recovery"
    BY <1>1, <1>5, <2>1, <2>3 DEF Round
  <2>4. QED BY <2>2, <2>3
<1>6. CASE b = a /\ \E count : states' = [states EXCEPT ![a] =
             [states[a] EXCEPT !.consecutive_deviations = count,
                       !.last_update = now, !.last_safe_price = q]]
  <2>1. states'[a].status = states[a].status
    BY <1>1, <1>6 DEF StateType
  <2>2. QED BY <1>6, <2>1 DEF Round
<1>7. QED BY <1>2, <1>3, <1>5, <1>6 DEF check_price_update

(* Whatever the prices and the configuration, only an administrator moves a *)
(* breaker out of its round; is_operational lets nothing recover before the *)
(* cooldown since the last trip listed is over.                             *)
THEOREM OneWayRound == Spec => LifeCycle
<1> DEFINE Step == \/ \E a \in Assets : Administration(a)
                   \/ \A a \in Assets : Round(a)
<1>1. RecordsAgree /\ [Next]_vars => [Step]_vars
  <2> SUFFICES ASSUME RecordsAgree, Next PROVE Step
    OBVIOUS
  <2>1. ASSUME NEW a \in Assets, is_operational(a) PROVE Step
    BY <2>1, RoundOfQuestion
  <2>2. ASSUME NEW a \in Assets, NEW p \in Prices, NEW q \in Prices, check_price_update(a, p, q)
        PROVE  Step
    BY <2>2, RoundOfUpdate
  <2>3. CASE states' = states
    BY <2>3 DEF Round
  <2>4. QED
    BY <2>1, <2>2, <2>3 DEF Next, update_config, clear_warning_alerts, set_global_pause, Tick
<1>2. [Step]_vars => [\/ \E a \in Assets : Administration(a)
                     \/ \A a \in Assets :
          LET old == states[a]
              new == states'[a]
          IN  \/ new.status = old.status
              \/ old.status = "Active" /\ new.status = "Tripped"
              \/ /\ old.status = "Tripped" /\ new.status = "Recovery"
                 /\ Mine(trip_history, a) # {} => now >= LastTrip(a) + config.cooldown_period
              \/ /\ old.status = "Recovery" /\ new.status = "Active"
                 /\ now >= old.recovery_started_at + RECOVERY_MODE_DURATION
              \/ /\ old.status = "Recovery" /\ new.status = "Tripped"
                 /\ \/ config.recovery_max_change >= config.single_deviation_threshold
                    \/ config.recovery_max_change >= config.min_consecutive_deviation]_vars
  BY DEF Round
<1> HIDE DEF Step
<1>3. QED BY <1>1, <1>2, InitialRecords, RecordsStep, PTL DEF Spec, LifeCycle

-----------------------------------------------------------------------------
(* Products and quotients *)

LEMMA LessProduct ==
  ASSUME NEW a \in Nat, NEW b \in Nat, NEW c \in Nat, b <= c
  PROVE  a * b \in Nat /\ a * b <= a * c
<1>1. PICK d \in Nat : c = b + d
  <2>1. c - b \in Nat /\ c = b + (c - b)
    OBVIOUS
  <2>2. QED BY <2>1
<1>2. a * c = a * b + a * d /\ a * b \in Nat /\ a * d \in Nat
  BY <1>1
<1>3. QED BY <1>2

LEMMA DivisionBounds ==
  ASSUME NEW p \in Int, NEW n \in Nat, n > 0
  PROVE  /\ p \div n \in Int
         /\ n * (p \div n) <= p
         /\ p < n * (p \div n) + n
OBVIOUS

\* If p is at most k times n, the quotient is at most k.
LEMMA QuotientAtMost ==
  ASSUME NEW p \in Nat, NEW k \in Nat, NEW n \in Nat, n > 0, p <= k * n
  PROVE  p \div n \in Nat /\ p \div n <= k
<1>1. PICK q : q = p \div n
  OBVIOUS
<1>2. q \in Int /\ n * q <= p /\ p < n * q + n
  BY <1>1, DivisionBounds
<1>3. q >= 0
  <2>1. SUFFICES ASSUME q <= -1 PROVE FALSE
    BY <1>2
  <2>2. n * (-1 - q) >= 0 /\ n * (-1 - q) = -n - n * q
    BY <1>2, <2>1
  <2>3. QED BY <1>2, <2>2
<1>4. q <= k
  <2>1. SUFFICES ASSUME q >= k + 1 PROVE FALSE
    BY <1>2
  <2>2. PICK d \in Nat : q = k + 1 + d
    <3>1. q - (k + 1) \in Nat /\ q = k + 1 + (q - (k + 1))
      BY <1>2, <2>1
    <3>2. QED BY <3>1
  <2>3. n * q = k * n + n + n * d /\ n * d \in Nat /\ k * n \in Nat
    BY <2>2
  <2>4. QED BY <1>2, <2>3
<1>5. QED BY <1>1, <1>2, <1>3, <1>4

-----------------------------------------------------------------------------
(* The oracle manager: what its oracles weigh *)

WeightsOf(oracles) == [o \in DOMAIN oracles |-> oracles[o].weight]
ActiveIn(oracles) == {o \in DOMAIN oracles : oracles[o].active}
ActiveWeight(oracles) == SumFunctionOnSet(WeightsOf(oracles), ActiveIn(oracles))

\* What an oracle's record holds; its reputation and its times decide nothing here.
WeighedOracle(r) ==
  /\ r = [field \in DOMAIN r |-> r[field]]
  /\ {"weight", "active", "reputation"} \subseteq DOMAIN r
  /\ r.weight \in Nat /\ r.weight <= NODE_BPS

WeighedRegistry(oracles) ==
  /\ IsFiniteSet(DOMAIN oracles)
  /\ \A o \in DOMAIN oracles : WeighedOracle(oracles[o])
  /\ ActiveWeight(oracles) <= NODE_BPS

ManagerInv ==
  /\ WeighedRegistry(registry)
  /\ prices_held = 0
  /\ aggregation.min_oracles \in Nat /\ aggregation.min_oracles >= 2

LEMMA ManagerNumbers ==
  /\ NODE_BPS \in Nat /\ U32 \in Nat /\ 2 * NODE_BPS < U32
  /\ \A w \in Weights : w \in Nat /\ w <= NODE_BPS
  /\ MANAGER_MIN_ORACLES \in Nat /\ MANAGER_MIN_ORACLES >= 2
  /\ \A params \in ParamUpdates : params.min_oracles \in Nat
BY ManagerInputs DEF Manager!OracleManagerAssumption

LEMMA ActiveWeightIsNat ==
  ASSUME NEW oracles, IsFiniteSet(DOMAIN oracles), \A o \in DOMAIN oracles : WeighedOracle(oracles[o])
  PROVE  /\ ActiveWeight(oracles) \in Nat
         /\ IsFiniteSet(ActiveIn(oracles))
         /\ \A o \in DOMAIN oracles : WeightsOf(oracles)[o] = oracles[o].weight /\ oracles[o].weight \in Nat
<1>1. IsFiniteSet(ActiveIn(oracles)) /\ ActiveIn(oracles) \subseteq DOMAIN oracles
  BY FS_Subset DEF ActiveIn
<1>2. \A o \in DOMAIN oracles : WeightsOf(oracles)[o] = oracles[o].weight /\ oracles[o].weight \in Nat
  BY DEF WeightsOf, WeighedOracle
<1>3. QED BY <1>1, <1>2, SumOfNats DEF ActiveWeight

(* The total of the contract is the sum taken of one weight after another, *)
(* which is below the width.                                               *)
LEMMA TotalIsSum ==
  ASSUME NEW oracles, WeighedRegistry(oracles)
  PROVE  Manager!calculate_total_weight(oracles) = ActiveWeight(oracles)
<1>1. Manager!calculate_total_weight(oracles) = ActiveWeight(oracles) % U32
  <2>1. Manager!MapThenSumSet(LAMBDA o : oracles[o].weight, ActiveIn(oracles))
          = SumFunctionOnSet([o \in DOMAIN oracles |-> oracles[o].weight], ActiveIn(oracles))
    BY DEF Manager!MapThenSumSet, Manager!MapThenFoldSet, SumFunctionOnSet, FoldFunctionOnSet, MapThenFoldSet, ActiveIn
  <2>2. QED BY <2>1 DEF Manager!calculate_total_weight, ActiveWeight, WeightsOf, ActiveIn
<1>2. ActiveWeight(oracles) \in Nat /\ ActiveWeight(oracles) <= NODE_BPS
  BY ActiveWeightIsNat DEF WeighedRegistry
<1>3. QED BY <1>1, <1>2, ManagerNumbers

\* As the records change, without a change of the sum: the weights of the same
\* active oracles stay.
LEMMA SameWeights ==
  ASSUME NEW old, NEW new, WeighedRegistry(old), DOMAIN new = DOMAIN old,
         \A o \in DOMAIN old : /\ WeighedOracle(new[o])
                               /\ new[o].weight = old[o].weight /\ new[o].active = old[o].active
  PROVE  WeighedRegistry(new)
<1>1. ActiveIn(new) = ActiveIn(old)
  BY DEF ActiveIn
<1>2. WeightsOf(new) = WeightsOf(old)
  BY DEF WeightsOf
<1>3. QED BY <1>1, <1>2 DEF WeighedRegistry, ActiveWeight

\* One oracle, in the registry before or not, gets a new record.
LEMMA OneReweighed ==
  ASSUME NEW old, WeighedRegistry(old), NEW o, NEW r, WeighedOracle(r),
         NEW new, DOMAIN new = DOMAIN old \cup {o},
         new[o] = r, \A p \in DOMAIN old : p # o => new[p] = old[p],
         NEW rest \in Nat, NEW before \in Nat,
         before = (IF o \in ActiveIn(old) THEN old[o].weight ELSE 0),
         rest = ActiveWeight(old) - before,
         r.active => rest + r.weight <= NODE_BPS
  PROVE  WeighedRegistry(new)
<1>1. /\ IsFiniteSet(DOMAIN new)
      /\ \A p \in DOMAIN new : WeighedOracle(new[p])
  BY FS_AddElement DEF WeighedRegistry
<1>2. /\ IsFiniteSet(ActiveIn(old)) /\ ActiveWeight(old) \in Nat /\ ActiveWeight(old) <= NODE_BPS
      /\ \A p \in DOMAIN old : WeightsOf(old)[p] = old[p].weight /\ old[p].weight \in Nat
  BY ActiveWeightIsNat DEF WeighedRegistry
<1>3. /\ IsFiniteSet(ActiveIn(new))
      /\ \A p \in DOMAIN new : WeightsOf(new)[p] = new[p].weight /\ new[p].weight \in Nat
  BY <1>1, ActiveWeightIsNat
<1>4. PICK T : T = ActiveIn(old) \ {o}
  OBVIOUS
<1>5. IsFiniteSet(T) /\ o \notin T /\ T \subseteq DOMAIN old
  BY <1>2, <1>4, FS_Subset DEF ActiveIn
<1>6. SumFunctionOnSet(WeightsOf(old), T) = rest
  <2>1. CASE o \in ActiveIn(old)
    <3>1. o \in DOMAIN old /\ \A p \in ActiveIn(old) : WeightsOf(old)[p] \in Int
      BY <1>2, <2>1 DEF ActiveIn
    <3>2. SumFunctionOnSet(WeightsOf(old), ActiveIn(old))
            = SumFunctionOnSet(WeightsOf(old), T) + WeightsOf(old)[o]
      BY <1>2, <1>4, <2>1, <3>1, SumOnSetWithout
    <3>3. SumFunctionOnSet(WeightsOf(old), T) \in Int
      BY <1>2, <1>5, SumOnSetIsInt
    <3>4. QED BY <1>2, <2>1, <3>1, <3>2, <3>3 DEF ActiveWeight
  <2>2. CASE o \notin ActiveIn(old)
    <3>1. T = ActiveIn(old)
      BY <1>4, <2>2
    <3>2. QED BY <1>2, <2>2, <3>1 DEF ActiveWeight
  <2>3. QED BY <2>1, <2>2
<1>7. SumFunctionOnSet(WeightsOf(new), T) = rest
  <2>1. \A p \in T : WeightsOf(old)[p] \in Int /\ WeightsOf(old)[p] = WeightsOf(new)[p]
    BY <1>2, <1>3, <1>5
  <2>2. QED BY <1>5, <1>6, <2>1, SumOnSetAgree
<1>8. CASE r.active
  <2>1. ActiveIn(new) = T \cup {o}
    BY <1>4, <1>8 DEF ActiveIn
  <2>2. \A p \in T \cup {o} : WeightsOf(new)[p] \in Int
    BY <1>3, <1>5
  <2>3. SumFunctionOnSet(WeightsOf(new), T \cup {o}) = rest + r.weight
    <3>1. SumFunctionOnSet(WeightsOf(new), T \cup {o}) = SumFunctionOnSet(WeightsOf(new), T) + WeightsOf(new)[o]
      BY <1>5, <2>2, SumOnSetAdd
    <3>2. o \in DOMAIN new /\ WeightsOf(new)[o] = r.weight
      BY <1>3
    <3>3. QED BY <1>7, <3>1, <3>2
  <2>4. ActiveWeight(new) <= NODE_BPS
    BY <1>8, <2>1, <2>3 DEF ActiveWeight
  <2>5. QED BY <1>1, <2>4 DEF WeighedRegistry
<1>9. CASE ~r.active
  <2>1. ActiveIn(new) = T
    BY <1>4, <1>9 DEF ActiveIn
  <2>2. ActiveWeight(new) <= NODE_BPS
    BY <1>2, <1>7, <2>1, ManagerNumbers DEF ActiveWeight
  <2>3. QED BY <1>1, <2>2 DEF WeighedRegistry
<1>10. QED BY <1>8, <1>9

LEMMA WrappedSum ==
  ASSUME NEW total \in Nat, total <= NODE_BPS, NEW weight \in Nat, weight <= NODE_BPS,
         NEW before \in Nat, before <= total
  PROVE  (total - before + weight) % U32 = total - before + weight
BY ManagerNumbers

LEMMA WeightOfOne ==
  ASSUME NEW old, WeighedRegistry(old), NEW o
  PROVE  LET before == IF o \in ActiveIn(old) THEN old[o].weight ELSE 0
         IN  before \in Nat /\ before <= ActiveWeight(old) /\ ActiveWeight(old) \in Nat
<1>1. /\ IsFiniteSet(ActiveIn(old)) /\ ActiveWeight(old) \in Nat
      /\ \A p \in DOMAIN old : WeightsOf(old)[p] = old[p].weight /\ old[p].weight \in Nat
  BY ActiveWeightIsNat DEF WeighedRegistry
<1>2. CASE o \in ActiveIn(old)
  <2>1. o \in DOMAIN old /\ \A p \in ActiveIn(old) : WeightsOf(old)[p] \in Nat
    BY <1>1, <1>2 DEF ActiveIn
  <2>2. ActiveWeight(old) = SumFunctionOnSet(WeightsOf(old), ActiveIn(old) \ {o}) + WeightsOf(old)[o]
    BY <1>1, <1>2, <2>1, SumOnSetWithout DEF ActiveWeight
  <2>3. SumFunctionOnSet(WeightsOf(old), ActiveIn(old) \ {o}) \in Nat
    BY <1>1, <2>1, FS_Subset, SumOfNats
  <2>4. QED BY <1>1, <1>2, <2>1, <2>2, <2>3
<1>3. QED BY <1>1, <1>2

LEMMA RegistrationFits ==
  ASSUME ManagerInv, NEW o, NEW w \in Weights, Manager!register_oracle(o, w)
  PROVE  ManagerInv'
<1>1. PICK r : r = [weight |-> w, reputation |-> InitialReputation, active |-> TRUE, last_update |-> 0]
  OBVIOUS
<1>2. WeighedOracle(r) /\ r.active /\ r.weight = w
  <2>1. r = [field \in DOMAIN r |-> r[field]]
    BY <1>1
  <2>2. QED BY <1>1, <2>1, ManagerNumbers DEF WeighedOracle
<1>3. /\ o \notin DOMAIN registry /\ registry' = Manager!Put(registry, o, r)
      /\ prices_held' = prices_held /\ aggregation' = aggregation
      /\ (ActiveWeight(registry) + w) % U32 <= NODE_BPS
  BY <1>1, TotalIsSum DEF Manager!register_oracle, Manager!Fits, ManagerInv
<1>4. /\ DOMAIN registry' = DOMAIN registry \cup {o} /\ registry'[o] = r
      /\ \A p \in DOMAIN registry : p # o => registry'[p] = registry[p]
  BY <1>3 DEF Manager!Put
<1>5. o \notin ActiveIn(registry)
  BY <1>3 DEF ActiveIn
<1>6. PICK total : total = ActiveWeight(registry)
  OBVIOUS
<1>7. total \in Nat /\ total <= NODE_BPS
  BY <1>6, WeightOfOne DEF ManagerInv, WeighedRegistry
<1>8. total + w <= NODE_BPS
  BY <1>3, <1>6, <1>7, ManagerNumbers
<1>9. PICK before \in Nat : before = 0
  OBVIOUS
<1>10. before = (IF o \in ActiveIn(registry) THEN registry[o].weight ELSE 0) /\ total = ActiveWeight(registry) - before
  BY <1>5, <1>6, <1>7, <1>9
<1>11. WeighedRegistry(registry')
  BY <1>2, <1>4, <1>7, <1>8, <1>10, OneReweighed DEF ManagerInv
<1>12. QED BY <1>3, <1>11 DEF ManagerInv

LEMMA ReweighingFits ==
  ASSUME ManagerInv, NEW o, NEW w \in Weights, Manager!update_oracle_weight(o, w)
  PROVE  ManagerInv'
<1>1. PICK r : r = [registry[o] EXCEPT !.weight = w]
  OBVIOUS
<1>2. /\ o \in DOMAIN registry /\ registry' = [registry EXCEPT ![o] = r]
      /\ prices_held' = prices_held /\ aggregation' = aggregation
      /\ (ActiveWeight(registry) - registry[o].weight + w) % U32 <= NODE_BPS
  BY <1>1, TotalIsSum DEF Manager!update_oracle_weight, ManagerInv
<1>3. WeighedOracle(registry[o])
  BY <1>2 DEF ManagerInv, WeighedRegistry
<1>4. WeighedOracle(r) /\ r.weight = w /\ r.active = registry[o].active
  BY <1>1, <1>3, ManagerNumbers DEF WeighedOracle
<1>5. /\ DOMAIN registry' = DOMAIN registry \cup {o} /\ registry'[o] = r
      /\ \A p \in DOMAIN registry : p # o => registry'[p] = registry[p]
  BY <1>2
<1>6. PICK before : before = (IF o \in ActiveIn(registry) THEN registry[o].weight ELSE 0)
  OBVIOUS
<1>7. PICK total : total = ActiveWeight(registry)
  OBVIOUS
<1>8. before \in Nat /\ total \in Nat /\ before <= total /\ total <= NODE_BPS
  BY <1>6, <1>7, WeightOfOne DEF ManagerInv, WeighedRegistry
<1>9. PICK rest : rest = total - before
  OBVIOUS
<1>10. rest \in Nat /\ rest <= NODE_BPS
  BY <1>8, <1>9, ManagerNumbers
<1>11. ASSUME r.active PROVE rest + w <= NODE_BPS
  <2>1. before = registry[o].weight
    BY <1>2, <1>4, <1>6, <1>11 DEF ActiveIn
  <2>2. (total - before + w) % U32 <= NODE_BPS
    BY <1>2, <1>7, <2>1
  <2>3. (total - before + w) % U32 = total - before + w
    BY <1>8, ManagerNumbers, WrappedSum
  <2>4. QED BY <1>9, <2>2, <2>3
<1>12. WeighedRegistry(registry')
  BY <1>4, <1>5, <1>6, <1>7, <1>8, <1>9, <1>10, <1>11, OneReweighed DEF ManagerInv
<1>13. QED BY <1>2, <1>12 DEF ManagerInv

LEMMA DeactivationFits ==
  ASSUME ManagerInv, NEW o, Manager!deactivate_oracle(o)
  PROVE  ManagerInv'
<1>1. PICK r : r = [registry[o] EXCEPT !.active = FALSE]
  OBVIOUS
<1>2. /\ o \in DOMAIN registry /\ registry' = [registry EXCEPT ![o] = r]
      /\ prices_held' = prices_held /\ aggregation' = aggregation
  BY <1>1 DEF Manager!deactivate_oracle
<1>3. WeighedOracle(registry[o])
  BY <1>2 DEF ManagerInv, WeighedRegistry
<1>4. WeighedOracle(r) /\ ~r.active
  BY <1>1, <1>3 DEF WeighedOracle
<1>5. /\ DOMAIN registry' = DOMAIN registry \cup {o} /\ registry'[o] = r
      /\ \A p \in DOMAIN registry : p # o => registry'[p] = registry[p]
  BY <1>2
<1>6. PICK before : before = (IF o \in ActiveIn(registry) THEN registry[o].weight ELSE 0)
  OBVIOUS
<1>7. PICK total : total = ActiveWeight(registry)
  OBVIOUS
<1>8. before \in Nat /\ total \in Nat /\ before <= total
  BY <1>6, <1>7, WeightOfOne DEF ManagerInv
<1>9. PICK rest \in Nat : rest = total - before
  BY <1>8
<1>10. WeighedRegistry(registry')
  BY <1>4, <1>5, <1>6, <1>7, <1>8, <1>9, OneReweighed DEF ManagerInv
<1>11. QED BY <1>2, <1>10 DEF ManagerInv

LEMMA CheckedRegistryFits ==
  ASSUME ManagerInv, Manager!check_heartbeats
  PROVE  ManagerInv'
<1>1. /\ DOMAIN registry' = DOMAIN registry
      /\ \A o \in DOMAIN registry : registry'[o] = registry[o] \/ registry'[o] = Manager!Punished(o)
      /\ prices_held' = prices_held /\ aggregation' = aggregation
  BY DEF Manager!check_heartbeats
<1>2. ASSUME NEW o \in DOMAIN registry
      PROVE  /\ WeighedOracle(registry'[o])
             /\ registry'[o].weight = registry[o].weight /\ registry'[o].active = registry[o].active
  <2>1. WeighedOracle(registry[o])
    BY DEF ManagerInv, WeighedRegistry
  <2>2. PICK score : registry'[o] = registry[o] \/ registry'[o] = [registry[o] EXCEPT !.reputation = score]
    BY <1>1 DEF Manager!Punished
  <2>3. QED BY <2>1, <2>2 DEF WeighedOracle
<1>3. WeighedRegistry(registry')
  BY <1>1, <1>2, SameWeights DEF ManagerInv
<1>4. QED BY <1>1, <1>3 DEF ManagerInv

LEMMA ManagerStep == ManagerInv /\ Manager!ManagerNext => ManagerInv'
<1> SUFFICES ASSUME ManagerInv, Manager!ManagerNext PROVE ManagerInv'
  OBVIOUS
<1>1. ASSUME NEW params \in ParamUpdates, Manager!update_aggregation_params(params) PROVE ManagerInv'
  BY <1>1, ManagerNumbers DEF Manager!update_aggregation_params, Manager!EnoughOracles, ManagerInv
<1>2. CASE UNCHANGED <<registry, prices_held, aggregation>>
  BY <1>2 DEF ManagerInv
<1>3. ASSUME NEW o, NEW interval, NEW max_missed,
             \/ Manager!set_heartbeat_config(o, interval, max_missed)
             \/ Manager!record_heartbeat(o) \/ Manager!disable_heartbeat(o) \/ Manager!ManagerElapse
      PROVE  UNCHANGED <<registry, prices_held, aggregation>>
  BY <1>3 DEF Manager!set_heartbeat_config, Manager!record_heartbeat, Manager!disable_heartbeat, Manager!ManagerElapse
<1>4. QED
  BY <1>1, <1>2, <1>3, RegistrationFits, ReweighingFits, DeactivationFits, CheckedRegistryFits
  DEF Manager!ManagerNext

LEMMA ManagerInitial == Manager!ManagerInit => ManagerInv
<1> SUFFICES ASSUME Manager!ManagerInit PROVE ManagerInv
  OBVIOUS
<1>1. DOMAIN registry = {} /\ prices_held = 0 /\ aggregation.min_oracles = MANAGER_MIN_ORACLES
  BY DEF Manager!ManagerInit, Manager!EmptyMap
<1>2. ActiveIn(registry) = {}
  BY <1>1 DEF ActiveIn
<1>3. ActiveWeight(registry) = 0
  BY <1>2, SumOnEmpty DEF ActiveWeight
<1>4. QED BY <1>1, <1>3, ManagerNumbers, FS_EmptySet DEF ManagerInv, WeighedRegistry

LEMMA ManagedOraclesCount == ManagerInv => Manager!WeightsFit /\ Manager!NothingIsPriced
<1> SUFFICES ASSUME ManagerInv PROVE Manager!WeightsFit /\ Manager!NothingIsPriced
  OBVIOUS
<1>1. Manager!WeightsFit
  BY TotalIsSum DEF ManagerInv, Manager!WeightsFit, WeighedRegistry
<1>2. ~Manager!Aggregates(prices_held + 1)
  BY DEF ManagerInv, Manager!Aggregates
<1>3. QED BY <1>1, <1>2 DEF Manager!NothingIsPriced, Manager!MayBeSubmitted

-----------------------------------------------------------------------------
(* The decentralized oracle: stakes, reputations, verdicts *)

Beats == [interval : Nat, last : Nat, missed : Nat]
DisputeRecords ==
  [oracle : Oracles, start_time : Nat, status : {"Pending", "ResolvedValid", "ResolvedInvalid"}]

NodeRecord(n) ==
  /\ n = [oracles |-> n.oracles, stakes |-> n.stakes, reputation |-> n.reputation, slash_count |-> n.slash_count]
  /\ DOMAIN n.stakes = DOMAIN n.oracles
  /\ DOMAIN n.reputation = DOMAIN n.oracles
  /\ n.stakes \in [DOMAIN n.stakes -> Nat]
  /\ n.reputation \in [DOMAIN n.reputation -> Nat]

NodeInv ==
  /\ NodeRecord(node)
  /\ node_now \in Nat
  /\ beats \in [DOMAIN beats -> Beats]
  /\ disputes \in Seq(DisputeRecords)
  /\ IsFiniteSet(DOMAIN reports) /\ reports \in [DOMAIN reports -> Nat]

LEMMA NodeNumbers ==
  /\ NODE_BPS \in Nat /\ NODE_BPS > 0 /\ MIN_ORACLES \in Nat /\ MIN_ORACLES > 0
  /\ SLASH_PERCENTAGE \in Nat /\ SLASH_PERCENTAGE <= NODE_BPS
  /\ StartReputation \in Nat
  /\ Reports \subseteq Nat /\ StakeSizes \subseteq Nat /\ HeartbeatIntervals \subseteq Nat
  /\ DISPUTE_BOND \in Nat /\ DOWNGRADE \in Nat
BY NodeInputs DEF Node!DecentralizedOracleAssumption

\* A verdict or a slash takes a share of the stake.
LEMMA SlashTakes ==
  ASSUME NEW stake \in Nat
  PROVE  Node!Slashed(stake) \in Nat /\ Node!Slashed(stake) <= stake
<1>1. PICK p : p = stake * SLASH_PERCENTAGE
  OBVIOUS
<1>2. p \in Nat /\ p <= stake * NODE_BPS
  BY <1>1, NodeNumbers, LessProduct
<1>3. p \div NODE_BPS \in Nat /\ p \div NODE_BPS <= stake
  BY <1>2, NodeNumbers, QuotientAtMost
<1>4. QED BY <1>1, <1>3 DEF Node!Slashed

\* What a step may do to stakes, reputations and disputes: PunishedOnce of it.
StakeMoved(o) ==
  /\ node'.reputation[o] <= node.reputation[o]
  /\ node'.stakes[o] < node.stakes[o] =>
       node'.slash_count[o] = Node!GetOr(node.slash_count, o, 0) + 1
  /\ node'.stakes[o] > node.stakes[o] =>
       \E id \in DOMAIN disputes :
         disputes[id].oracle = o /\ disputes'[id].status # disputes[id].status

Settled(id) ==
  disputes'[id] # disputes[id] =>
    /\ disputes[id].status = "Pending"
    /\ node_now - disputes[id].start_time >= DISPUTE_REVIEW_PERIOD

Punishes ==
  /\ \A id \in DOMAIN disputes : Settled(id)
  /\ \A o \in DOMAIN node.stakes \cap DOMAIN node'.stakes : StakeMoved(o)

LEMMA NodeNumbersOf ==
  ASSUME NodeInv, NEW o \in DOMAIN node.stakes
  PROVE  /\ node.stakes[o] \in Nat /\ node.reputation[o] \in Nat
         /\ o \in DOMAIN node.reputation /\ o \in DOMAIN node.oracles
BY DEF NodeInv, NodeRecord

\* A step that leaves the oracles alone.
LEMMA NodeAlone ==
  ASSUME NodeInv, node' = node, disputes' = disputes, node_now' = node_now
  PROVE  Punishes /\ NodeRecord(node') /\ node_now' \in Nat /\ disputes' \in Seq(DisputeRecords)
BY NodeNumbersOf DEF Punishes, Settled, StakeMoved, NodeInv

\* The part of NodeInv and of PunishedOnce that the stakes and verdicts are about.
NodeJudged == Punishes /\ NodeRecord(node') /\ disputes' \in Seq(DisputeRecords)

LEMMA NodeRegisters ==
  ASSUME NodeInv, NEW o, NEW stake \in StakeSizes, Node!register_oracle(o, stake)
  PROVE  NodeJudged
<1>1. /\ o \notin DOMAIN node.oracles /\ disputes' = disputes
      /\ node' = [node EXCEPT !.oracles = Node!Put(@, o, stake), !.stakes = Node!Put(@, o, stake),
                              !.reputation = Node!Put(@, o, StartReputation)]
  BY DEF Node!register_oracle
<1>2. NodeRecord(node) /\ o \notin DOMAIN node.stakes
  BY <1>1 DEF NodeInv, NodeRecord
<1>3. /\ node'.oracles = Node!Put(node.oracles, o, stake) /\ node'.stakes = Node!Put(node.stakes, o, stake)
      /\ node'.reputation = Node!Put(node.reputation, o, StartReputation)
      /\ node'.slash_count = node.slash_count
      /\ node' = [oracles |-> node'.oracles, stakes |-> node'.stakes,
                  reputation |-> node'.reputation, slash_count |-> node'.slash_count]
  BY <1>1, <1>2 DEF NodeRecord
<1>4. NodeRecord(node')
  BY <1>2, <1>3, NodeNumbers DEF NodeRecord, Node!Put
<1>5. \A p \in DOMAIN node.stakes : node'.stakes[p] = node.stakes[p] /\ node'.reputation[p] = node.reputation[p]
  BY <1>2, <1>3 DEF NodeRecord, Node!Put
<1>6. Punishes
  BY <1>1, <1>5, NodeNumbersOf DEF Punishes, StakeMoved, Settled
<1>7. QED BY <1>1, <1>4, <1>6 DEF NodeJudged, NodeInv

LEMMA NodeWithdraws ==
  ASSUME NodeInv, NEW o, Node!withdraw_stake(o)
  PROVE  NodeJudged
<1>1. /\ disputes' = disputes
      /\ node' = [node EXCEPT !.oracles = Node!Drop(@, o), !.stakes = Node!Drop(@, o), !.reputation = Node!Drop(@, o)]
  BY DEF Node!withdraw_stake
<1>2. NodeRecord(node)
  BY DEF NodeInv
<1>3. /\ node'.oracles = Node!Drop(node.oracles, o) /\ node'.stakes = Node!Drop(node.stakes, o)
      /\ node'.reputation = Node!Drop(node.reputation, o)
      /\ node'.slash_count = node.slash_count
      /\ node' = [oracles |-> node'.oracles, stakes |-> node'.stakes,
                  reputation |-> node'.reputation, slash_count |-> node'.slash_count]
  BY <1>1, <1>2 DEF NodeRecord
<1>4. NodeRecord(node')
  BY <1>2, <1>3 DEF NodeRecord, Node!Drop
<1>5. \A p \in DOMAIN node'.stakes : node'.stakes[p] = node.stakes[p] /\ node'.reputation[p] = node.reputation[p]
  BY <1>2, <1>3 DEF NodeRecord, Node!Drop
<1>6. Punishes
  BY <1>1, <1>5, NodeNumbersOf DEF Punishes, StakeMoved, Settled
<1>7. QED BY <1>1, <1>4, <1>6 DEF NodeJudged, NodeInv

LEMMA NinetyPercent ==
  ASSUME NEW score \in Nat
  PROVE  (score * 9) \div 10 \in Nat /\ (score * 9) \div 10 <= score
OBVIOUS

LEMMA NodeSlashes ==
  ASSUME NodeInv, NEW o, Node!slash_oracle(o)
  PROVE  NodeJudged
<1>1. /\ o \in DOMAIN node.stakes /\ disputes' = disputes
      /\ node' = [node EXCEPT !.stakes[o] = Node!Slashed(@), !.reputation[o] = (@ * 9) \div 10,
                              !.slash_count = Node!Put(@, o, Node!GetOr(@, o, 0) + 1)]
  BY DEF Node!slash_oracle
<1>2. NodeRecord(node)
  BY DEF NodeInv
<1>3. /\ node'.oracles = node.oracles
      /\ node'.stakes = [node.stakes EXCEPT ![o] = Node!Slashed(node.stakes[o])]
      /\ node'.reputation = [node.reputation EXCEPT ![o] = (node.reputation[o] * 9) \div 10]
      /\ node'.slash_count = Node!Put(node.slash_count, o, Node!GetOr(node.slash_count, o, 0) + 1)
      /\ node' = [oracles |-> node'.oracles, stakes |-> node'.stakes,
                  reputation |-> node'.reputation, slash_count |-> node'.slash_count]
  BY <1>1, <1>2 DEF NodeRecord
<1>4. /\ node.stakes[o] \in Nat /\ node.reputation[o] \in Nat /\ o \in DOMAIN node.reputation
      /\ Node!Slashed(node.stakes[o]) \in Nat /\ Node!Slashed(node.stakes[o]) <= node.stakes[o]
      /\ (node.reputation[o] * 9) \div 10 \in Nat /\ (node.reputation[o] * 9) \div 10 <= node.reputation[o]
  BY <1>1, NodeNumbersOf, SlashTakes, NinetyPercent
<1>5. NodeRecord(node')
  BY <1>2, <1>3, <1>4 DEF NodeRecord
<1>6. ASSUME NEW p \in DOMAIN node.stakes PROVE StakeMoved(p)
  <2>1. node.stakes[p] \in Nat /\ node.reputation[p] \in Nat /\ p \in DOMAIN node.reputation
    BY NodeNumbersOf
  <2>2. CASE p = o
    <3>1. node'.slash_count[o] = Node!GetOr(node.slash_count, o, 0) + 1
      BY <1>3 DEF Node!Put
    <3>2. node'.stakes[o] <= node.stakes[o] /\ node'.reputation[o] <= node.reputation[o]
          /\ node'.stakes[o] \in Nat
      BY <1>1, <1>3, <1>4
    <3>3. QED BY <2>1, <2>2, <3>1, <3>2 DEF StakeMoved
  <2>3. CASE p # o
    <3>1. node'.stakes[p] = node.stakes[p] /\ node'.reputation[p] = node.reputation[p]
      BY <1>3, <2>1, <2>3
    <3>2. QED BY <2>1, <3>1 DEF StakeMoved
  <2>4. QED BY <2>2, <2>3
<1>7. Punishes
  BY <1>1, <1>6 DEF Punishes, Settled
<1>8. QED BY <1>1, <1>5, <1>7 DEF NodeJudged, NodeInv

LEMMA NodeDisputes ==
  ASSUME NodeInv, NEW o \in Oracles, Node!open_dispute(o)
  PROVE  NodeJudged
<1>1. PICK d : d = [oracle |-> o, start_time |-> node_now, status |-> "Pending"]
  OBVIOUS
<1>2. d \in DisputeRecords
  BY <1>1 DEF DisputeRecords, NodeInv
<1>3. disputes \in Seq(DisputeRecords) /\ disputes' = Append(disputes, d) /\ node' = node
  BY <1>1 DEF Node!open_dispute, NodeInv
<1>4. \A id \in DOMAIN disputes : disputes'[id] = disputes[id]
  BY <1>2, <1>3
<1>5. disputes' \in Seq(DisputeRecords)
  BY <1>2, <1>3
<1>6. \A p \in DOMAIN node.stakes : StakeMoved(p)
  BY <1>3, NodeNumbersOf DEF StakeMoved
<1>7. QED BY <1>3, <1>4, <1>5, <1>6 DEF NodeJudged, Punishes, Settled, NodeInv

LEMMA NodeResolves ==
  ASSUME NodeInv, NEW id \in DOMAIN disputes, NEW is_valid \in BOOLEAN, Node!resolve_dispute(id, is_valid)
  PROVE  NodeJudged
<1>1. PICK s \in {"ResolvedValid", "ResolvedInvalid"} : s = IF is_valid THEN "ResolvedValid" ELSE "ResolvedInvalid"
  OBVIOUS
<1>2. PICK o : o = disputes[id].oracle
  OBVIOUS
<1>3. /\ disputes[id].status = "Pending"
      /\ node_now - disputes[id].start_time >= DISPUTE_REVIEW_PERIOD
      /\ disputes' = [disputes EXCEPT ![id].status = s]
      /\ node' = Node!Judged(o, is_valid)
  BY <1>1, <1>2 DEF Node!resolve_dispute, Node!Unresolved
<1>4. disputes \in Seq(DisputeRecords) /\ disputes[id] \in DisputeRecords /\ NodeRecord(node)
  BY DEF NodeInv
<1>5. PICK d : d = [disputes[id] EXCEPT !.status = s]
  OBVIOUS
<1>6. d \in DisputeRecords /\ d.status = s /\ s # "Pending" /\ disputes' = [disputes EXCEPT ![id] = d]
  BY <1>1, <1>3, <1>4, <1>5 DEF DisputeRecords
<1>7. /\ disputes' \in Seq(DisputeRecords) /\ disputes'[id] = d
      /\ \A i \in DOMAIN disputes : i # id => disputes'[i] = disputes[i]
  BY <1>4, <1>6
<1>8. \A i \in DOMAIN disputes : Settled(i)
  BY <1>3, <1>7 DEF Settled
<1>9. CASE node' = node
  BY <1>4, <1>7, <1>8, <1>9, NodeNumbersOf DEF NodeJudged, Punishes, StakeMoved
<1>10. CASE o \in DOMAIN node.stakes
  <2>1. PICK amount \in Nat :
           /\ amount = IF is_valid THEN Node!Slashed(node.stakes[o]) ELSE node.stakes[o] + DISPUTE_BOND
           /\ is_valid => amount <= node.stakes[o]
    BY <1>10, NodeNumbersOf, SlashTakes, NodeNumbers
  <2>2. PICK count : count = IF is_valid THEN Node!Put(node.slash_count, o, Node!GetOr(node.slash_count, o, 0) + 1)
                             ELSE node.slash_count
    OBVIOUS
  <2>3. /\ node'.oracles = node.oracles /\ node'.reputation = node.reputation
        /\ node'.stakes = [node.stakes EXCEPT ![o] = amount]
        /\ node'.slash_count = count
        /\ node' = [oracles |-> node'.oracles, stakes |-> node'.stakes,
                    reputation |-> node'.reputation, slash_count |-> node'.slash_count]
    <3>1. CASE is_valid
      BY <1>3, <1>4, <1>10, <2>1, <2>2, <3>1 DEF Node!Judged, NodeRecord
    <3>2. CASE ~is_valid
      BY <1>3, <1>4, <1>10, <2>1, <2>2, <3>2 DEF Node!Judged, NodeRecord
    <3>3. QED BY <3>1, <3>2
  <2>4. NodeRecord(node')
    BY <1>4, <2>1, <2>3 DEF NodeRecord
  <2>5. ASSUME NEW p \in DOMAIN node.stakes PROVE StakeMoved(p)
    <3>1. node.stakes[p] \in Nat /\ node.reputation[p] \in Nat
      BY NodeNumbersOf
    <3>2. CASE p # o
      BY <1>4, <2>3, <3>1, <3>2 DEF StakeMoved, NodeRecord
    <3>3. CASE p = o /\ is_valid
      <4>1. node'.slash_count[o] = Node!GetOr(node.slash_count, o, 0) + 1
        BY <2>2, <2>3, <3>3 DEF Node!Put
      <4>2. node'.stakes[o] = amount /\ node'.reputation[o] = node.reputation[o] /\ amount <= node.stakes[o]
        BY <1>10, <1>4, <2>1, <2>3, <3>3
      <4>3. QED BY <2>1, <3>1, <3>3, <4>1, <4>2 DEF StakeMoved
    <3>4. CASE p = o /\ ~is_valid
      <4>1. disputes[id].oracle = o /\ disputes'[id].status # disputes[id].status
        BY <1>2, <1>3, <1>6, <1>7
      <4>2. node'.stakes[o] = node.stakes[o] + DISPUTE_BOND /\ node'.reputation[o] = node.reputation[o]
        BY <1>10, <1>4, <2>1, <2>3, <3>4 DEF NodeRecord
      <4>3. QED BY <3>1, <3>4, <4>1, <4>2, NodeNumbers DEF StakeMoved
    <3>5. QED BY <3>2, <3>3, <3>4
  <2>6. QED BY <1>7, <1>8, <2>4, <2>5 DEF NodeJudged, Punishes
<1>11. QED BY <1>3, <1>9, <1>10 DEF Node!Judged

LEMMA Falls ==
  ASSUME NEW score \in Nat, NEW by \in Nat
  PROVE  Node!Fallen(score, by) \in Nat /\ Node!Fallen(score, by) <= score
BY DEF Node!Fallen

LEMMA LeastOfTwo ==
  ASSUME NEW a \in Nat
  PROVE  Node!Min({a, 10}) \in Nat
<1>1. \E x \in {a, 10} : \A y \in {a, 10} : x =< y
  OBVIOUS
<1>2. Node!Min({a, 10}) \in {a, 10}
  BY <1>1 DEF Node!Min
<1>3. QED BY <1>2

\* The intervals an oracle missed; none if it is not watched.
LEMMA MissedIntervals ==
  ASSUME NodeInv, NEW o, Node!MissedBy(o) > 0
  PROVE  /\ o \in DOMAIN beats /\ beats[o] \in Beats
         /\ Node!MissedBy(o) \in Nat
<1>1. o \in DOMAIN beats
  BY DEF Node!MissedBy, Node!GetOr, Node!NoBeat
<1>2. beats[o] \in Beats /\ node_now \in Nat
  BY <1>1 DEF NodeInv
<1>3. beats[o].interval \in Nat /\ beats[o].last \in Nat /\ beats[o].interval # 0
      /\ Node!MissedBy(o) = (node_now - beats[o].last) \div beats[o].interval
  BY <1>1, <1>2 DEF Node!MissedBy, Node!GetOr, Beats
<1>4. Node!MissedBy(o) \in Int
  BY <1>2, <1>3, DivisionBounds
<1>5. QED BY <1>1, <1>2, <1>4

LEMMA NodeChecks ==
  ASSUME NodeInv, Node!check_heartbeats
  PROVE  NodeJudged /\ beats' \in [DOMAIN beats' -> Beats]
<1>1. PICK late : late = {o \in DOMAIN node.oracles : Node!MissedBy(o) > 0}
  OBVIOUS
<1>2. PICK total : total = [o \in late |-> beats[o].missed + Node!MissedBy(o)]
  OBVIOUS
<1>3. /\ disputes' = disputes
      /\ beats' = [o \in DOMAIN beats |-> IF o \in late THEN [beats[o] EXCEPT !.missed = total[o]] ELSE beats[o]]
      /\ node' = [node EXCEPT !.reputation = [o \in DOMAIN @ |->
                    IF o \in late /\ total[o] >= 3
                    THEN Node!Fallen(@[o], DOWNGRADE * Node!Min({total[o] \div 3, 10})) ELSE @[o]]]
  BY <1>1, <1>2 DEF Node!check_heartbeats
<1>4. ASSUME NEW o \in late
      PROVE  beats[o] \in Beats /\ total[o] \in Nat
  <2>1. beats[o] \in Beats /\ Node!MissedBy(o) \in Nat
    BY <1>1, MissedIntervals
  <2>2. QED BY <1>2, <2>1 DEF Beats
<1>5. beats' \in [DOMAIN beats' -> Beats]
  <2>1. ASSUME NEW o \in DOMAIN beats PROVE beats'[o] \in Beats
    BY <1>3, <1>4 DEF Beats, NodeInv
  <2>2. QED BY <1>3, <2>1
<1>6. NodeRecord(node)
  BY DEF NodeInv
<1>7. PICK scores : scores = [o \in DOMAIN node.reputation |->
                    IF o \in late /\ total[o] >= 3
                    THEN Node!Fallen(node.reputation[o], DOWNGRADE * Node!Min({total[o] \div 3, 10}))
                    ELSE node.reputation[o]]
  OBVIOUS
<1>8. /\ node'.oracles = node.oracles /\ node'.stakes = node.stakes
      /\ node'.reputation = scores /\ node'.slash_count = node.slash_count
      /\ node' = [oracles |-> node'.oracles, stakes |-> node'.stakes,
                  reputation |-> node'.reputation, slash_count |-> node'.slash_count]
  BY <1>3, <1>6, <1>7 DEF NodeRecord
<1>9. ASSUME NEW o \in DOMAIN node.reputation
      PROVE  scores[o] \in Nat /\ scores[o] <= node.reputation[o]
  <2>1. node.reputation[o] \in Nat
    BY <1>6 DEF NodeRecord
  <2>2. CASE o \in late /\ total[o] >= 3
    <3>1. PICK steps \in Nat : steps = total[o] \div 3
      BY <1>4, <2>2
    <3>2. Node!Min({steps, 10}) \in Nat
      BY <3>1, LeastOfTwo
    <3>3. DOWNGRADE * Node!Min({steps, 10}) \in Nat
      BY <3>2, NodeNumbers
    <3>4. QED BY <1>7, <2>1, <2>2, <3>1, <3>3, Falls
  <2>3. CASE ~(o \in late /\ total[o] >= 3)
    BY <1>7, <2>1, <2>3
  <2>4. QED BY <2>2, <2>3
<1>10. NodeRecord(node')
  <2>1. DOMAIN scores = DOMAIN node.reputation /\ scores \in [DOMAIN scores -> Nat]
    BY <1>7, <1>9
  <2>2. QED BY <1>6, <1>8, <2>1 DEF NodeRecord
<1>11. ASSUME NEW o \in DOMAIN node.stakes PROVE StakeMoved(o)
  BY <1>8, <1>9, NodeNumbersOf DEF StakeMoved
<1>12. QED BY <1>3, <1>5, <1>10, <1>11 DEF NodeJudged, Punishes, Settled, NodeInv

LEMMA NodeBeats ==
  ASSUME NodeInv, NEW o, NEW beat \in Beats, beats' = Node!Put(beats, o, beat)
  PROVE  beats' \in [DOMAIN beats' -> Beats]
BY DEF Node!Put, NodeInv

LEMMA NodeWatches ==
  ASSUME NodeInv, NEW o,
         \/ Node!record_heartbeat(o)
         \/ \E interval \in HeartbeatIntervals : Node!set_heartbeat_interval(o, interval)
  PROVE  beats' \in [DOMAIN beats' -> Beats]
<1>1. ASSUME NEW interval \in HeartbeatIntervals, Node!set_heartbeat_interval(o, interval)
      PROVE  beats' \in [DOMAIN beats' -> Beats]
  <2>1. [interval |-> interval, last |-> node_now, missed |-> 0] \in Beats
    BY NodeNumbers DEF Beats, NodeInv
  <2>2. QED BY <1>1, <2>1, NodeBeats DEF Node!set_heartbeat_interval
<1>2. CASE Node!record_heartbeat(o)
  <2>1. Node!GetOr(beats, o, Node!NoBeat) \in Beats
    BY DEF Node!GetOr, Node!NoBeat, Beats, NodeInv
  <2>2. [Node!GetOr(beats, o, Node!NoBeat) EXCEPT !.last = node_now, !.missed = 0] \in Beats
    BY <2>1 DEF Beats, NodeInv
  <2>3. QED BY <1>2, <2>2, NodeBeats DEF Node!record_heartbeat
<1>3. QED BY <1>1, <1>2

LEMMA NodeReports ==
  ASSUME NodeInv, NEW o, NEW price \in Reports, Node!submit_price(o, price)
  PROVE  IsFiniteSet(DOMAIN reports') /\ reports' \in [DOMAIN reports' -> Nat]
<1>1. reports' = Node!Put(reports, o, price)
  BY DEF Node!submit_price
<1>2. DOMAIN reports' = DOMAIN reports \cup {o}
  BY <1>1 DEF Node!Put
<1>3. IsFiniteSet(DOMAIN reports')
  BY <1>2, FS_AddElement DEF NodeInv
<1>4. QED BY <1>1, <1>3, NodeNumbers DEF Node!Put, NodeInv

LEMMA NodeInitial == Node!NodeInit => NodeInv
<1> SUFFICES ASSUME Node!NodeInit PROVE NodeInv
  OBVIOUS
<1>1. NodeRecord(node)
  BY DEF Node!NodeInit, NodeRecord, Node!EmptyMap
<1>2. /\ node_now = 1 /\ DOMAIN beats = {} /\ beats = [o \in {} |-> o]
      /\ DOMAIN reports = {} /\ reports = [o \in {} |-> o]
      /\ disputes = <<>>
  BY DEF Node!NodeInit, Node!EmptyMap
<1>3. beats \in [DOMAIN beats -> Beats] /\ reports \in [DOMAIN reports -> Nat]
  BY <1>2
<1>4. QED BY <1>1, <1>2, <1>3, FS_EmptySet DEF NodeInv

NodeKept == NodeInv' /\ Punishes

\* Which of the parts of NodeInv an operation leaves alone.
LEMMA NodeKeptBy ==
  ASSUME NodeInv,
         NodeJudged \/ UNCHANGED <<node, disputes>>,
         node_now' \in Nat,
         UNCHANGED beats \/ beats' \in [DOMAIN beats' -> Beats],
         UNCHANGED reports \/ (IsFiniteSet(DOMAIN reports') /\ reports' \in [DOMAIN reports' -> Nat])
  PROVE  NodeKept
<1>1. NodeJudged
  BY NodeAlone, NodeNumbersOf DEF NodeJudged, NodeInv, Punishes, Settled, StakeMoved
<1>2. beats' \in [DOMAIN beats' -> Beats]
  BY DEF NodeInv
<1>3. IsFiniteSet(DOMAIN reports') /\ reports' \in [DOMAIN reports' -> Nat]
  BY DEF NodeInv
<1>4. QED BY <1>1, <1>2, <1>3 DEF NodeKept, NodeJudged, NodeInv

LEMMA NodeStep == NodeInv /\ Node!NodeNext => NodeKept
<1> SUFFICES ASSUME NodeInv, Node!NodeNext PROVE NodeKept
  OBVIOUS
<1>0. node_now \in Nat
  BY DEF NodeInv
<1>1. ASSUME NEW o \in Oracles, NEW stake \in StakeSizes, Node!register_oracle(o, stake) PROVE NodeKept
  BY <1>0, <1>1, NodeRegisters, NodeKeptBy DEF Node!register_oracle
<1>2. ASSUME NEW o \in Oracles, NEW price \in Reports, Node!submit_price(o, price) PROVE NodeKept
  BY <1>0, <1>2, NodeReports, NodeKeptBy DEF Node!submit_price
<1>3. ASSUME NEW o \in Oracles, NEW interval \in HeartbeatIntervals, Node!set_heartbeat_interval(o, interval)
      PROVE  NodeKept
  BY <1>0, <1>3, NodeWatches, NodeKeptBy DEF Node!set_heartbeat_interval
<1>4. ASSUME NEW o \in Oracles, Node!record_heartbeat(o) PROVE NodeKept
  BY <1>0, <1>4, NodeWatches, NodeKeptBy DEF Node!record_heartbeat
<1>5. ASSUME NEW o \in Oracles, Node!request_unbond(o) \/ Node!UnbondingExpires(o) PROVE NodeKept
  BY <1>0, <1>5, NodeKeptBy DEF Node!request_unbond, Node!UnbondingExpires
<1>6. ASSUME NEW o \in Oracles, Node!withdraw_stake(o) PROVE NodeKept
  BY <1>0, <1>6, NodeWithdraws, NodeKeptBy DEF Node!withdraw_stake
<1>7. ASSUME NEW o \in Oracles, Node!slash_oracle(o) PROVE NodeKept
  BY <1>0, <1>7, NodeSlashes, NodeKeptBy DEF Node!slash_oracle
<1>8. ASSUME NEW o \in Oracles, Node!open_dispute(o) PROVE NodeKept
  BY <1>0, <1>8, NodeDisputes, NodeKeptBy DEF Node!open_dispute
<1>9. ASSUME NEW id \in DOMAIN disputes, NEW is_valid \in BOOLEAN, Node!resolve_dispute(id, is_valid)
      PROVE  NodeKept
  BY <1>0, <1>9, NodeResolves, NodeKeptBy DEF Node!resolve_dispute
<1>10. ASSUME NEW update \in Updates, Node!update_config(update[1], update[2]) PROVE NodeKept
  BY <1>0, <1>10, NodeKeptBy DEF Node!update_config
<1>11. ASSUME NEW paused \in BOOLEAN, Node!SetPaused(paused) PROVE NodeKept
  BY <1>0, <1>11, NodeKeptBy DEF Node!SetPaused
<1>12. CASE Node!check_heartbeats
  BY <1>0, <1>12, NodeChecks, NodeKeptBy DEF Node!check_heartbeats
<1>13. CASE Node!NodeElapse
  BY <1>0, <1>13, NodeKeptBy DEF Node!NodeElapse
<1>14. QED
  BY <1>1, <1>2, <1>3, <1>4, <1>5, <1>6, <1>7, <1>8, <1>9, <1>10, <1>11, <1>12, <1>13 DEF Node!NodeNext

-----------------------------------------------------------------------------
(* The two of them side by side with the others *)

LEMMA ContractsMove ==
  ASSUME [MCNext]_allVars
  PROVE  /\ Node!NodeNext \/ UNCHANGED nodeVars
         /\ Manager!ManagerNext \/ UNCHANGED managerVars
         /\ Failover!FailoverNext \/ UNCHANGED failoverVars
         /\ History!HistoryNext \/ UNCHANGED historyVars
         /\ Stream!StreamNext \/ UNCHANGED streamVars
BY DEF MCNext, allVars

LEMMA NodeAndManagerStep ==
  ManagerInv /\ NodeInv /\ [MCNext]_allVars => ManagerInv' /\ NodeInv' /\ (Punishes \/ UNCHANGED nodeVars)
<1> SUFFICES ASSUME ManagerInv, NodeInv, [MCNext]_allVars
             PROVE  ManagerInv' /\ NodeInv' /\ (Punishes \/ UNCHANGED nodeVars)
  OBVIOUS
<1>1. ManagerInv'
  <2>1. CASE UNCHANGED managerVars
    BY <2>1 DEF ManagerInv, managerVars
  <2>2. QED BY <2>1, ManagerStep, ContractsMove
<1>2. NodeInv' /\ (Punishes \/ UNCHANGED nodeVars)
  <2>1. CASE UNCHANGED nodeVars
    BY <2>1 DEF NodeInv, nodeVars
  <2>2. QED BY <2>1, NodeStep, ContractsMove DEF NodeKept
<1>3. QED BY <1>1, <1>2

LEMMA NodeAndManagerInitial == MCInit => ManagerInv /\ NodeInv
BY NodeInitial, ManagerInitial DEF MCInit

(* However oracles register, change their weight, leave or are judged in     *)
(* between: only who is registered has a stake and a reputation, the active  *)
(* weights are at most the whole, and no price is ever taken by the manager. *)
THEOREM OraclesAlwaysCounted == MCSpec => []OraclesAreCounted
<1>1. ManagerInv /\ NodeInv => OraclesAreCounted
  <2>1. NodeInv => Node!StakesAreOfOracles
    BY DEF NodeInv, NodeRecord, Node!StakesAreOfOracles
  <2>2. QED BY <2>1, ManagedOraclesCount DEF OraclesAreCounted
<1>2. QED BY <1>1, NodeAndManagerInitial, NodeAndManagerStep, PTL DEF MCSpec

-----------------------------------------------------------------------------
(* More about sums *)

(* A family of sets that holds the empty one, and with a part of S also the *)
(* part with one more element, holds S.                                     *)
LEMMA ByElements ==
  ASSUME NEW S, IsFiniteSet(S), NEW F, {} \in F,
         \A T \in SUBSET S : \A x \in S \ T : T \in F => T \cup {x} \in F
  PROVE  S \in F
<1> DEFINE Bad == {n \in Nat : \E T \in SUBSET S : Cardinality(T) = n /\ T \notin F}
<1>1. \A T \in SUBSET S : IsFiniteSet(T) /\ Cardinality(T) \in Nat
  BY FS_Subset, FS_CardinalityType
<1>2. ASSUME Bad # {} PROVE FALSE
  <2>1. PICK m \in Bad : \A y \in Bad : m <= y
    <3>1. Bad \in SUBSET Nat
      OBVIOUS
    <3> HIDE DEF Bad
    <3>2. QED BY <1>2, <3>1, LeastElement
  <2>2. PICK T \in SUBSET S : Cardinality(T) = m /\ T \notin F
    OBVIOUS
  <2>3. PICK x \in T : TRUE
    BY <2>2
  <2>4. PICK U : U = T \ {x}
    OBVIOUS
  <2>5. IsFiniteSet(T)
    BY <1>1
  <2>6. Cardinality(U) = m - 1
    BY <2>2, <2>4, <2>5, FS_RemoveElement
  <2>7. U \in SUBSET S /\ x \in S \ U /\ T = U \cup {x} /\ Cardinality(U) \in Nat
    BY <1>1, <2>4
  <2>8. m - 1 \in Nat /\ ~(m <= m - 1)
    BY <2>6, <2>7
  <2>9. U \in F
    <3>1. m - 1 \notin Bad
      <4> HIDE DEF Bad
      <4>1. QED BY <2>1, <2>8
    <3>2. QED BY <2>6, <2>7, <2>8, <3>1
  <2>10. QED BY <2>2, <2>7, <2>9
<1>3. QED
  <2>1. Cardinality(S) \in Nat
    BY <1>1
  <2>2. QED BY <1>2, <2>1

LEMMA Distributes ==
  ASSUME NEW c \in Int, NEW a \in Int, NEW b \in Int
  PROVE  c * (a + b) = c * a + c * b
OBVIOUS

(* A factor of every term is one of the sum. *)
LEMMA SumOnSetScaled ==
  ASSUME NEW S, IsFiniteSet(S), NEW f, NEW g, NEW c \in Int,
         \A x \in S : f[x] \in Int /\ g[x] = c * f[x]
  PROVE  SumFunctionOnSet(g, S) = c * SumFunctionOnSet(f, S)
<1> DEFINE F == {T \in SUBSET S : SumFunctionOnSet(g, T) = c * SumFunctionOnSet(f, T)}
<1>1. {} \in F
  BY SumOnEmpty
<1>2. ASSUME NEW T \in SUBSET S, NEW x \in S \ T, T \in F PROVE T \cup {x} \in F
  <2>1. IsFiniteSet(T) /\ \A y \in T \cup {x} : f[y] \in Int /\ g[y] \in Int
    BY FS_Subset
  <2>2. /\ SumFunctionOnSet(g, T \cup {x}) = SumFunctionOnSet(g, T) + g[x]
        /\ SumFunctionOnSet(f, T \cup {x}) = SumFunctionOnSet(f, T) + f[x]
        /\ SumFunctionOnSet(f, T) \in Int
    BY <2>1, SumOnSetAdd, SumOnSetIsInt
  <2>3. c * (SumFunctionOnSet(f, T) + f[x]) = c * SumFunctionOnSet(f, T) + c * f[x]
    BY <2>2, Distributes
  <2>4. QED BY <1>2, <2>2, <2>3
<1> HIDE DEF F
<1>3. S \in F
  BY <1>1, <1>2, ByElements
<1>4. QED BY <1>3 DEF F

(* As many ones as there are elements. *)
LEMMA SumOfOnes ==
  ASSUME NEW S, IsFiniteSet(S), NEW f, \A x \in S : f[x] = 1
  PROVE  SumFunctionOnSet(f, S) = Cardinality(S)
<1> DEFINE F == {T \in SUBSET S : SumFunctionOnSet(f, T) = Cardinality(T)}
<1>1. {} \in F
  BY SumOnEmpty, FS_EmptySet
<1>2. ASSUME NEW T \in SUBSET S, NEW x \in S \ T, T \in F PROVE T \cup {x} \in F
  <2>1. IsFiniteSet(T) /\ \A y \in T \cup {x} : f[y] \in Int
    BY FS_Subset
  <2>2. SumFunctionOnSet(f, T \cup {x}) = SumFunctionOnSet(f, T) + f[x]
    BY <2>1, SumOnSetAdd
  <2>3. Cardinality(T \cup {x}) = Cardinality(T) + 1
    BY <2>1, FS_AddElement
  <2>4. QED BY <1>2, <2>2, <2>3
<1> HIDE DEF F
<1>3. S \in F
  BY <1>1, <1>2, ByElements
<1>4. QED BY <1>3 DEF F

(* The sum over two parts is the sum of theirs, and no part exceeds the whole. *)
LEMMA SumOfParts ==
  ASSUME NEW S, IsFiniteSet(S), NEW R, IsFiniteSet(R), R \cap S = {}, NEW f, \A x \in S \cup R : f[x] \in Int
  PROVE  SumFunctionOnSet(f, R \cup S) = SumFunctionOnSet(f, R) + SumFunctionOnSet(f, S)
<1> DEFINE F == {T \in SUBSET S : SumFunctionOnSet(f, R \cup T) = SumFunctionOnSet(f, R) + SumFunctionOnSet(f, T)}
<1>0. SumFunctionOnSet(f, R) \in Int
  BY SumOnSetIsInt
<1>1. {} \in F
  <2>1. R \cup {} = R
    OBVIOUS
  <2>2. QED BY <1>0, <2>1, SumOnEmpty
<1>2. ASSUME NEW T \in SUBSET S, NEW x \in S \ T, T \in F PROVE T \cup {x} \in F
  <2>1. IsFiniteSet(T) /\ \A y \in T \cup {x} : f[y] \in Int
    BY FS_Subset
  <2>2. PICK U : U = R \cup T
    OBVIOUS
  <2>3. IsFiniteSet(U) /\ x \notin U /\ R \cup (T \cup {x}) = U \cup {x} /\ \A y \in U \cup {x} : f[y] \in Int
    BY <2>1, <2>2, FS_Union
  <2>4. SumFunctionOnSet(f, U \cup {x}) = SumFunctionOnSet(f, U) + f[x]
    BY <2>3, SumOnSetAdd
  <2>5. SumFunctionOnSet(f, T \cup {x}) = SumFunctionOnSet(f, T) + f[x] /\ SumFunctionOnSet(f, T) \in Int
    BY <2>1, SumOnSetAdd, SumOnSetIsInt
  <2>6. SumFunctionOnSet(f, U) = SumFunctionOnSet(f, R) + SumFunctionOnSet(f, T)
    BY <1>2, <2>2
  <2>7. f[x] \in Int
    OBVIOUS
  <2>8. SumFunctionOnSet(f, U \cup {x}) = SumFunctionOnSet(f, R) + SumFunctionOnSet(f, T \cup {x})
    BY <1>0, <2>4, <2>5, <2>6, <2>7
  <2>9. SumFunctionOnSet(f, R \cup (T \cup {x})) = SumFunctionOnSet(f, R) + SumFunctionOnSet(f, T \cup {x})
    BY <2>3, <2>8
  <2>10. QED BY <2>9
<1> HIDE DEF F
<1>3. S \in F
  BY <1>1, <1>2, ByElements
<1>4. QED BY <1>3 DEF F

LEMMA SumOfSome ==
  ASSUME NEW S, IsFiniteSet(S), NEW T \in SUBSET S, NEW f, \A x \in S : f[x] \in Nat
  PROVE  /\ SumFunctionOnSet(f, T) \in Nat /\ SumFunctionOnSet(f, S \ T) \in Nat
         /\ SumFunctionOnSet(f, S) = SumFunctionOnSet(f, T) + SumFunctionOnSet(f, S \ T)
<1>1. PICK U : U = S \ T
  OBVIOUS
<1>2. IsFiniteSet(T) /\ IsFiniteSet(U) /\ T \cap U = {} /\ T \cup U = S
  BY <1>1, FS_Subset
<1>3. \A x \in U \cup T : f[x] \in Int
  BY <1>2
<1>4. SumFunctionOnSet(f, T \cup U) = SumFunctionOnSet(f, T) + SumFunctionOnSet(f, U)
  BY <1>2, <1>3, SumOfParts
<1>5. QED BY <1>1, <1>2, <1>4, SumOfNats

\* The elements of S that key maps to w, and into W.
Group(S, key, w) == {i \in S : key[i] = w}
GroupsOf(S, key, W) == {i \in S : key[i] \in W}

(* Summing group by group. *)
LEMMA SumOfGroups ==
  ASSUME NEW S, IsFiniteSet(S), NEW f, \A i \in S : f[i] \in Nat, NEW key,
         NEW W, IsFiniteSet(W), NEW g,
         \A w \in W : g[w] = SumFunctionOnSet(f, Group(S, key, w))
  PROVE  SumFunctionOnSet(g, W) = SumFunctionOnSet(f, GroupsOf(S, key, W))
<1> DEFINE In(T) == GroupsOf(S, key, T)
           F == {T \in SUBSET W : SumFunctionOnSet(g, T) = SumFunctionOnSet(f, In(T))}
<1>1. {} \in F
  <2>1. In({}) = {}
    BY DEF GroupsOf
  <2>2. QED BY <2>1, SumOnEmpty
<1>2. ASSUME NEW T \in SUBSET W, NEW x \in W \ T, T \in F PROVE T \cup {x} \in F
  <2>1. PICK A, B : A = In(T) /\ B = Group(S, key, x)
    OBVIOUS
  <2>2. /\ IsFiniteSet(A) /\ IsFiniteSet(B) /\ A \cap B = {} /\ A \cup B = In(T \cup {x})
        /\ \A i \in B \cup A : f[i] \in Nat
    BY <2>1, FS_Subset DEF Group, GroupsOf
  <2>3. SumFunctionOnSet(f, A \cup B) = SumFunctionOnSet(f, A) + SumFunctionOnSet(f, B)
    BY <2>2, SumOfParts
  <2>4. IsFiniteSet(T) /\ \A w \in T \cup {x} : g[w] \in Int
    <3>1. ASSUME NEW w \in W PROVE g[w] \in Nat
      <4>1. PICK C : C = Group(S, key, w)
        OBVIOUS
      <4>2. IsFiniteSet(C) /\ C \subseteq S /\ g[w] = SumFunctionOnSet(f, C)
        BY <4>1, FS_Subset DEF Group
      <4>3. QED BY <4>2, SumOfNats
    <3>2. QED BY <3>1, FS_Subset
  <2>5. SumFunctionOnSet(g, T \cup {x}) = SumFunctionOnSet(g, T) + g[x]
    BY <2>4, SumOnSetAdd
  <2>6. g[x] = SumFunctionOnSet(f, B)
    BY <2>1
  <2>7. SumFunctionOnSet(g, T \cup {x}) = SumFunctionOnSet(f, In(T \cup {x}))
    <3>1. SumFunctionOnSet(g, T) = SumFunctionOnSet(f, A)
      BY <1>2, <2>1
    <3> HIDE DEF In
    <3>2. QED BY <2>2, <2>3, <2>5, <2>6, <3>1
  <2>8. QED BY <2>7
<1> HIDE DEF F, In
<1>3. W \in F
  BY <1>1, <1>2, ByElements
<1>4. QED BY <1>3 DEF F, In

(* What a function takes on a finite set is finite. *)
LEMMA FiniteImage ==
  ASSUME NEW S, IsFiniteSet(S), NEW f
  PROVE  IsFiniteSet({f[x] : x \in S})
<1>1. PICK T : T = {f[x] : x \in S}
  OBVIOUS
<1>2. PICK g : g = [x \in S |-> f[x]]
  OBVIOUS
<1>3. g \in Surjection(S, T)
  BY <1>1, <1>2 DEF Surjection
<1>4. QED BY <1>1, <1>3, FS_Surjection

-----------------------------------------------------------------------------
(* The history: what is entered, compressed and pruned *)

Minute == Duration["OneMinute"]

Bucket ==
  [open : Nat, high : Nat, low : Nat, close : Nat, entry_count : Nat, first_timestamp : Nat, last_timestamp : Nat]

CountsIn(buckets) == [i \in DOMAIN buckets |-> buckets[i].entry_count]
RawCountsIn(archive) == [w \in DOMAIN archive |-> archive[w].raw_entry_count]

\* Every minute's bucket holds prices of that minute.
MinutesOK(buckets) ==
  /\ IsFiniteSet(DOMAIN buckets) /\ DOMAIN buckets \subseteq Nat
  /\ \A i \in DOMAIN buckets :
       /\ buckets[i] \in Bucket
       /\ buckets[i].first_timestamp \div Minute = i /\ buckets[i].last_timestamp \div Minute = i

\* The windows of an archive ended before a time.
ArchiveOK(archive, secs, until) ==
  /\ IsFiniteSet(DOMAIN archive) /\ DOMAIN archive \subseteq Nat
  /\ \A w \in DOMAIN archive : archive[w].raw_entry_count \in Nat /\ w + secs <= until

StoreOK(s, recent, medium) ==
  /\ s = [live |-> s.live, medium |-> s.medium, historical |-> s.historical]
  /\ DOMAIN s.live = DOMAIN Duration
  /\ MinutesOK(s.live["OneMinute"])
  /\ ArchiveOK(s.medium, HOUR_SECS, recent)
  /\ ArchiveOK(s.historical, DAY_SECS, medium)

Entries(s) ==
  SumFunction(CountsIn(s.live["OneMinute"])) + SumFunction(RawCountsIn(s.medium))
    + SumFunction(RawCountsIn(s.historical))

HistoryInv ==
  /\ clock \in Nat /\ clock >= HistoryStart
  /\ StoreOK(store, History!Before(TIER_RECENT_SECS), History!Before(TIER_MEDIUM_SECS))
  /\ metadata.total_entries \in Nat
  /\ metadata.last_timestamp \in Nat /\ metadata.last_timestamp <= clock
  /\ Entries(store) <= metadata.total_entries
  /\ \A cached \in analytics : cached.last_update >= metadata.last_timestamp

LEMMA HistoryNumbers ==
  /\ "OneMinute" \in DOMAIN Duration /\ Minute \in Nat /\ Minute > 0
  /\ HOUR_SECS \in Nat /\ HOUR_SECS > 0 /\ DAY_SECS \in Nat /\ DAY_SECS > 0
  /\ TIER_RECENT_SECS \in Nat /\ TIER_MEDIUM_SECS \in Nat /\ MAX_HISTORY_RETENTION \in Nat
  /\ HistoryStart \in Nat
  /\ MAX_HISTORY_RETENTION <= TIER_RECENT_SECS /\ TIER_RECENT_SECS <= TIER_MEDIUM_SECS
  /\ HistoryPrices \subseteq Nat
  /\ \A s \in Ages : s \in Nat /\ s < HistoryStart
  /\ Retentions \subseteq Nat /\ Steps \subseteq Nat
BY HistoryInputs DEF History!PriceHistoryAssumption, History!Granularities, Minute

LEMMA BeforeIsNat ==
  ASSUME NEW secs \in Nat, clock \in Nat
  PROVE  History!Before(secs) \in Nat
BY DEF History!Before

LEMMA LaterGrows ==
  ASSUME NEW secs \in Nat, NEW t \in Nat, NEW u \in Nat, t <= u
  PROVE  (IF t > secs THEN t - secs ELSE 0) <= (IF u > secs THEN u - secs ELSE 0)
OBVIOUS

LEMMA BeforeGrows ==
  ASSUME NEW secs \in Nat, clock \in Nat, clock' \in Nat, clock <= clock'
  PROVE  History!Before(secs) <= History!Before(secs)'
BY LaterGrows DEF History!Before

(* What goes into an archive, grouped by its window, is what the archive gains *)
(* at most: a window that is archived already gains nothing.                   *)
LEMMA Compressing ==
  ASSUME NEW c, IsFiniteSet(DOMAIN c), \A i \in DOMAIN c : c[i] \in Nat,
         NEW old \in SUBSET DOMAIN c, NEW key, NEW full, IsFiniteSet(full),
         NEW a, IsFiniteSet(DOMAIN a), \A w \in DOMAIN a : a[w] \in Nat,
         NEW b, DOMAIN b = DOMAIN a \cup full, \A w \in DOMAIN a : b[w] = a[w],
         \A w \in full \ DOMAIN a : b[w] = SumFunctionOnSet(c, Group(old, key, w)),
         NEW d, DOMAIN d = DOMAIN c \ old, \A i \in DOMAIN d : d[i] = c[i]
  PROVE  /\ IsFiniteSet(DOMAIN b) /\ \A w \in DOMAIN b : b[w] \in Nat
         /\ SumFunction(b) + SumFunction(d) <= SumFunction(a) + SumFunction(c)
<1>1. PICK new : new = full \ DOMAIN a
  OBVIOUS
<1>2. /\ IsFiniteSet(new) /\ DOMAIN a \cap new = {} /\ DOMAIN b = DOMAIN a \cup new
      /\ IsFiniteSet(DOMAIN b)
  BY <1>1, FS_Subset, FS_Union
<1>3. IsFiniteSet(old) /\ \A i \in old : c[i] \in Nat
  BY FS_Subset
<1>4. \A w \in new : b[w] \in Nat
  <2> TAKE w \in new
  <2>1. PICK group : group = Group(old, key, w)
    OBVIOUS
  <2>2. IsFiniteSet(group) /\ group \subseteq old /\ b[w] = SumFunctionOnSet(c, group)
    BY <1>1, <1>3, <2>1, FS_Subset DEF Group
  <2>3. QED BY <1>3, <2>2, SumOfNats
<1>5. \A w \in DOMAIN b : b[w] \in Nat
  BY <1>2, <1>4
<1>6. SumFunctionOnSet(b, DOMAIN a \cup new) = SumFunctionOnSet(b, DOMAIN a) + SumFunctionOnSet(b, new)
  BY <1>2, <1>5, SumOfParts
<1>7. SumFunctionOnSet(b, DOMAIN a) = SumFunctionOnSet(a, DOMAIN a)
  BY SumOnSetAgree
<1>8. PICK merged : merged = GroupsOf(old, key, new)
  OBVIOUS
<1>9. SumFunctionOnSet(b, new) = SumFunctionOnSet(c, merged)
  <2>1. \A w \in new : b[w] = SumFunctionOnSet(c, Group(old, key, w))
    BY <1>1
  <2>2. SumFunctionOnSet(b, new) = SumFunctionOnSet(c, GroupsOf(old, key, new))
    BY <1>2, <1>3, <2>1, SumOfGroups
  <2>3. QED BY <1>8, <2>2
<1>10. /\ SumFunctionOnSet(c, merged) \in Nat
       /\ SumFunctionOnSet(c, merged) <= SumFunctionOnSet(c, old) /\ SumFunctionOnSet(c, old) \in Nat
  <2>1. merged \in SUBSET old
    BY <1>8 DEF GroupsOf
  <2>2. /\ SumFunctionOnSet(c, merged) \in Nat /\ SumFunctionOnSet(c, old \ merged) \in Nat
        /\ SumFunctionOnSet(c, old) = SumFunctionOnSet(c, merged) + SumFunctionOnSet(c, old \ merged)
    BY <1>3, <2>1, SumOfSome
  <2>3. QED BY <2>2
<1>11. /\ SumFunctionOnSet(c, DOMAIN c) = SumFunctionOnSet(c, old) + SumFunctionOnSet(c, DOMAIN c \ old)
       /\ SumFunctionOnSet(c, DOMAIN c \ old) \in Nat
  BY SumOfSome
<1>12. SumFunctionOnSet(d, DOMAIN d) = SumFunctionOnSet(c, DOMAIN c \ old)
  <2>1. IsFiniteSet(DOMAIN d) /\ \A i \in DOMAIN d : d[i] \in Int /\ d[i] = c[i]
    BY FS_Subset
  <2>2. QED BY <2>1, SumOnSetAgree
<1>13. SumFunctionOnSet(a, DOMAIN a) \in Nat
  BY SumOfNats
<1>14. PICK sa, sb, sc, sd : sa = SumFunction(a) /\ sb = SumFunction(b) /\ sc = SumFunction(c) /\ sd = SumFunction(d)
  OBVIOUS
<1>15. sa = SumFunctionOnSet(a, DOMAIN a) /\ sb = SumFunctionOnSet(b, DOMAIN b)
       /\ sc = SumFunctionOnSet(c, DOMAIN c) /\ sd = SumFunctionOnSet(d, DOMAIN d)
  BY <1>14 DEF SumFunction
<1>16. sb + sd <= sa + sc
  BY <1>2, <1>6, <1>7, <1>9, <1>10, <1>11, <1>12, <1>13, <1>15
<1>17. QED BY <1>2, <1>5, <1>14, <1>16

\* What one step of compression does to the store: the archives keep what they
\* have (but hours that are old enough), and nothing is invented.
Compressed(s, r, recent, medium) ==
  /\ StoreOK(r, recent, medium)
  /\ Entries(r) <= Entries(s)
  /\ \A d \in DOMAIN s.historical : d \in DOMAIN r.historical /\ r.historical[d] = s.historical[d]

LEMMA EntriesAreNat ==
  ASSUME NEW s, NEW recent, NEW medium, StoreOK(s, recent, medium)
  PROVE  /\ SumFunction(CountsIn(s.live["OneMinute"])) \in Nat
         /\ SumFunction(RawCountsIn(s.medium)) \in Nat
         /\ SumFunction(RawCountsIn(s.historical)) \in Nat
<1>1. /\ IsFiniteSet(DOMAIN CountsIn(s.live["OneMinute"]))
      /\ \A i \in DOMAIN CountsIn(s.live["OneMinute"]) : CountsIn(s.live["OneMinute"])[i] \in Nat
  BY DEF StoreOK, MinutesOK, CountsIn, Bucket
<1>2. /\ IsFiniteSet(DOMAIN RawCountsIn(s.medium))
      /\ \A i \in DOMAIN RawCountsIn(s.medium) : RawCountsIn(s.medium)[i] \in Nat
  BY DEF StoreOK, ArchiveOK, RawCountsIn
<1>3. /\ IsFiniteSet(DOMAIN RawCountsIn(s.historical))
      /\ \A i \in DOMAIN RawCountsIn(s.historical) : RawCountsIn(s.historical)[i] \in Nat
  BY DEF StoreOK, ArchiveOK, RawCountsIn
<1>4. QED BY <1>1, <1>2, <1>3, SumOfMapIsNat

\* The start of the window of a time.
LEMMA WindowIsNat ==
  ASSUME NEW t \in Nat, NEW secs \in Nat, secs > 0
  PROVE  (t \div secs) * secs \in Nat
<1>1. t \div secs \in Nat
  <2>1. t <= t * secs
    BY LessProduct
  <2>2. QED BY <2>1, QuotientAtMost
<1>2. QED BY <1>1

LEMMA MergedCount ==
  ASSUME NEW m, NEW keys, keys \subseteq DOMAIN m
  PROVE  /\ History!MergedMinutes(m, keys).raw_entry_count = SumFunctionOnSet(CountsIn(m), keys)
         /\ History!MergedHours(m, keys).raw_entry_count = SumFunctionOnSet(RawCountsIn(m), keys)
<1>1. History!MapThenSumSet(LAMBDA k : m[k].entry_count, keys)
        = SumFunctionOnSet([k \in DOMAIN m |-> m[k].entry_count], keys)
  BY DEF History!MapThenSumSet, History!MapThenFoldSet, SumFunctionOnSet, FoldFunctionOnSet, MapThenFoldSet
<1>2. History!MapThenSumSet(LAMBDA k : m[k].raw_entry_count, keys)
        = SumFunctionOnSet([k \in DOMAIN m |-> m[k].raw_entry_count], keys)
  BY DEF History!MapThenSumSet, History!MapThenFoldSet, SumFunctionOnSet, FoldFunctionOnSet, MapThenFoldSet
<1>3. History!MergedMinutes(m, keys).raw_entry_count = History!MapThenSumSet(LAMBDA k : m[k].entry_count, keys)
  BY DEF History!MergedMinutes, History!Merged
<1>4. History!MergedHours(m, keys).raw_entry_count = History!MapThenSumSet(LAMBDA k : m[k].raw_entry_count, keys)
  BY DEF History!MergedHours, History!Merged
<1>5. QED BY <1>1, <1>2, <1>3, <1>4 DEF CountsIn, RawCountsIn

LEMMA MinutesCompressed ==
  ASSUME NEW s, NEW recent \in Nat, NEW medium \in Nat, StoreOK(s, recent, medium),
         NEW r, r = History!compress_live_to_medium(s, recent)
  PROVE  /\ Compressed(s, r, recent, medium)
         /\ \A w \in DOMAIN s.medium : w \in DOMAIN r.medium /\ r.medium[w] = s.medium[w]
<1>1. PICK m : m = s.live["OneMinute"]
  OBVIOUS
<1>2. PICK key : key = [i \in DOMAIN m |-> (m[i].first_timestamp \div HOUR_SECS) * HOUR_SECS]
  OBVIOUS
<1>3. PICK old : old = {i \in DOMAIN m : i < recent \div Minute}
  OBVIOUS
<1>4. PICK full : full = {w \in {key[i] : i \in old} : w + HOUR_SECS <= recent}
  OBVIOUS
<1>5. /\ MinutesOK(m) /\ ArchiveOK(s.medium, HOUR_SECS, recent) /\ ArchiveOK(s.historical, DAY_SECS, medium)
      /\ DOMAIN s.live = DOMAIN Duration /\ "OneMinute" \in DOMAIN Duration
      /\ s = [live |-> s.live, medium |-> s.medium, historical |-> s.historical]
  BY <1>1, HistoryNumbers DEF StoreOK
<1>6. CASE r = s
  <2>1. SumFunction(CountsIn(s.live["OneMinute"])) \in Nat /\ SumFunction(RawCountsIn(s.medium)) \in Nat
        /\ SumFunction(RawCountsIn(s.historical)) \in Nat
    BY EntriesAreNat
  <2>2. QED BY <1>6, <2>1 DEF Compressed, Entries
<1>7. CASE r # s
  <2>0. PICK larger : larger = [w \in DOMAIN s.medium \cup full |->
               IF w \in DOMAIN s.medium THEN s.medium[w] ELSE History!MergedMinutes(m, Group(old, key, w))]
    OBVIOUS
  <2>1. PICK kept : kept = [g \in DOMAIN Duration |->
               [k \in {k \in DOMAIN s.live[g] : k >= recent \div Duration[g]} |-> s.live[g][k]]]
    OBVIOUS
  <2>2. r = [s EXCEPT !.medium = larger, !.live = kept]
    <3>1. \A i \in old : key[i] = (m[i].first_timestamp \div HOUR_SECS) * HOUR_SECS
      BY <1>2, <1>3
    <3>2. full = {w \in {(m[i].first_timestamp \div HOUR_SECS) * HOUR_SECS : i \in old} : w + HOUR_SECS <= recent}
      BY <1>4, <3>1
    <3>3. \A w : Group(old, key, w) = {i \in old : (m[i].first_timestamp \div HOUR_SECS) * HOUR_SECS = w}
      BY <3>1 DEF Group
    <3>4. larger = [w \in DOMAIN s.medium \cup full |->
               IF w \in DOMAIN s.medium THEN s.medium[w]
               ELSE History!MergedMinutes(m, {i \in old : (m[i].first_timestamp \div HOUR_SECS) * HOUR_SECS = w})]
      BY <2>0, <3>3
    <3>5. old = {i \in DOMAIN s.live["OneMinute"] : i < recent \div Duration["OneMinute"]}
      BY <1>1, <1>3 DEF Minute
    <3>6. [s EXCEPT
             !.medium = [w \in DOMAIN s.medium \cup full |->
               IF w \in DOMAIN s.medium THEN s.medium[w]
               ELSE History!MergedMinutes(m, {i \in old : (m[i].first_timestamp \div HOUR_SECS) * HOUR_SECS = w})],
             !.live = [g \in DOMAIN Duration |->
               [k \in {k \in DOMAIN s.live[g] : k >= recent \div Duration[g]} |-> s.live[g][k]]]]
          = [s EXCEPT !.medium = larger, !.live = kept]
      BY <2>1, <3>4
    <3>7. r = IF old = {} THEN s
              ELSE [s EXCEPT
             !.medium = [w \in DOMAIN s.medium \cup full |->
               IF w \in DOMAIN s.medium THEN s.medium[w]
               ELSE History!MergedMinutes(m, {i \in old : (m[i].first_timestamp \div HOUR_SECS) * HOUR_SECS = w})],
             !.live = [g \in DOMAIN Duration |->
               [k \in {k \in DOMAIN s.live[g] : k >= recent \div Duration[g]} |-> s.live[g][k]]]]
      <4>1. r = LET minutes == m
                    gone == old
                    Window(i) == (minutes[i].first_timestamp \div HOUR_SECS) * HOUR_SECS
                    whole == full
                IN  IF gone = {} THEN s
                    ELSE [s EXCEPT
                      !.medium = History!Archived(@, whole, LAMBDA w : History!MergedMinutes(minutes, {i \in gone : Window(i) = w})),
                      !.live = [g \in DOMAIN Duration |-> History!Kept(@[g], LAMBDA i : i >= recent \div Duration[g])]]
        BY <1>1, <3>2, <3>5 DEF History!compress_live_to_medium, History!Granularities
      <4>2. QED BY <4>1 DEF History!Archived, History!Kept
    <3>8. QED BY <1>7, <3>6, <3>7
  <2>21. /\ r = [live |-> r.live, medium |-> r.medium, historical |-> r.historical]
         /\ r.historical = s.historical /\ r.live = kept /\ r.medium = larger
    BY <1>5, <2>2
  <2>3. PICK n : n = r.live["OneMinute"]
    OBVIOUS
  <2>4. recent \div Minute \in Int
    BY HistoryNumbers, DivisionBounds
  <2>5. DOMAIN n = DOMAIN m \ old /\ \A i \in DOMAIN n : n[i] = m[i]
    <3>1. n = [k \in {k \in DOMAIN m : k >= recent \div Minute} |-> m[k]]
      BY <1>1, <1>5, <2>1, <2>21, <2>3 DEF Minute
    <3>2. DOMAIN n = {i \in DOMAIN m : i >= recent \div Minute} /\ \A i \in DOMAIN n : n[i] = m[i]
      BY <3>1
    <3>3. DOMAIN m \subseteq Nat
      BY <1>5 DEF MinutesOK
    <3>4. QED BY <1>3, <2>4, <3>2, <3>3
  <2>6. MinutesOK(n)
    BY <1>5, <2>5, FS_Subset DEF MinutesOK
  <2>7. /\ DOMAIN r.medium = DOMAIN s.medium \cup full
        /\ \A w \in DOMAIN s.medium : r.medium[w] = s.medium[w]
        /\ \A w \in full \ DOMAIN s.medium : r.medium[w] = History!MergedMinutes(m, Group(old, key, w))
    BY <2>0, <2>21
  <2>8. IsFiniteSet(full) /\ full \subseteq Nat /\ \A w \in full : w + HOUR_SECS <= recent
    <3>1. IsFiniteSet(old)
      BY <1>3, <1>5, FS_Subset DEF MinutesOK
    <3>2. IsFiniteSet({key[i] : i \in old})
      BY <3>1, FiniteImage
    <3>3. \A i \in old : key[i] \in Nat
      BY <1>2, <1>3, <1>5, WindowIsNat, HistoryNumbers DEF MinutesOK, Bucket
    <3>4. QED BY <1>4, <3>2, <3>3, FS_Subset
  <2>9. PICK a, b, c, d : a = RawCountsIn(s.medium) /\ b = RawCountsIn(r.medium) /\ c = CountsIn(m) /\ d = CountsIn(n)
    OBVIOUS
  <2>10. /\ IsFiniteSet(DOMAIN c) /\ (\A i \in DOMAIN c : c[i] \in Nat) /\ old \in SUBSET DOMAIN c
         /\ IsFiniteSet(DOMAIN a) /\ (\A w \in DOMAIN a : a[w] \in Nat)
    BY <1>3, <1>5, <2>9 DEF MinutesOK, ArchiveOK, CountsIn, RawCountsIn, Bucket
  <2>11. /\ DOMAIN b = DOMAIN a \cup full /\ \A w \in DOMAIN a : b[w] = a[w]
         /\ DOMAIN d = DOMAIN c \ old /\ \A i \in DOMAIN d : d[i] = c[i]
    BY <2>5, <2>7, <2>9 DEF RawCountsIn, CountsIn
  <2>12. \A w \in full \ DOMAIN a : b[w] = SumFunctionOnSet(c, Group(old, key, w))
    <3> TAKE w \in full \ DOMAIN a
    <3>1. Group(old, key, w) \subseteq DOMAIN m
      BY <1>3 DEF Group
    <3>2. b[w] = History!MergedMinutes(m, Group(old, key, w)).raw_entry_count
      BY <2>7, <2>9 DEF RawCountsIn
    <3>3. QED BY <2>9, <3>1, <3>2, MergedCount
  <2>13. /\ IsFiniteSet(DOMAIN b) /\ \A w \in DOMAIN b : b[w] \in Nat
         /\ SumFunction(b) + SumFunction(d) <= SumFunction(a) + SumFunction(c)
    BY <2>8, <2>10, <2>11, <2>12, Compressing
  <2>14. ArchiveOK(r.medium, HOUR_SECS, recent)
    BY <1>5, <2>7, <2>8, <2>9, <2>13 DEF ArchiveOK, RawCountsIn
  <2>15. StoreOK(r, recent, medium)
    BY <1>5, <2>1, <2>21, <2>3, <2>6, <2>14 DEF StoreOK
  <2>16. Entries(r) <= Entries(s)
    <3>1. /\ SumFunction(b) \in Nat /\ SumFunction(d) \in Nat /\ SumFunction(a) \in Nat /\ SumFunction(c) \in Nat
          /\ SumFunction(RawCountsIn(s.historical)) \in Nat
      BY <1>1, <2>3, <2>9, <2>15, EntriesAreNat
    <3>2. QED BY <1>1, <2>21, <2>3, <2>9, <2>13, <3>1 DEF Entries
  <2>17. QED BY <2>21, <2>7, <2>15, <2>16 DEF Compressed
<1>8. QED BY <1>6, <1>7

LEMMA HoursCompressed ==
  ASSUME NEW s, NEW recent \in Nat, NEW medium \in Nat, StoreOK(s, recent, medium),
         NEW r, r = History!compress_medium_to_historical(s, medium)
  PROVE  /\ Compressed(s, r, recent, medium)
         /\ \A w \in DOMAIN s.medium :
              IF w \in DOMAIN r.medium THEN r.medium[w] = s.medium[w] ELSE w < medium
<1>1. PICK m : m = s.medium
  OBVIOUS
<1>2. PICK key : key = [w \in DOMAIN m |-> (w \div DAY_SECS) * DAY_SECS]
  OBVIOUS
<1>3. PICK old : old = {w \in DOMAIN m : w < medium}
  OBVIOUS
<1>4. PICK full : full = {d \in {key[w] : w \in old} : d + DAY_SECS <= medium}
  OBVIOUS
<1>5. /\ ArchiveOK(m, HOUR_SECS, recent) /\ ArchiveOK(s.historical, DAY_SECS, medium)
      /\ DOMAIN s.live = DOMAIN Duration /\ MinutesOK(s.live["OneMinute"])
      /\ s = [live |-> s.live, medium |-> s.medium, historical |-> s.historical]
  BY <1>1, HistoryNumbers DEF StoreOK
<1>6. PICK larger : larger = [d \in DOMAIN s.historical \cup full |->
             IF d \in DOMAIN s.historical THEN s.historical[d] ELSE History!MergedHours(m, Group(old, key, d))]
  OBVIOUS
<1>7. PICK n : n = [k \in {k \in DOMAIN m : k >= medium} |-> m[k]]
  OBVIOUS
<1>8. r = [s EXCEPT !.historical = larger, !.medium = n]
  <2>1. \A w \in old : key[w] = (w \div DAY_SECS) * DAY_SECS
    BY <1>2, <1>3
  <2>2. full = {d \in {(w \div DAY_SECS) * DAY_SECS : w \in old} : d + DAY_SECS <= medium}
    BY <1>4, <2>1
  <2>3. \A d : Group(old, key, d) = {w \in old : (w \div DAY_SECS) * DAY_SECS = d}
    BY <2>1 DEF Group
  <2>4. larger = [d \in DOMAIN s.historical \cup full |->
             IF d \in DOMAIN s.historical THEN s.historical[d]
             ELSE History!MergedHours(m, {w \in old : (w \div DAY_SECS) * DAY_SECS = d})]
    BY <1>6, <2>3
  <2>5. r = LET gone == old
                Day(w) == (w \div DAY_SECS) * DAY_SECS
                whole == full
            IN  [s EXCEPT
                  !.historical = History!Archived(@, whole, LAMBDA d : History!MergedHours(m, {w \in gone : Day(w) = d})),
                  !.medium = History!Kept(@, LAMBDA w : w >= medium)]
    BY <1>1, <1>3, <2>2 DEF History!compress_medium_to_historical
  <2>6. r = [s EXCEPT
               !.historical = [d \in DOMAIN s.historical \cup full |->
                 IF d \in DOMAIN s.historical THEN s.historical[d]
                 ELSE History!MergedHours(m, {w \in old : (w \div DAY_SECS) * DAY_SECS = d})],
               !.medium = [k \in {k \in DOMAIN m : k >= medium} |-> m[k]]]
    BY <1>1, <2>5 DEF History!Archived, History!Kept
  <2>7. QED BY <1>7, <2>4, <2>6
<1>9. /\ r = [live |-> r.live, medium |-> r.medium, historical |-> r.historical]
      /\ r.historical = larger /\ r.live = s.live /\ r.medium = n
  BY <1>5, <1>8
<1>10. /\ DOMAIN n = DOMAIN m \ old /\ \A w \in DOMAIN n : n[w] = m[w]
       /\ \A w \in DOMAIN m \ DOMAIN n : w < medium
  <2>1. DOMAIN m \subseteq Nat
    BY <1>5 DEF ArchiveOK
  <2>2. QED BY <1>3, <1>7, <2>1
<1>11. ArchiveOK(n, HOUR_SECS, recent)
  BY <1>5, <1>10, FS_Subset DEF ArchiveOK
<1>12. /\ DOMAIN larger = DOMAIN s.historical \cup full
       /\ \A d \in DOMAIN s.historical : larger[d] = s.historical[d]
       /\ \A d \in full \ DOMAIN s.historical : larger[d] = History!MergedHours(m, Group(old, key, d))
  BY <1>6
<1>13. IsFiniteSet(full) /\ full \subseteq Nat /\ \A d \in full : d + DAY_SECS <= medium
  <2>1. IsFiniteSet(old)
    BY <1>3, <1>5, FS_Subset DEF ArchiveOK
  <2>2. IsFiniteSet({key[w] : w \in old})
    BY <2>1, FiniteImage
  <2>3. \A w \in old : key[w] \in Nat
    BY <1>2, <1>3, <1>5, WindowIsNat, HistoryNumbers DEF ArchiveOK
  <2>4. QED BY <1>4, <2>2, <2>3, FS_Subset
<1>14. PICK a, b, c, d : a = RawCountsIn(s.historical) /\ b = RawCountsIn(larger) /\ c = RawCountsIn(m) /\ d = RawCountsIn(n)
  OBVIOUS
<1>15. /\ IsFiniteSet(DOMAIN c) /\ (\A w \in DOMAIN c : c[w] \in Nat) /\ old \in SUBSET DOMAIN c
       /\ IsFiniteSet(DOMAIN a) /\ (\A w \in DOMAIN a : a[w] \in Nat)
  BY <1>3, <1>5, <1>14 DEF ArchiveOK, RawCountsIn
<1>16. /\ DOMAIN b = DOMAIN a \cup full /\ \A w \in DOMAIN a : b[w] = a[w]
       /\ DOMAIN d = DOMAIN c \ old /\ \A w \in DOMAIN d : d[w] = c[w]
  BY <1>10, <1>12, <1>14 DEF RawCountsIn
<1>17. \A w \in full \ DOMAIN a : b[w] = SumFunctionOnSet(c, Group(old, key, w))
  <2> TAKE w \in full \ DOMAIN a
  <2>1. Group(old, key, w) \subseteq DOMAIN m
    BY <1>3 DEF Group
  <2>2. b[w] = History!MergedHours(m, Group(old, key, w)).raw_entry_count
    BY <1>12, <1>14 DEF RawCountsIn
  <2>3. QED BY <1>14, <2>1, <2>2, MergedCount
<1>18. /\ IsFiniteSet(DOMAIN b) /\ \A w \in DOMAIN b : b[w] \in Nat
       /\ SumFunction(b) + SumFunction(d) <= SumFunction(a) + SumFunction(c)
  BY <1>13, <1>15, <1>16, <1>17, Compressing
<1>19. ArchiveOK(larger, DAY_SECS, medium)
  BY <1>5, <1>12, <1>13, <1>14, <1>18 DEF ArchiveOK, RawCountsIn
<1>20. StoreOK(r, recent, medium)
  BY <1>5, <1>9, <1>11, <1>19 DEF StoreOK
<1>21. Entries(r) <= Entries(s)
  <2>1. /\ SumFunction(b) \in Nat /\ SumFunction(d) \in Nat /\ SumFunction(a) \in Nat /\ SumFunction(c) \in Nat
        /\ SumFunction(CountsIn(s.live["OneMinute"])) \in Nat
    BY <1>1, <1>9, <1>14, <1>20, EntriesAreNat
  <2>2. QED BY <1>1, <1>9, <1>14, <1>18, <2>1 DEF Entries
<1>22. Compressed(s, r, recent, medium)
  BY <1>9, <1>12, <1>20, <1>21 DEF Compressed
<1>23. QED BY <1>1, <1>9, <1>10, <1>22

\* Both steps, as archiving takes them.
LEMMA StoreCompacted ==
  ASSUME NEW s, clock \in Nat,
         StoreOK(s, History!Before(TIER_RECENT_SECS), History!Before(TIER_MEDIUM_SECS)),
         NEW r, r = History!Compacted(s)
  PROVE  /\ Compressed(s, r, History!Before(TIER_RECENT_SECS), History!Before(TIER_MEDIUM_SECS))
         /\ \A w \in DOMAIN s.medium :
              IF w \in DOMAIN r.medium THEN r.medium[w] = s.medium[w]
              ELSE w < History!Before(TIER_MEDIUM_SECS)
<1>1. PICK recent \in Nat, medium \in Nat :
         recent = History!Before(TIER_RECENT_SECS) /\ medium = History!Before(TIER_MEDIUM_SECS)
  BY BeforeIsNat, HistoryNumbers
<1>2. PICK q : q = History!compress_live_to_medium(s, recent)
  OBVIOUS
<1>3. r = History!compress_medium_to_historical(q, medium)
  BY <1>1, <1>2 DEF History!Compacted
<1>4. /\ Compressed(s, q, recent, medium)
      /\ \A w \in DOMAIN s.medium : w \in DOMAIN q.medium /\ q.medium[w] = s.medium[w]
  BY <1>1, <1>2, MinutesCompressed
<1>5. /\ Compressed(q, r, recent, medium)
      /\ \A w \in DOMAIN q.medium :
           IF w \in DOMAIN r.medium THEN r.medium[w] = q.medium[w] ELSE w < medium
  BY <1>1, <1>3, <1>4, HoursCompressed DEF Compressed
<1>6. Entries(s) \in Nat /\ Entries(q) \in Nat /\ Entries(r) \in Nat
  BY <1>1, <1>4, <1>5, EntriesAreNat DEF Entries, Compressed
<1>7. Compressed(s, r, recent, medium)
  BY <1>4, <1>5, <1>6 DEF Compressed
<1>8. QED BY <1>1, <1>4, <1>5, <1>7

LEMMA PairExtremes ==
  ASSUME NEW a \in Nat, NEW b \in Nat
  PROVE  History!Max({a, b}) \in Nat /\ History!Min({a, b}) \in Nat
<1>1. (\E x \in {a, b} : \A y \in {a, b} : x >= y) /\ (\E x \in {a, b} : \A y \in {a, b} : x =< y)
  <2>1. CASE a <= b
    BY <2>1
  <2>2. CASE b <= a
    BY <2>2
  <2>3. QED BY <2>1, <2>2
<1>2. History!Max({a, b}) \in {a, b} /\ History!Min({a, b}) \in {a, b}
  BY <1>1 DEF History!Max, History!Min
<1>3. QED BY <1>2

\* A price is one more entry of its minute.
LEMMA PriceEntered ==
  ASSUME NEW m, MinutesOK(m), NEW price \in Nat, NEW t \in Nat,
         NEW n, n = History!Stored(m, "OneMinute", price, t)
  PROVE  /\ MinutesOK(n)
         /\ SumFunction(CountsIn(n)) = SumFunction(CountsIn(m)) + 1
         /\ SumFunction(CountsIn(m)) \in Nat
<1>1. PICK index : index = t \div Minute
  OBVIOUS
<1>2. index \in Nat
  <2>1. t <= t * Minute
    BY LessProduct, HistoryNumbers
  <2>2. QED BY <1>1, <2>1, QuotientAtMost, HistoryNumbers
<1>3. PICK fresh : fresh = [open |-> price, high |-> price, low |-> price, close |-> price,
                            entry_count |-> 0, first_timestamp |-> t, last_timestamp |-> t]
  OBVIOUS
<1>4. PICK was : was = History!GetOr(m, index, fresh)
  OBVIOUS
<1>5. PICK is : is = [was EXCEPT !.close = price, !.high = History!Max({@, price}), !.low = History!Min({@, price}),
                      !.entry_count = @ + 1, !.last_timestamp = t]
  OBVIOUS
<1>6. n = History!Put(m, index, is)
  BY <1>1, <1>3, <1>4, <1>5 DEF History!Stored, Minute
<1>7. was \in Bucket /\ was.first_timestamp \div Minute = index
  <2>1. fresh \in Bucket /\ fresh.first_timestamp = t
    BY <1>3 DEF Bucket
  <2>2. QED BY <1>1, <1>4, <2>1 DEF History!GetOr, MinutesOK
<1>8. /\ is \in Bucket /\ is.first_timestamp = was.first_timestamp /\ is.last_timestamp = t
      /\ is.entry_count = was.entry_count + 1 /\ was.entry_count \in Nat
  <2>1. was.high \in Nat /\ was.low \in Nat /\ was.entry_count \in Nat
    BY <1>7 DEF Bucket
  <2>2. History!Max({was.high, price}) \in Nat /\ History!Min({was.low, price}) \in Nat
    BY <2>1, PairExtremes
  <2>3. PICK hi \in Nat, lo \in Nat, count \in Nat :
           hi = History!Max({was.high, price}) /\ lo = History!Min({was.low, price}) /\ count = was.entry_count + 1
    BY <2>1, <2>2
  <2>4. is = [was EXCEPT !.close = price, !.high = hi, !.low = lo, !.entry_count = count, !.last_timestamp = t]
    BY <1>5, <2>3
  <2>5. was = [open |-> was.open, high |-> was.high, low |-> was.low, close |-> was.close,
               entry_count |-> was.entry_count, first_timestamp |-> was.first_timestamp,
               last_timestamp |-> was.last_timestamp]
        /\ was.open \in Nat /\ was.first_timestamp \in Nat
    BY <1>7 DEF Bucket
  <2>6. is = [open |-> was.open, high |-> hi, low |-> lo, close |-> price,
              entry_count |-> count, first_timestamp |-> was.first_timestamp, last_timestamp |-> t]
    BY <2>4, <2>5
  <2>7. is \in Bucket
    BY <2>5, <2>6 DEF Bucket
  <2>8. QED BY <2>1, <2>3, <2>6, <2>7
<1>9. DOMAIN n = DOMAIN m \cup {index} /\ n[index] = is /\ \A i \in DOMAIN m : i # index => n[i] = m[i]
  BY <1>6 DEF History!Put
<1>10. MinutesOK(n)
  <2>1. IsFiniteSet(DOMAIN n) /\ DOMAIN n \subseteq Nat
    BY <1>2, <1>9, FS_AddElement DEF MinutesOK
  <2>2. ASSUME NEW i \in DOMAIN n
        PROVE  /\ n[i] \in Bucket
               /\ n[i].first_timestamp \div Minute = i /\ n[i].last_timestamp \div Minute = i
    <3>1. CASE i = index
      BY <1>1, <1>7, <1>8, <1>9, <3>1
    <3>2. CASE i # index
      BY <1>9, <3>2 DEF MinutesOK
    <3>3. QED BY <3>1, <3>2
  <2>3. QED BY <2>1, <2>2 DEF MinutesOK
<1>11. PICK c : c = CountsIn(m)
  OBVIOUS
<1>12. IsFiniteSet(DOMAIN c) /\ \A i \in DOMAIN c : c[i] \in Nat
  BY <1>11 DEF CountsIn, MinutesOK, Bucket
<1>13. GetOr(c, index, 0) = was.entry_count
  BY <1>3, <1>4, <1>11 DEF GetOr, History!GetOr, CountsIn
<1>14. CountsIn(n) = Put(c, index, was.entry_count + 1)
  BY <1>8, <1>9, <1>11 DEF CountsIn, Put
<1>15. SumFunction(c) \in Nat
  BY <1>12, SumOfMapIsNat
<1>16. SumFunction(CountsIn(n)) = SumFunction(c) - was.entry_count + (was.entry_count + 1)
  BY <1>8, <1>12, <1>13, <1>14, SumPut
<1>17. SumFunction(CountsIn(n)) = SumFunction(c) + 1
  BY <1>8, <1>15, <1>16
<1>18. QED BY <1>10, <1>11, <1>15, <1>17

LEMMA StorePriced ==
  ASSUME HistoryInv, NEW price \in Nat, NEW t \in Nat,
         NEW s, s = [store EXCEPT !.live = [g \in DOMAIN Duration |-> History!Stored(@[g], g, price, t)]]
  PROVE  /\ StoreOK(s, History!Before(TIER_RECENT_SECS), History!Before(TIER_MEDIUM_SECS))
         /\ Entries(s) = Entries(store) + 1 /\ Entries(store) \in Nat
         /\ s.medium = store.medium /\ s.historical = store.historical
<1>1. PICK recent, medium : recent = History!Before(TIER_RECENT_SECS) /\ medium = History!Before(TIER_MEDIUM_SECS)
  OBVIOUS
<1>2. StoreOK(store, recent, medium)
  BY <1>1 DEF HistoryInv
<1>3. PICK m : m = store.live["OneMinute"]
  OBVIOUS
<1>4. PICK n : n = History!Stored(m, "OneMinute", price, t)
  OBVIOUS
<1>5. /\ s = [live |-> s.live, medium |-> s.medium, historical |-> s.historical]
      /\ s.medium = store.medium /\ s.historical = store.historical
      /\ DOMAIN s.live = DOMAIN Duration /\ s.live["OneMinute"] = n
  BY <1>2, <1>3, <1>4, HistoryNumbers DEF StoreOK
<1>6. MinutesOK(m)
  BY <1>2, <1>3 DEF StoreOK
<1>7. MinutesOK(n) /\ SumFunction(CountsIn(n)) = SumFunction(CountsIn(m)) + 1
  BY <1>4, <1>6, PriceEntered
<1>8. StoreOK(s, recent, medium)
  BY <1>2, <1>5, <1>7 DEF StoreOK
<1>9. /\ SumFunction(CountsIn(m)) \in Nat /\ SumFunction(RawCountsIn(store.medium)) \in Nat
      /\ SumFunction(RawCountsIn(store.historical)) \in Nat
  BY <1>2, <1>3, EntriesAreNat
<1>10. QED BY <1>1, <1>3, <1>5, <1>7, <1>8, <1>9 DEF Entries

\* What ArchiveIsKept asks of a step.
ArchiveStays ==
  /\ \A d \in DOMAIN store.historical :
       d \in DOMAIN store'.historical /\ store'.historical[d] = store.historical[d]
  /\ \A w \in DOMAIN store.medium :
       IF w \in DOMAIN store'.medium THEN store'.medium[w] = store.medium[w]
       ELSE w < History!Before(TIER_MEDIUM_SECS)

LEMMA StoringPrices ==
  ASSUME HistoryInv, NEW price \in HistoryPrices, NEW age \in Ages, History!store_price(price, age)
  PROVE  HistoryInv' /\ ArchiveStays
<1>1. PICK recent, medium : recent = History!Before(TIER_RECENT_SECS) /\ medium = History!Before(TIER_MEDIUM_SECS)
  OBVIOUS
<1>2. PICK t : t = clock - age
  OBVIOUS
<1>3. /\ clock \in Nat /\ clock >= HistoryStart /\ t \in Nat /\ t <= clock /\ price \in Nat /\ clock' = clock
      /\ History!Before(TIER_RECENT_SECS)' = recent /\ History!Before(TIER_MEDIUM_SECS)' = medium
  BY <1>1, <1>2, HistoryNumbers DEF HistoryInv, History!store_price, History!Before
<1>4. PICK s : s = [store EXCEPT !.live = [g \in DOMAIN Duration |-> History!Stored(@[g], g, price, t)]]
  OBVIOUS
<1>5. /\ StoreOK(s, recent, medium)
      /\ Entries(s) = Entries(store) + 1 /\ Entries(store) \in Nat
      /\ s.medium = store.medium /\ s.historical = store.historical
  BY <1>1, <1>3, <1>4, StorePriced
<1>6. /\ store' = s \/ store' = History!Compacted(s)
      /\ analytics' = {}
      /\ metadata'.total_entries = metadata.total_entries + 1 /\ metadata'.last_timestamp = t
  BY <1>2, <1>4 DEF History!store_price, History!Granularities, History!update_asset_metadata,
                    History!invalidate_analytics_cache
<1>7. /\ Compressed(s, store', recent, medium)
      /\ \A w \in DOMAIN s.medium :
           IF w \in DOMAIN store'.medium THEN store'.medium[w] = s.medium[w] ELSE w < medium
  <2>1. CASE store' = s
    <3>1. Entries(s) <= Entries(s)
      BY <1>5
    <3>2. QED BY <1>5, <2>1, <3>1 DEF Compressed
  <2>2. CASE store' = History!Compacted(s)
    BY <1>1, <1>3, <1>5, <2>2, StoreCompacted
  <2>3. QED BY <1>6, <2>1, <2>2
<1>8. Entries(store') <= metadata'.total_entries
  <2>1. Entries(store') \in Nat
    BY <1>7, EntriesAreNat DEF Entries, Compressed
  <2>2. QED BY <1>5, <1>6, <1>7, <2>1 DEF Compressed, HistoryInv
<1>9. metadata'.total_entries \in Nat
  BY <1>6 DEF HistoryInv
<1>10. HistoryInv'
  BY <1>3, <1>6, <1>7, <1>8, <1>9 DEF HistoryInv, Compressed, Entries
<1>11. ArchiveStays
  BY <1>1, <1>5, <1>7 DEF ArchiveStays, Compressed
<1>12. QED BY <1>10, <1>11

LEMMA Archiving ==
  ASSUME HistoryInv, History!run_archival
  PROVE  HistoryInv' /\ ArchiveStays
<1>1. PICK recent, medium : recent = History!Before(TIER_RECENT_SECS) /\ medium = History!Before(TIER_MEDIUM_SECS)
  OBVIOUS
<1>2. /\ clock \in Nat /\ clock' = clock /\ store' = History!Compacted(store)
      /\ metadata' = metadata /\ analytics' = analytics
      /\ History!Before(TIER_RECENT_SECS)' = recent /\ History!Before(TIER_MEDIUM_SECS)' = medium
  BY <1>1 DEF HistoryInv, History!run_archival, History!Before
<1>3. StoreOK(store, recent, medium)
  BY <1>1 DEF HistoryInv
<1>4. /\ Compressed(store, store', recent, medium)
      /\ \A w \in DOMAIN store.medium :
           IF w \in DOMAIN store'.medium THEN store'.medium[w] = store.medium[w] ELSE w < medium
  BY <1>1, <1>2, <1>3, StoreCompacted
<1>5. Entries(store') \in Nat /\ Entries(store) \in Nat
  BY <1>3, <1>4, EntriesAreNat DEF Entries, Compressed
<1>6. Entries(store') <= metadata'.total_entries
  BY <1>2, <1>4, <1>5 DEF Compressed, HistoryInv
<1>7. HistoryInv'
  BY <1>2, <1>4, <1>6 DEF HistoryInv, Compressed, Entries
<1>8. QED BY <1>1, <1>4, <1>7 DEF ArchiveStays, Compressed

LEMMA Cleaning ==
  ASSUME HistoryInv, NEW period \in Retentions, History!cleanup_old_data(period)
  PROVE  HistoryInv' /\ ArchiveStays
<1>1. PICK recent, medium : recent = History!Before(TIER_RECENT_SECS) /\ medium = History!Before(TIER_MEDIUM_SECS)
  OBVIOUS
<1>2. /\ clock' = clock /\ metadata' = metadata /\ analytics' = analytics
      /\ History!Before(TIER_RECENT_SECS)' = recent /\ History!Before(TIER_MEDIUM_SECS)' = medium
      /\ StoreOK(store, recent, medium)
  BY <1>1 DEF HistoryInv, History!cleanup_old_data, History!Before
<1>3. PICK live : live = [g \in DOMAIN Duration |->
                   [k \in {k \in DOMAIN store.live[g] : k >= (clock - period) \div Duration[g]} |-> store.live[g][k]]]
  OBVIOUS
<1>4. store' = [store EXCEPT !.live = live]
  BY <1>3 DEF History!cleanup_old_data, History!Kept, History!Granularities
<1>5. /\ store' = [live |-> store'.live, medium |-> store'.medium, historical |-> store'.historical]
      /\ store'.live = live /\ store'.medium = store.medium /\ store'.historical = store.historical
  BY <1>2, <1>4 DEF StoreOK
<1>6. PICK m, n : m = store.live["OneMinute"] /\ n = live["OneMinute"]
  OBVIOUS
<1>7. DOMAIN n \subseteq DOMAIN m /\ \A i \in DOMAIN n : n[i] = m[i]
  BY <1>3, <1>6, HistoryNumbers
<1>8. MinutesOK(m) /\ MinutesOK(n)
  BY <1>2, <1>6, <1>7, FS_Subset DEF StoreOK, MinutesOK
<1>9. StoreOK(store', recent, medium)
  BY <1>2, <1>3, <1>5, <1>6, <1>8 DEF StoreOK
<1>10. SumFunction(CountsIn(n)) <= SumFunction(CountsIn(m))
  <2>1. PICK c, d : c = CountsIn(m) /\ d = CountsIn(n)
    OBVIOUS
  <2>2. /\ IsFiniteSet(DOMAIN c) /\ (\A i \in DOMAIN c : c[i] \in Nat)
        /\ DOMAIN d \in SUBSET DOMAIN c /\ \A i \in DOMAIN d : d[i] = c[i]
    BY <1>7, <1>8, <2>1 DEF CountsIn, MinutesOK, Bucket
  <2>3. /\ SumFunctionOnSet(c, DOMAIN d) \in Nat /\ SumFunctionOnSet(c, DOMAIN c \ DOMAIN d) \in Nat
        /\ SumFunctionOnSet(c, DOMAIN c) = SumFunctionOnSet(c, DOMAIN d) + SumFunctionOnSet(c, DOMAIN c \ DOMAIN d)
    BY <2>2, SumOfSome
  <2>4. SumFunctionOnSet(d, DOMAIN d) = SumFunctionOnSet(c, DOMAIN d)
    <3>1. IsFiniteSet(DOMAIN d) /\ \A i \in DOMAIN d : d[i] \in Int /\ d[i] = c[i]
      BY <2>2, FS_Subset
    <3>2. QED BY <3>1, SumOnSetAgree
  <2>5. QED BY <2>1, <2>3, <2>4 DEF SumFunction
<1>11. Entries(store') <= Entries(store) /\ Entries(store') \in Nat /\ Entries(store) \in Nat
  <2>1. /\ SumFunction(CountsIn(m)) \in Nat /\ SumFunction(RawCountsIn(store.medium)) \in Nat
        /\ SumFunction(RawCountsIn(store.historical)) \in Nat
    BY <1>2, <1>6, EntriesAreNat
  <2>2. SumFunction(CountsIn(n)) \in Nat
    BY <1>5, <1>6, <1>9, EntriesAreNat
  <2>3. QED BY <1>5, <1>6, <1>10, <2>1, <2>2 DEF Entries
<1>12. Entries(store') <= metadata'.total_entries
  BY <1>2, <1>11 DEF HistoryInv
<1>13. HistoryInv'
  BY <1>2, <1>9, <1>12 DEF HistoryInv, Entries
<1>14. QED BY <1>5, <1>13 DEF ArchiveStays

LEMMA Passing ==
  ASSUME HistoryInv, NEW secs \in Steps, History!HistoryElapse(secs)
  PROVE  HistoryInv' /\ ArchiveStays
<1>1. /\ clock \in Nat /\ clock' \in Nat /\ clock <= clock'
      /\ store' = store /\ metadata' = metadata /\ analytics' = analytics
  BY HistoryNumbers DEF HistoryInv, History!HistoryElapse
<1>2. PICK r \in Nat, m \in Nat, q \in Nat, n \in Nat :
        /\ r = History!Before(TIER_RECENT_SECS) /\ m = History!Before(TIER_MEDIUM_SECS)
        /\ q = History!Before(TIER_RECENT_SECS)' /\ n = History!Before(TIER_MEDIUM_SECS)'
        /\ r <= q /\ m <= n
  <2>1. /\ History!Before(TIER_RECENT_SECS) \in Nat /\ History!Before(TIER_MEDIUM_SECS) \in Nat
        /\ History!Before(TIER_RECENT_SECS)' \in Nat /\ History!Before(TIER_MEDIUM_SECS)' \in Nat
    <3>1. \A s, t \in Nat : (IF t > s THEN t - s ELSE 0) \in Nat
      OBVIOUS
    <3>2. QED BY <1>1, <3>1, HistoryNumbers DEF History!Before
  <2>2. /\ History!Before(TIER_RECENT_SECS) <= History!Before(TIER_RECENT_SECS)'
        /\ History!Before(TIER_MEDIUM_SECS) <= History!Before(TIER_MEDIUM_SECS)'
    BY <1>1, HistoryNumbers, BeforeGrows
  <2>3. QED BY <2>1, <2>2
<1>3. StoreOK(store, r, m)
  BY <1>2 DEF HistoryInv
<1>4. StoreOK(store, q, n)
  BY <1>2, <1>3, HistoryNumbers DEF StoreOK, ArchiveOK
<1>5. /\ clock' >= HistoryStart /\ metadata'.last_timestamp <= clock'
  BY <1>1, HistoryNumbers DEF HistoryInv
<1>6. HistoryInv'
  BY <1>1, <1>2, <1>4, <1>5 DEF HistoryInv, Entries
<1>7. QED BY <1>1, <1>6 DEF ArchiveStays

LEMMA Analysing ==
  ASSUME HistoryInv, History!get_analytics \/ History!set_archival_config
  PROVE  HistoryInv' /\ ArchiveStays
<1>1. /\ clock' = clock /\ store' = store /\ metadata' = metadata
      /\ \A cached \in analytics' : cached \in analytics \/ cached.last_update = clock
  BY DEF History!get_analytics, History!set_archival_config
<1>2. /\ History!Before(TIER_RECENT_SECS)' = History!Before(TIER_RECENT_SECS)
      /\ History!Before(TIER_MEDIUM_SECS)' = History!Before(TIER_MEDIUM_SECS)
  BY <1>1 DEF History!Before
<1>3. \A cached \in analytics' : cached.last_update >= metadata.last_timestamp
  BY <1>1 DEF HistoryInv
<1>4. HistoryInv'
  BY <1>1, <1>2, <1>3 DEF HistoryInv, Entries
<1>5. QED BY <1>1, <1>4 DEF ArchiveStays

LEMMA HistoryStep == HistoryInv /\ History!HistoryNext => HistoryInv' /\ ArchiveStays
BY StoringPrices, Archiving, Cleaning, Passing, Analysing DEF History!HistoryNext

LEMMA HistoryInitial == History!HistoryInit => HistoryInv
<1> SUFFICES ASSUME History!HistoryInit PROVE HistoryInv
  OBVIOUS
<1>1. /\ clock = HistoryStart /\ analytics = {} /\ metadata.total_entries = 0 /\ metadata.last_timestamp = 0
      /\ store.medium = History!EmptyMap /\ store.historical = History!EmptyMap
      /\ store.live = [g \in DOMAIN Duration |-> History!EmptyMap]
      /\ store = [live |-> store.live, medium |-> store.medium, historical |-> store.historical]
  BY DEF History!HistoryInit, History!Granularities
<1>2. DOMAIN History!EmptyMap = {}
  BY DEF History!EmptyMap
<1>3. store.live["OneMinute"] = History!EmptyMap
  BY <1>1, HistoryNumbers
<1>4. StoreOK(store, History!Before(TIER_RECENT_SECS), History!Before(TIER_MEDIUM_SECS))
  BY <1>1, <1>2, <1>3, FS_EmptySet DEF StoreOK, MinutesOK, ArchiveOK
<1>5. Entries(store) = 0
  <2>1. DOMAIN CountsIn(History!EmptyMap) = {} /\ DOMAIN RawCountsIn(History!EmptyMap) = {}
    BY <1>2 DEF CountsIn, RawCountsIn
  <2>2. SumFunction(CountsIn(History!EmptyMap)) = 0 /\ SumFunction(RawCountsIn(History!EmptyMap)) = 0
    BY <2>1, SumOfNothing
  <2>3. QED BY <1>1, <1>3, <2>2 DEF Entries
<1>6. QED BY <1>1, <1>4, <1>5, HistoryNumbers DEF HistoryInv

(* Neither late prices nor archiving, cleaning or time change what is        *)
(* archived: a day stays as it is, an hour until it is old enough to become  *)
(* a day. Verdicts fall once, after their review, and a reputation only      *)
(* falls while its oracle stays.                                             *)
THEOREM SettledAlwaysStays == MCSpec => SettledStays
<1>1. HistoryInv /\ [MCNext]_allVars => HistoryInv' /\ (ArchiveStays \/ UNCHANGED historyVars)
  <2> SUFFICES ASSUME HistoryInv, [MCNext]_allVars
               PROVE  HistoryInv' /\ (ArchiveStays \/ UNCHANGED historyVars)
    OBVIOUS
  <2>1. CASE UNCHANGED historyVars
    <3>1. HistoryInv'
      BY <2>1 DEF HistoryInv, historyVars, History!Before, Entries
    <3>2. QED BY <2>1, <3>1
  <2>2. QED BY <2>1, HistoryStep, ContractsMove
<1>2. MCInit => HistoryInv
  BY HistoryInitial DEF MCInit
<1>3. ArchiveStays \/ UNCHANGED historyVars =>
        [/\ \A d \in DOMAIN store.historical :
              d \in DOMAIN store'.historical /\ store'.historical[d] = store.historical[d]
         /\ \A w \in DOMAIN store.medium :
              IF w \in DOMAIN store'.medium THEN store'.medium[w] = store.medium[w]
              ELSE w < History!Before(TIER_MEDIUM_SECS)]_(History!historyVars)
  BY DEF ArchiveStays, historyVars, History!historyVars
<1>4. Punishes \/ UNCHANGED nodeVars =>
        [/\ \A id \in DOMAIN disputes : disputes'[id] # disputes[id] =>
              /\ disputes[id].status = "Pending"
              /\ node_now - disputes[id].start_time >= DISPUTE_REVIEW_PERIOD
         /\ \A o \in DOMAIN node.stakes \cap DOMAIN node'.stakes :
              /\ node'.reputation[o] <= node.reputation[o]
              /\ node'.stakes[o] < node.stakes[o] =>
                   node'.slash_count[o] = Node!GetOr(node.slash_count, o, 0) + 1
              /\ node'.stakes[o] > node.stakes[o] =>
                   \E id \in DOMAIN disputes :
                     disputes[id].oracle = o /\ disputes'[id].status # disputes[id].status]_(Node!nodeVars)
  BY DEF Punishes, Settled, StakeMoved, nodeVars, Node!nodeVars
<1>5. MCSpec => History!ArchiveIsKept
  BY <1>1, <1>2, <1>3, PTL DEF MCSpec, History!ArchiveIsKept
<1>6. MCSpec => Node!PunishedOnce
  BY <1>4, NodeAndManagerInitial, NodeAndManagerStep, PTL DEF MCSpec, Node!PunishedOnce
<1>7. QED BY <1>5, <1>6 DEF SettledStays

-----------------------------------------------------------------------------
(* Averages: what they lie between *)

\* One more than the quotient, times the divisor, exceeds what is divided.
LEMMA QuotientBetween ==
  ASSUME NEW p \in Nat, NEW n \in Nat, n > 0, NEW q, q = p \div n
  PROVE  /\ q \in Nat /\ (q + 1) * n > p /\ (q - 1) * n < p
<1>1. q \in Int /\ n * q <= p /\ p < n * q + n
  BY DivisionBounds
<1>2. q >= 0
  <2>1. SUFFICES ASSUME q <= -1 PROVE FALSE
    BY <1>1
  <2>2. n * (-1 - q) >= 0 /\ n * (-1 - q) = -n - n * q
    BY <1>1, <2>1
  <2>3. QED BY <1>1, <2>2
<1>3. (q + 1) * n = n * q + n /\ (q - 1) * n = n * q - n /\ n * q \in Int
  BY <1>1
<1>4. QED BY <1>1, <1>2, <1>3

(* A weighted average lies between two of the values that have a weight. *)
LEMMA AverageBetween ==
  ASSUME NEW S, IsFiniteSet(S), NEW v, NEW w, NEW m,
         \A x \in S : v[x] \in Nat /\ w[x] \in Nat /\ m[x] = v[x] * w[x],
         SumFunctionOnSet(w, S) > 0,
         NEW q, q = SumFunctionOnSet(m, S) \div SumFunctionOnSet(w, S)
  PROVE  /\ \E x \in S : w[x] > 0 /\ v[x] <= q
         /\ \E x \in S : w[x] > 0 /\ q <= v[x]
<1>1. PICK M, W : M = SumFunctionOnSet(m, S) /\ W = SumFunctionOnSet(w, S)
  OBVIOUS
<1>2. \A x \in S : m[x] \in Nat /\ w[x] \in Nat
  <2>1. \A a, b \in Nat : a * b \in Nat
    OBVIOUS
  <2>2. QED BY <2>1
<1>3. M \in Nat /\ W \in Nat /\ W > 0
  BY <1>1, <1>2, SumOfNats
<1>4. q \in Nat /\ (q + 1) * W > M /\ (q - 1) * W < M
  BY <1>1, <1>3, QuotientBetween
<1>5. ASSUME NEW c \in Int
      PROVE  \E g : /\ SumFunctionOnSet(g, S) = c * W
                    /\ \A x \in S : g[x] = c * w[x] /\ g[x] \in Int
  <2>1. PICK g : g = [x \in S |-> c * w[x]]
    OBVIOUS
  <2>2. \A x \in S : w[x] \in Int /\ g[x] = c * w[x] /\ g[x] \in Int
    BY <1>2, <2>1
  <2>3. SumFunctionOnSet(g, S) = c * SumFunctionOnSet(w, S)
    BY <2>2, SumOnSetScaled
  <2>4. QED BY <1>1, <2>2, <2>3
<1>6. ASSUME \A x \in S : w[x] > 0 => q < v[x] PROVE FALSE
  <2>1. PICK g : /\ SumFunctionOnSet(g, S) = (q + 1) * W
                 /\ \A x \in S : g[x] = (q + 1) * w[x] /\ g[x] \in Int
    BY <1>4, <1>5
  <2>2. ASSUME NEW x \in S PROVE g[x] <= m[x]
    <3>1. PICK a, b : a = v[x] /\ b = w[x]
      OBVIOUS
    <3>2. a \in Nat /\ b \in Nat /\ m[x] = a * b /\ g[x] = (q + 1) * b
      BY <2>1, <3>1
    <3>3. CASE b = 0
      BY <1>4, <3>2, <3>3
    <3>4. CASE b # 0
      <4>1. q + 1 <= a /\ q + 1 \in Nat
        BY <1>4, <1>6, <3>1, <3>2, <3>4
      <4>2. b * (q + 1) <= b * a
        BY <3>2, <4>1, LessProduct
      <4>3. b * a = a * b /\ b * (q + 1) = (q + 1) * b
        BY <3>2, <4>1
      <4>4. QED BY <3>2, <4>2, <4>3
    <3>5. QED BY <3>3, <3>4
  <2>3. \A x \in S : g[x] \in Int /\ m[x] \in Int /\ g[x] <= m[x]
    BY <1>2, <2>1, <2>2
  <2>4. SumFunctionOnSet(g, S) <= M
    BY <1>1, <2>3, SumOnSetMonotone
  <2>5. PICK t : t = (q + 1) * W
    OBVIOUS
  <2>6. t \in Nat /\ t > M /\ t <= M
    <3>1. \A a, b \in Nat : a * b \in Nat
      OBVIOUS
    <3>2. q + 1 \in Nat
      BY <1>4
    <3>3. QED BY <1>3, <1>4, <2>1, <2>4, <2>5, <3>1, <3>2
  <2>7. QED BY <1>3, <2>6
<1>7. ASSUME \A x \in S : w[x] > 0 => v[x] < q PROVE FALSE
  <2>1. PICK g : /\ SumFunctionOnSet(g, S) = (q - 1) * W
                 /\ \A x \in S : g[x] = (q - 1) * w[x] /\ g[x] \in Int
    BY <1>4, <1>5
  <2>2. ASSUME NEW x \in S PROVE m[x] <= g[x]
    <3>1. PICK a, b : a = v[x] /\ b = w[x]
      OBVIOUS
    <3>2. a \in Nat /\ b \in Nat /\ m[x] = a * b /\ g[x] = (q - 1) * b
      BY <2>1, <3>1
    <3>3. CASE b = 0
      BY <1>4, <3>2, <3>3
    <3>4. CASE b # 0
      <4>1. a <= q - 1 /\ q - 1 \in Nat
        BY <1>4, <1>7, <3>1, <3>2, <3>4
      <4>2. b * a <= b * (q - 1)
        BY <3>2, <4>1, LessProduct
      <4>3. b * a = a * b /\ b * (q - 1) = (q - 1) * b
        BY <3>2, <4>1
      <4>4. QED BY <3>2, <4>2, <4>3
    <3>5. QED BY <3>3, <3>4
  <2>3. \A x \in S : g[x] \in Int /\ m[x] \in Int /\ m[x] <= g[x]
    BY <1>2, <2>1, <2>2
  <2>4. M <= SumFunctionOnSet(g, S)
    BY <1>1, <2>3, SumOnSetMonotone
  <2>5. PICK t : t = (q - 1) * W
    OBVIOUS
  <2>6. t \in Int /\ t < M /\ M <= t
    <3>1. \A a, b \in Int : a * b \in Int
      OBVIOUS
    <3>2. q - 1 \in Int
      BY <1>4
    <3>3. QED BY <1>3, <1>4, <2>1, <2>4, <2>5, <3>1, <3>2
  <2>7. QED BY <1>3, <2>6
<1>8. \A x \in S : v[x] \in Nat
  OBVIOUS
<1>9. QED BY <1>4, <1>6, <1>7, <1>8

(* If no one has a weight, neither has anyone. *)
LEMMA NoWeight ==
  ASSUME NEW S, IsFiniteSet(S), NEW w, \A x \in S : w[x] \in Nat, SumFunctionOnSet(w, S) = 0
  PROVE  \A x \in S : w[x] = 0
<1>1. ASSUME NEW x \in S PROVE w[x] <= 0
  <2>1. PICK R : R = S \ {x}
    OBVIOUS
  <2>2. IsFiniteSet(R) /\ x \notin R /\ R \cup {x} = S /\ \A y \in R : w[y] \in Nat
    BY <2>1, FS_Subset
  <2>3. SumFunctionOnSet(w, R) \in Nat
    BY <2>2, SumOfNats
  <2>4. \A y \in R \cup {x} : w[y] \in Int
    BY <2>2
  <2>5. SumFunctionOnSet(w, R \cup {x}) = SumFunctionOnSet(w, R) + w[x]
    BY <2>2, <2>4, SumOnSetAdd
  <2>6. QED BY <2>2, <2>3, <2>5
<1>2. QED BY <1>1

-----------------------------------------------------------------------------
(* The aggregate of the decentralized oracle *)

Trusted(prices) == {o \in DOMAIN prices : o \in DOMAIN node.reputation /\ node.reputation[o] > 0}
Counted(prices) == IF Trusted(prices) = {} THEN DOMAIN prices ELSE Trusted(prices)

Weighs(prices) == [o \in DOMAIN prices |-> Node!WeightOf(o)]
Weighted(prices) == [o \in DOMAIN prices |-> prices[o] * Node!WeightOf(o)]
Plain(prices) == [o \in DOMAIN prices |-> prices[o]]

\* What aggregate_price folds, as sums of functions.
LEMMA AggregateSums ==
  ASSUME NEW prices
  PROVE  LET senders == DOMAIN prices
             total   == SumFunctionOnSet(Weighs(prices), senders)
         IN  Node!aggregate_price(prices) =
               IF Cardinality(senders) < MIN_ORACLES THEN aggregated
               ELSE IF total = 0 THEN {SumFunctionOnSet(Plain(prices), senders) \div Cardinality(senders)}
                    ELSE {SumFunctionOnSet(Weighted(prices), senders) \div total}
<1>1. PICK S : S = DOMAIN prices
  OBVIOUS
<1>2. Node!MapThenSumSet(Node!WeightOf, S) = SumFunctionOnSet([o \in S |-> Node!WeightOf(o)], S)
  BY DEF Node!MapThenSumSet, Node!MapThenFoldSet, SumFunctionOnSet, FoldFunctionOnSet, MapThenFoldSet
<1>3. Node!MapThenSumSet(LAMBDA o : prices[o], S) = SumFunctionOnSet([o \in S |-> prices[o]], S)
  BY DEF Node!MapThenSumSet, Node!MapThenFoldSet, SumFunctionOnSet, FoldFunctionOnSet, MapThenFoldSet
<1>4. Node!MapThenSumSet(LAMBDA o : prices[o] * Node!WeightOf(o), S)
        = SumFunctionOnSet([o \in S |-> prices[o] * Node!WeightOf(o)], S)
  BY DEF Node!MapThenSumSet, Node!MapThenFoldSet, SumFunctionOnSet, FoldFunctionOnSet, MapThenFoldSet
<1>5. Node!Cardinality(S) = Cardinality(S)
  BY DEF Node!Cardinality, Cardinality
<1>6. Node!aggregate_price(prices) =
        IF Node!Cardinality(S) < MIN_ORACLES THEN aggregated
        ELSE IF Node!MapThenSumSet(Node!WeightOf, S) = 0
             THEN {Node!MapThenSumSet(LAMBDA o : prices[o], S) \div Node!Cardinality(S)}
             ELSE {Node!MapThenSumSet(LAMBDA o : prices[o] * Node!WeightOf(o), S)
                     \div Node!MapThenSumSet(Node!WeightOf, S)}
  BY <1>1 DEF Node!aggregate_price
<1>7. Node!aggregate_price(prices) =
        IF Cardinality(S) < MIN_ORACLES THEN aggregated
        ELSE IF SumFunctionOnSet(Weighs(prices), S) = 0
             THEN {SumFunctionOnSet(Plain(prices), S) \div Cardinality(S)}
             ELSE {SumFunctionOnSet(Weighted(prices), S) \div SumFunctionOnSet(Weighs(prices), S)}
  BY <1>1, <1>2, <1>3, <1>4, <1>5, <1>6 DEF Weighs, Weighted, Plain
<1>8. QED BY <1>1, <1>7

\* The aggregate of some prices lies between two that count.
BetweenCounted(prices, p) ==
  /\ \E o \in Counted(prices) : prices[o] <= p
  /\ \E o \in Counted(prices) : p <= prices[o]

LEMMA AggregateBetween ==
  ASSUME NodeInv, NEW prices, IsFiniteSet(DOMAIN prices), \A o \in DOMAIN prices : prices[o] \in Nat,
         Node!aggregate_price(prices) # aggregated
  PROVE  \A p \in Node!aggregate_price(prices) : BetweenCounted(prices, p)
<1>1. PICK S : S = DOMAIN prices
  OBVIOUS
<1>2. PICK w, v, m : w = Weighs(prices) /\ v = Plain(prices) /\ m = Weighted(prices)
  OBVIOUS
<1>3. \A o \in S : w[o] = Node!WeightOf(o) /\ w[o] \in Nat /\ v[o] = prices[o] /\ v[o] \in Nat /\ m[o] = v[o] * w[o]
  BY <1>1, <1>2 DEF Weighs, Plain, Weighted, Node!WeightOf, Node!GetOr, NodeInv, NodeRecord
<1>4. Trusted(prices) = {o \in S : w[o] > 0}
  BY <1>1, <1>3 DEF Trusted, Node!WeightOf, Node!GetOr, NodeInv, NodeRecord
<1>5. IsFiniteSet(S) /\ Cardinality(S) \in Nat
  BY <1>1, FS_CardinalityType
<1>6. PICK W : W = SumFunctionOnSet(w, S)
  OBVIOUS
<1>7. W \in Nat
  BY <1>3, <1>5, <1>6, SumOfNats
<1>8. /\ Cardinality(S) > 0
      /\ Node!aggregate_price(prices) =
           IF W = 0 THEN {SumFunctionOnSet(v, S) \div Cardinality(S)} ELSE {SumFunctionOnSet(m, S) \div W}
  BY <1>1, <1>2, <1>5, <1>6, AggregateSums, NodeNumbers
<1>9. CASE W > 0
  <2>1. PICK q : q = SumFunctionOnSet(m, S) \div SumFunctionOnSet(w, S)
    OBVIOUS
  <2>2. /\ \E x \in S : w[x] > 0 /\ v[x] <= q
        /\ \E x \in S : w[x] > 0 /\ q <= v[x]
    BY <1>3, <1>5, <1>6, <1>9, <2>1, AverageBetween
  <2>3. BetweenCounted(prices, q)
    BY <1>3, <1>4, <2>2 DEF BetweenCounted, Counted
  <2>4. Node!aggregate_price(prices) = {q}
    BY <1>6, <1>8, <1>9, <2>1
  <2>5. QED BY <2>3, <2>4
<1>10. CASE W = 0
  <2>1. Trusted(prices) = {}
    <3>1. \A o \in S : w[o] = 0
      <4>1. (\A o \in S : w[o] \in Nat) /\ SumFunctionOnSet(w, S) = 0
        BY <1>3, <1>6, <1>10
      <4>2. QED BY <1>5, <4>1, NoWeight
    <3>2. QED BY <1>4, <3>1
  <2>2. PICK one : one = [o \in S |-> 1]
    OBVIOUS
  <2>3. SumFunctionOnSet(one, S) = Cardinality(S)
    BY <1>5, <2>2, SumOfOnes
  <2>4. \A o \in S : v[o] \in Nat /\ one[o] \in Nat /\ v[o] = v[o] * one[o]
    BY <1>3, <2>2
  <2>5. PICK q : q = SumFunctionOnSet(v, S) \div SumFunctionOnSet(one, S)
    OBVIOUS
  <2>6. /\ \E x \in S : one[x] > 0 /\ v[x] <= q
        /\ \E x \in S : one[x] > 0 /\ q <= v[x]
    BY <1>5, <1>8, <2>3, <2>4, <2>5, AverageBetween
  <2>7. BetweenCounted(prices, q)
    BY <1>1, <1>3, <2>1, <2>6 DEF BetweenCounted, Counted
  <2>8. Node!aggregate_price(prices) = {q}
    BY <1>8, <1>10, <2>3, <2>5
  <2>9. QED BY <2>7, <2>8
<1>11. QED BY <1>7, <1>9, <1>10

\* A step of the oracle changes the aggregate by a report only.
LEMMA NodeAggregates ==
  ASSUME NodeInv, Node!NodeNext, aggregated' # aggregated
  PROVE  \A p \in aggregated' : BetweenCounted(reports', p)
<1>1. PICK o \in Oracles, price \in Reports : Node!submit_price(o, price)
  BY DEF Node!NodeNext, Node!register_oracle, Node!set_heartbeat_interval, Node!record_heartbeat,
         Node!request_unbond, Node!withdraw_stake, Node!UnbondingExpires, Node!slash_oracle,
         Node!open_dispute, Node!resolve_dispute, Node!update_config, Node!SetPaused,
         Node!check_heartbeats, Node!NodeElapse
<1>2. IsFiniteSet(DOMAIN reports') /\ reports' \in [DOMAIN reports' -> Nat]
  BY <1>1, NodeReports
<1>3. aggregated' = Node!aggregate_price(reports')
  BY <1>1 DEF Node!submit_price
<1>4. QED BY <1>2, <1>3, AggregateBetween

LEMMA NodeTrusts ==
  ASSUME NodeInv, [Node!NodeNext]_nodeVars
  PROVE  aggregated' # aggregated =>
       LET trusted == {o \in DOMAIN reports' : o \in DOMAIN node.reputation /\ node.reputation[o] > 0}
           counted == IF trusted = {} THEN DOMAIN reports' ELSE trusted
       IN  \A p \in aggregated' : /\ \E o \in counted : reports'[o] <= p
                                  /\ \E o \in counted : p <= reports'[o]
<1>1. SUFFICES ASSUME aggregated' # aggregated
               PROVE  \A p \in aggregated' : BetweenCounted(reports', p)
  BY DEF BetweenCounted, Counted, Trusted
<1>2. Node!NodeNext
  BY <1>1 DEF nodeVars
<1>3. QED BY <1>1, <1>2, NodeAggregates

-----------------------------------------------------------------------------
(* The failover: the order of the chain *)

Precedes(list, i, j) ==
  \/ list[i].priority < list[j].priority
  \/ list[i].priority = list[j].priority /\ i < j

Preceding(list, i) == {j \in DOMAIN list : Precedes(list, j, i)}

\* How many come before the one in a place, which is where it goes.
LEMMA PrecedingCounts ==
  ASSUME NEW n \in Nat, NEW list, DOMAIN list = 1..n, \A i \in 1..n : list[i].priority \in Nat
  PROVE  /\ \A i \in 1..n : Cardinality(Preceding(list, i)) \in 0..(n - 1)
         /\ \A i, j \in 1..n :
              Precedes(list, i, j) => Cardinality(Preceding(list, i)) < Cardinality(Preceding(list, j))
<1>1. IsFiniteSet(1..n) /\ Cardinality(1..n) = n
  BY FS_Interval
<1>2. ASSUME NEW i \in 1..n
      PROVE  /\ IsFiniteSet(Preceding(list, i)) /\ i \notin Preceding(list, i)
             /\ Cardinality(Preceding(list, i)) \in 0..(n - 1)
  <2>1. PICK P : P = Preceding(list, i)
    OBVIOUS
  <2>2. P \subseteq (1..n) \ {i}
    BY <2>1 DEF Preceding, Precedes
  <2>3. IsFiniteSet((1..n) \ {i}) /\ Cardinality((1..n) \ {i}) = n - 1
    BY <1>1, FS_RemoveElement
  <2>4. IsFiniteSet(P) /\ Cardinality(P) <= n - 1 /\ Cardinality(P) \in Nat
    BY <2>2, <2>3, FS_Subset, FS_CardinalityType
  <2>5. QED BY <2>1, <2>2, <2>4
<1>3. ASSUME NEW i \in 1..n, NEW j \in 1..n, Precedes(list, i, j)
      PROVE  Cardinality(Preceding(list, i)) < Cardinality(Preceding(list, j))
  <2>1. PICK P, Q : P = Preceding(list, i) /\ Q = Preceding(list, j)
    OBVIOUS
  <2>2. P \cup {i} \subseteq Q
    BY <1>3, <2>1 DEF Preceding, Precedes
  <2>3. /\ IsFiniteSet(P) /\ i \notin P /\ IsFiniteSet(Q)
        /\ Cardinality(P) \in Int /\ Cardinality(Q) \in Int
    BY <1>2, <2>1
  <2>4. Cardinality(P \cup {i}) = Cardinality(P) + 1
    BY <2>3, FS_AddElement
  <2>5. Cardinality(P \cup {i}) <= Cardinality(Q)
    BY <2>2, <2>3, FS_Subset
  <2>6. QED BY <2>1, <2>3, <2>4, <2>5
<1>4. QED BY <1>2, <1>3

\* Someone goes to every place.
LEMMA EveryPlaceTaken ==
  ASSUME NEW n \in Nat, NEW list, DOMAIN list = 1..n, \A i \in 1..n : list[i].priority \in Nat
  PROVE  \A k \in 1..n : \E i \in 1..n : Cardinality(Preceding(list, i)) = k - 1
<1>1. PICK rank : rank = [i \in 1..n |-> Cardinality(Preceding(list, i))]
  OBVIOUS
<1>2. rank \in [1..n -> 0..(n - 1)]
  BY <1>1, PrecedingCounts
<1>3. ASSUME NEW i \in 1..n, NEW j \in 1..n, i # j PROVE rank[i] # rank[j]
  <2>1. Precedes(list, i, j) \/ Precedes(list, j, i)
    <3>1. list[i].priority \in Nat /\ list[j].priority \in Nat
      OBVIOUS
    <3>2. QED BY <1>3, <3>1 DEF Precedes
  <2>2. rank[i] < rank[j] \/ rank[j] < rank[i]
    BY <1>1, <2>1, PrecedingCounts
  <2>3. rank[i] \in Int /\ rank[j] \in Int
    BY <1>2
  <2>4. QED BY <2>2, <2>3
<1>4. rank \in Injection(1..n, 0..(n - 1))
  BY <1>2, <1>3 DEF Injection, IsInjective
<1>5. IsFiniteSet(1..n) /\ Cardinality(1..n) = n /\ IsFiniteSet(0..(n - 1)) /\ Cardinality(0..(n - 1)) = n
  BY FS_Interval
<1>6. rank \in Surjection(1..n, 0..(n - 1))
  BY <1>4, <1>5, FS_Injection
<1>7. ASSUME NEW k \in 1..n PROVE \E i \in 1..n : rank[i] = k - 1
  <2>1. k - 1 \in 0..(n - 1)
    OBVIOUS
  <2>2. QED BY <1>6, <2>1 DEF Surjection
<1>8. QED BY <1>1, <1>7

ChainEntries == [id : Adapters, priority : Nat, enabled : BOOLEAN]

\* Where the one to go to a place comes from, and what the list in order is made of.
FromPlace(list) ==
  [k \in DOMAIN list |-> CHOOSE i \in DOMAIN list : Cardinality(Preceding(list, i)) = k - 1]

LEMMA SortedByRank ==
  ASSUME NEW list
  PROVE  Failover!ByPriority(list) = [k \in DOMAIN list |-> list[FromPlace(list)[k]]]
<1>1. PICK order : order = [k \in DOMAIN list |->
                             CHOOSE i \in DOMAIN list : Cardinality(Preceding(list, i)) = k - 1]
  OBVIOUS
<1>2. Failover!ByPriority(list) = [k \in DOMAIN list |-> list[order[k]]]
  BY <1>1 DEF Failover!ByPriority, Failover!Cardinality, Cardinality, Preceding, Precedes
<1>3. FromPlace(list) = order
  BY <1>1 DEF FromPlace
<1>4. QED BY <1>2, <1>3

(* Sorting by priority keeps the entries and puts them in the order of their *)
(* priorities.                                                               *)
LEMMA PrioritiesSorted ==
  ASSUME NEW list \in Seq(ChainEntries)
  PROVE  /\ Failover!ByPriority(list) \in Seq(ChainEntries)
         /\ \A k \in DOMAIN Failover!ByPriority(list) :
              \E i \in DOMAIN list : Failover!ByPriority(list)[k] = list[i]
         /\ \A k, l \in DOMAIN Failover!ByPriority(list) :
              k < l => Failover!ByPriority(list)[k].priority <= Failover!ByPriority(list)[l].priority
<1>1. PICK n \in Nat : DOMAIN list = 1..n /\ n = Len(list)
  OBVIOUS
<1>2. \A i \in 1..n : list[i] \in ChainEntries /\ list[i].priority \in Nat
  <2>1. \A i \in 1..n : list[i] \in ChainEntries
    BY <1>1
  <2>2. QED BY <2>1 DEF ChainEntries
<1>3. PICK sorted : sorted = Failover!ByPriority(list)
  OBVIOUS
<1>4. PICK order : order = FromPlace(list)
  OBVIOUS
<1>5. \A k \in 1..n : order[k] \in 1..n /\ Cardinality(Preceding(list, order[k])) = k - 1
  <2>1. \A k \in 1..n : \E i \in 1..n : Cardinality(Preceding(list, i)) = k - 1
    BY <1>1, <1>2, EveryPlaceTaken
  <2>2. QED BY <1>4, <1>1, <2>1 DEF FromPlace
<1>6. sorted = [k \in 1..n |-> list[order[k]]]
  BY <1>4, <1>1, <1>3, SortedByRank
<1>7. ASSUME NEW k \in 1..n, NEW l \in 1..n, k < l PROVE sorted[k].priority <= sorted[l].priority
  <2>1. PICK i \in 1..n, j \in 1..n : i = order[k] /\ j = order[l]
    BY <1>5
  <2>2. Cardinality(Preceding(list, i)) = k - 1 /\ Cardinality(Preceding(list, j)) = l - 1
    BY <1>5, <2>1
  <2>3. ~(l - 1 < k - 1)
    BY <1>7
  <2>4. ~Precedes(list, j, i)
    BY <1>1, <1>2, <2>1, <2>2, <2>3, PrecedingCounts
  <2>5. list[i].priority <= list[j].priority
    <3>1. i \in 1..n /\ j \in 1..n
      BY <2>1
    <3>2. list[i].priority \in Nat /\ list[j].priority \in Nat
      BY <1>2, <3>1
    <3>3. QED BY <2>4, <3>2 DEF Precedes
  <2>6. QED BY <1>6, <2>1, <2>5
<1>8. /\ DOMAIN sorted = 1..n
      /\ \A k \in 1..n : \E i \in 1..n : sorted[k] = list[i]
  BY <1>5, <1>6
<1>9. sorted \in Seq(ChainEntries)
  <2>1. \A k \in 1..n : sorted[k] \in ChainEntries
    BY <1>2, <1>8
  <2>2. sorted \in [1..n -> ChainEntries]
    BY <1>6, <1>8, <2>1
  <2>3. QED BY <2>2
<1>10. QED BY <1>1, <1>3, <1>7, <1>8, <1>9

-----------------------------------------------------------------------------
(* The failover: who is asked first *)

FailoverInv ==
  /\ chain \in Seq(ChainEntries)
  /\ \A i, j \in DOMAIN chain : i < j => chain[i].priority <= chain[j].priority
  /\ \A i \in DOMAIN chain : chain[i].id \in DOMAIN health

LEMMA FailoverNumbers ==
  /\ BPS \in Nat /\ BPS > 0 /\ min_quorum \in Nat /\ min_quorum > 0 /\ max_deviation_bps \in Nat
  /\ Priorities \subseteq Nat /\ Answers \subseteq Nat
BY FailoverInputs DEF Failover!OracleFailoverAssumption

LEMMA FailoverInitial == Failover!FailoverInit => FailoverInv
BY DEF Failover!FailoverInit, FailoverInv

\* The chain is a sorted copy of entries whose health is known.
LEMMA ChainSorted ==
  ASSUME NEW list \in Seq(ChainEntries), \A i \in DOMAIN list : list[i].id \in DOMAIN health',
         chain' = Failover!ByPriority(list)
  PROVE  FailoverInv'
<1>1. /\ chain' \in Seq(ChainEntries)
      /\ \A k \in DOMAIN chain' : \E i \in DOMAIN list : chain'[k] = list[i]
      /\ \A k, l \in DOMAIN chain' : k < l => chain'[k].priority <= chain'[l].priority
  <2>1. PICK sorted : sorted = Failover!ByPriority(list)
    OBVIOUS
  <2>2. QED BY <2>1, PrioritiesSorted
<1>2. \A k \in DOMAIN chain' : chain'[k].id \in DOMAIN health'
  BY <1>1
<1>3. QED BY <1>1, <1>2 DEF FailoverInv

\* What a call that reorders nothing does to the chain.
LEMMA ChainKept ==
  ASSUME FailoverInv, DOMAIN health \subseteq DOMAIN health',
         chain' \in Seq(ChainEntries), DOMAIN chain' = DOMAIN chain,
         \A i \in DOMAIN chain : chain'[i].id = chain[i].id /\ chain'[i].priority = chain[i].priority
  PROVE  FailoverInv'
BY DEF FailoverInv

LEMMA Registering ==
  ASSUME FailoverInv, NEW id \in Adapters, NEW priority \in Priorities, Failover!register(id, priority)
  PROVE  FailoverInv'
<1>1. PICK others : others = Failover!KeptAt(chain, {i \in DOMAIN chain : chain[i].id # id})
  OBVIOUS
<1>2. PICK entry : entry = [id |-> id, priority |-> priority, enabled |-> TRUE]
  OBVIOUS
<1>3. /\ health' = Failover!Put(health, id, Failover!HealthOf(id))
      /\ chain' = Failover!ByPriority(Append(others, entry))
  BY <1>1, <1>2 DEF Failover!register
<1>4. DOMAIN health' = DOMAIN health \cup {id}
  BY <1>3 DEF Failover!Put
<1>5. PICK Known : Known = {e \in ChainEntries : e.id \in DOMAIN health'}
  OBVIOUS
<1>6. chain \in Seq(Known)
  BY <1>4, <1>5 DEF FailoverInv
<1>7. others \in Seq(Known)
  <2>1. others = KeptAt(chain, {i \in DOMAIN chain : chain[i].id # id})
    BY <1>1 DEF Failover!KeptAt, KeptAt
  <2>2. QED BY <1>6, <2>1, KeptAtType
<1>8. entry \in Known
  BY <1>2, <1>4, <1>5, FailoverNumbers DEF ChainEntries
<1>9. PICK list : list = Append(others, entry)
  OBVIOUS
<1>10. list \in Seq(Known)
  BY <1>7, <1>8, <1>9
<1>11. list \in Seq(ChainEntries) /\ \A i \in DOMAIN list : list[i].id \in DOMAIN health'
  BY <1>5, <1>10
<1>12. QED BY <1>3, <1>9, <1>11, ChainSorted

LEMMA Reprioritizing ==
  ASSUME FailoverInv, NEW id \in Adapters, NEW priority \in Priorities, Failover!set_priority(id, priority)
  PROVE  FailoverInv'
<1>1. PICK list : list = [i \in DOMAIN chain |->
                IF chain[i].id = id THEN [chain[i] EXCEPT !.priority = priority] ELSE chain[i]]
  OBVIOUS
<1>2. chain' = Failover!ByPriority(list) /\ health' = health
  BY <1>1 DEF Failover!set_priority, Failover!Reprioritized
<1>3. \A i \in DOMAIN chain : list[i] \in ChainEntries /\ list[i].id = chain[i].id
  <2>1. ASSUME NEW i \in DOMAIN chain PROVE list[i] \in ChainEntries /\ list[i].id = chain[i].id
    <3>1. chain[i] \in ChainEntries
      BY DEF FailoverInv
    <3>2. QED BY <1>1, <3>1, FailoverNumbers DEF ChainEntries
  <2>2. QED BY <2>1
<1>4. list \in Seq(ChainEntries) /\ DOMAIN list = DOMAIN chain
  BY <1>1, <1>3 DEF FailoverInv
<1>5. \A i \in DOMAIN list : list[i].id \in DOMAIN health'
  BY <1>2, <1>3, <1>4 DEF FailoverInv
<1>6. QED BY <1>2, <1>4, <1>5, ChainSorted

LEMMA Enabling ==
  ASSUME FailoverInv, NEW id \in Adapters, NEW enabled \in BOOLEAN, Failover!set_enabled(id, enabled)
  PROVE  FailoverInv'
<1>1. /\ health' = health
      /\ chain' = [i \in DOMAIN chain |->
                     IF chain[i].id = id THEN [chain[i] EXCEPT !.enabled = enabled] ELSE chain[i]]
  BY DEF Failover!set_enabled
<1>2. ASSUME NEW i \in DOMAIN chain
      PROVE  /\ chain'[i] \in ChainEntries
             /\ chain'[i].id = chain[i].id /\ chain'[i].priority = chain[i].priority
  <2>1. chain[i] \in ChainEntries
    BY DEF FailoverInv
  <2>2. QED BY <1>1, <2>1 DEF ChainEntries
<1>3. chain' \in Seq(ChainEntries) /\ DOMAIN chain' = DOMAIN chain
  BY <1>1, <1>2 DEF FailoverInv
<1>4. QED BY <1>1, <1>2, <1>3, ChainKept

LEMMA Demoting ==
  ASSUME FailoverInv, NEW records
  PROVE  /\ Failover!auto_demote(records) \in Seq(ChainEntries)
         /\ DOMAIN Failover!auto_demote(records) = DOMAIN chain
         /\ \A i \in DOMAIN chain : /\ Failover!auto_demote(records)[i].id = chain[i].id
                                    /\ Failover!auto_demote(records)[i].priority = chain[i].priority
<1>1. PICK list : list = Failover!auto_demote(records)
  OBVIOUS
<1>2. PICK poor : poor = Failover!unhealthy_adapters(records)
  OBVIOUS
<1>3. list = [i \in DOMAIN chain |->
                IF chain[i].id \in poor THEN [chain[i] EXCEPT !.enabled = FALSE] ELSE chain[i]]
  BY <1>1, <1>2 DEF Failover!auto_demote
<1>4. ASSUME NEW i \in DOMAIN chain
      PROVE  list[i] \in ChainEntries /\ list[i].id = chain[i].id /\ list[i].priority = chain[i].priority
  <2>1. chain[i] \in ChainEntries
    BY DEF FailoverInv
  <2>2. QED BY <1>3, <2>1 DEF ChainEntries
<1>5. list \in Seq(ChainEntries) /\ DOMAIN list = DOMAIN chain
  BY <1>3, <1>4 DEF FailoverInv
<1>6. QED BY <1>1, <1>4, <1>5

LEMMA RecordedAll ==
  ASSUME NEW asked, NEW answers
  PROVE  /\ DOMAIN Failover!AllRecorded(asked, answers) = DOMAIN health \cup asked
         /\ \A id \in asked \cap DOMAIN health :
              Failover!AllRecorded(asked, answers)[id].total = health[id].total + 1
<1>1. DOMAIN Failover!AllRecorded(asked, answers) = DOMAIN health \cup asked
  BY DEF Failover!AllRecorded
<1>2. ASSUME NEW id \in asked \cap DOMAIN health
      PROVE  Failover!AllRecorded(asked, answers)[id].total = health[id].total + 1
  <2>1. Failover!AllRecorded(asked, answers)[id]
          = Failover!Recorded(Failover!HealthOf(id), answers[id] # Failover!Failed, 0)
    BY DEF Failover!AllRecorded
  <2>2. Failover!HealthOf(id) = health[id]
    BY DEF Failover!HealthOf, Failover!GetOr
  <2>3. QED BY <2>1, <2>2 DEF Failover!Recorded
<1>3. QED BY <1>1, <1>2

\* The place whose answer is returned, and what came before it.
FirstToAnswer(i) ==
  \A j \in DOMAIN chain :
    chain[j].priority < chain[i].priority /\ chain[j].enabled /\ Failover!Healthy(Failover!HealthOf(chain[j].id)) =>
      /\ chain[j].id \in DOMAIN round'.answers /\ round'.answers[chain[j].id] = Failover!Failed
      /\ health'[chain[j].id].total = health[chain[j].id].total + 1

ChosenFirst(price) ==
  \E i \in DOMAIN chain :
    /\ chain[i].enabled /\ Failover!Healthy(Failover!HealthOf(chain[i].id))
    /\ chain[i].id \in DOMAIN round'.answers /\ round'.answers[chain[i].id] = price
    /\ FirstToAnswer(i)

LEMMA Fetching ==
  ASSUME FailoverInv, NEW answers, Failover!fetch(answers)
  PROVE  /\ FailoverInv'
         /\ round'.kind = "fetch"
         /\ \A price \in round'.price : ChosenFirst(price)
<1>1. PICK C : C = Failover!Candidates
  OBVIOUS
<1>2. PICK Yes : Yes = {i \in C : answers[chain[i].id] # Failover!Failed}
  OBVIOUS
<1>3. PICK tried : tried = IF Yes = {} THEN C ELSE {i \in C : i <= Failover!Earliest(Yes)}
  OBVIOUS
<1>4. PICK asked : asked = Failover!IdsAt(tried)
  OBVIOUS
<1>5. /\ health' = Failover!AllRecorded(asked, answers)
      /\ chain' = IF Yes = {} THEN chain ELSE Failover!auto_demote(health')
      /\ round' = [kind |-> "fetch", answers |-> [id \in asked |-> answers[id]],
                   price |-> IF Yes = {} THEN {} ELSE {answers[chain[Failover!Earliest(Yes)].id]}]
  BY <1>1, <1>2, <1>3, <1>4 DEF Failover!fetch
<1>6. DOMAIN health' = DOMAIN health \cup asked
  BY <1>5, RecordedAll
<1>7. FailoverInv'
  <2>1. CASE Yes = {}
    BY <1>5, <1>6, <2>1 DEF FailoverInv
  <2>2. CASE Yes # {}
    BY <1>5, <1>6, <2>2, Demoting, ChainKept
  <2>3. QED BY <2>1, <2>2
<1>8. round'.kind = "fetch"
  BY <1>5
<1>9. ASSUME NEW price \in round'.price PROVE ChosenFirst(price)
  <2>1. Yes # {}
    BY <1>5
  <2>2. PICK i : i = Failover!Earliest(Yes)
    OBVIOUS
  <2>3. i \in Yes /\ \A j \in Yes : i <= j
    <3>1. Yes \in SUBSET Nat
      BY <1>1, <1>2 DEF Failover!Candidates, FailoverInv
    <3>2. \E k \in Yes : \A j \in Yes : k <= j
      BY ONLY <2>1, <3>1, LeastElement, Zenon
    <3>3. QED BY <2>2, <3>2 DEF Failover!Earliest
  <2>4. /\ i \in DOMAIN chain /\ chain[i].enabled /\ Failover!Healthy(Failover!HealthOf(chain[i].id))
        /\ price = answers[chain[i].id]
    BY <1>1, <1>2, <1>5, <2>1, <2>2, <2>3 DEF Failover!Candidates
  <2>5. tried = {j \in C : j <= i}
    BY <1>3, <2>1, <2>2
  <2>6. i \in tried /\ i \in Int
    BY <1>1, <1>2, <2>3, <2>5 DEF Failover!Candidates, FailoverInv
  <2>7. DOMAIN round'.answers = asked /\ \A id \in asked : round'.answers[id] = answers[id]
    BY <1>5
  <2>8. chain[i].id \in asked
    BY <1>4, <2>6 DEF Failover!IdsAt
  <2>9. ASSUME NEW j \in DOMAIN chain, chain[j].priority < chain[i].priority,
               chain[j].enabled, Failover!Healthy(Failover!HealthOf(chain[j].id))
        PROVE  /\ chain[j].id \in DOMAIN round'.answers /\ round'.answers[chain[j].id] = Failover!Failed
               /\ health'[chain[j].id].total = health[chain[j].id].total + 1
    <3>1. chain[j] \in ChainEntries /\ chain[i] \in ChainEntries /\ i \in Int /\ j \in Int
      BY <2>4 DEF FailoverInv
    <3>2. j < i
      <4>1. SUFFICES ASSUME i < j \/ i = j PROVE FALSE
        BY <3>1
      <4>2. chain[i].priority <= chain[j].priority /\ chain[i].priority \in Nat /\ chain[j].priority \in Nat
        BY <2>4, <3>1, <4>1 DEF FailoverInv, ChainEntries
      <4>3. QED BY <2>9, <4>2
    <3>3. j \in C
      BY <1>1, <2>9 DEF Failover!Candidates
    <3>4. j \in tried /\ j \notin Yes
      BY <2>3, <2>5, <3>1, <3>2, <3>3
    <3>5. chain[j].id \in asked /\ chain[j].id \in DOMAIN health /\ answers[chain[j].id] = Failover!Failed
      BY <1>2, <1>4, <3>3, <3>4 DEF Failover!IdsAt, FailoverInv
    <3>6. health'[chain[j].id].total = health[chain[j].id].total + 1
      <4>1. PICK id : id = chain[j].id
        OBVIOUS
      <4>2. id \in asked \cap DOMAIN health
        BY <3>5, <4>1
      <4>3. Failover!AllRecorded(asked, answers)[id].total = health[id].total + 1
        <5>1. \A k \in asked \cap DOMAIN health :
                Failover!AllRecorded(asked, answers)[k].total = health[k].total + 1
          BY ONLY RecordedAll, Zenon
        <5>2. QED BY ONLY <4>2, <5>1, Zenon
      <4>4. health' = Failover!AllRecorded(asked, answers)
        BY <1>5
      <4>5. health'[id].total = health[id].total + 1
        BY ONLY <4>3, <4>4, Zenon
      <4>6. QED BY ONLY <4>1, <4>5, Zenon
    <3>7. QED BY <2>7, <3>5, <3>6
  <2>10. FirstToAnswer(i)
    BY <2>9 DEF FirstToAnswer
  <2>11. QED BY <2>4, <2>7, <2>8, <2>10 DEF ChosenFirst
<1>10. QED BY <1>7, <1>8, <1>9

-----------------------------------------------------------------------------
(* The failover: the median *)

\* A function on a finite set has a bound.
LEMMA ValuesBounded ==
  ASSUME NEW S, IsFiniteSet(S), NEW f, \A x \in S : f[x] \in Nat
  PROVE  \E b \in Nat : \A x \in S : f[x] <= b
<1> DEFINE F == {T \in SUBSET S : \E b \in Nat : \A x \in T : f[x] <= b}
<1>1. {} \in F
  OBVIOUS
<1>2. ASSUME NEW T \in SUBSET S, NEW x \in S \ T, T \in F PROVE T \cup {x} \in F
  <2>1. PICK b \in Nat : \A y \in T : f[y] <= b
    BY <1>2
  <2>2. PICK a \in Nat : a = f[x]
    OBVIOUS
  <2>3. \A y \in T \cup {x} : f[y] <= a + b
    <3>1. ASSUME NEW y \in T \cup {x} PROVE f[y] <= a + b
      <4>1. f[y] \in Nat
        OBVIOUS
      <4>2. f[y] <= b \/ f[y] = a
        BY <2>1, <2>2
      <4>3. QED BY <4>1, <4>2
    <3>2. QED BY <3>1
  <2>4. a + b \in Nat /\ T \cup {x} \in SUBSET S
    OBVIOUS
  <2>5. QED BY <2>3, <2>4
<1> HIDE DEF F
<1>3. S \in F
  BY <1>1, <1>2, ByElements
<1>4. QED BY <1>3 DEF F

\* Where the values are at most, and below, a bound.
AtMost(f, p) == {x \in DOMAIN f : f[x] <= p}
Below(f, p) == {x \in DOMAIN f : f[x] < p}
Half(f) == Cardinality(DOMAIN f) \div 2

\* The value in the middle exists: it is the least that half of them do not exceed.
LEMMA MiddleExists ==
  ASSUME NEW f, IsFiniteSet(DOMAIN f), DOMAIN f # {}, \A x \in DOMAIN f : f[x] \in Nat
  PROVE  \E p \in {f[x] : x \in DOMAIN f} :
           Cardinality(Below(f, p)) <= Half(f) /\ Half(f) < Cardinality(AtMost(f, p))
<1>1. PICK S, h : S = DOMAIN f /\ h = Half(f)
  OBVIOUS
<1>2. Cardinality(S) \in Nat /\ Cardinality(S) # 0 /\ IsFiniteSet(S)
  BY <1>1, FS_CardinalityType, FS_EmptySet
<1>3. h \in Nat /\ h < Cardinality(S)
  <2>1. \A n \in Nat : n # 0 => n \div 2 \in Nat /\ n \div 2 < n
    OBVIOUS
  <2>2. QED BY <1>1, <1>2, <2>1 DEF Half
<1>4. \A p : /\ AtMost(f, p) \subseteq S /\ Below(f, p) \subseteq S
             /\ Cardinality(AtMost(f, p)) \in Nat /\ Cardinality(Below(f, p)) \in Nat
  <2>1. ASSUME NEW T \in SUBSET S PROVE Cardinality(T) \in Nat
    BY <1>2, FS_Subset, FS_CardinalityType
  <2>2. QED BY <1>1, <2>1 DEF AtMost, Below
<1>5. PICK Enough : Enough = {p \in Nat : h < Cardinality(AtMost(f, p))}
  OBVIOUS
<1>6. Enough # {}
  <2>1. PICK b \in Nat : \A x \in S : f[x] <= b
    BY <1>1, <1>2, ValuesBounded
  <2>2. AtMost(f, b) = S
    BY <1>1, <2>1 DEF AtMost
  <2>3. QED BY <1>3, <1>5, <2>2
<1>7. PICK p \in Enough : \A q \in Enough : p <= q
  BY <1>5, <1>6, LeastElement
<1>8. p \in Nat /\ h < Cardinality(AtMost(f, p))
  BY <1>5
<1>9. Cardinality(Below(f, p)) <= h
  <2>1. CASE p = 0
    <3>1. Below(f, p) = {}
      BY <1>1, <2>1 DEF Below
    <3>2. QED BY <1>3, <3>1, FS_EmptySet
  <2>2. CASE p # 0
    <3>1. p - 1 \in Nat /\ ~(p <= p - 1)
      BY <1>8, <2>2
    <3>2. p - 1 \notin Enough
      BY <1>7, <3>1
    <3>3. Below(f, p) = AtMost(f, p - 1)
      BY <1>8 DEF Below, AtMost
    <3>4. QED BY <1>3, <1>4, <1>5, <3>1, <3>2, <3>3
  <2>3. QED BY <2>1, <2>2
<1>10. \E x \in S : f[x] = p
  <2>1. SUFFICES ASSUME \A x \in S : f[x] # p PROVE FALSE
    OBVIOUS
  <2>2. Below(f, p) = AtMost(f, p)
    BY <1>1, <1>8, <2>1 DEF Below, AtMost
  <2>3. QED BY <1>3, <1>4, <1>8, <1>9, <2>2
<1>11. QED BY <1>1, <1>8, <1>9, <1>10

LEMMA MedianIsMiddle ==
  ASSUME NEW f, IsFiniteSet(DOMAIN f), DOMAIN f # {}, \A x \in DOMAIN f : f[x] \in Nat,
         NEW p, p = Failover!Median(f)
  PROVE  /\ p \in Nat
         /\ Cardinality(Below(f, p)) <= Half(f) /\ Half(f) < Cardinality(AtMost(f, p))
<1>1. p = CHOOSE q \in {f[x] : x \in DOMAIN f} :
            Cardinality(Below(f, q)) <= Half(f) /\ Half(f) < Cardinality(AtMost(f, q))
  BY DEF Failover!Median, Failover!Cardinality, Cardinality, Below, AtMost, Half
<1>2. /\ p \in {f[x] : x \in DOMAIN f}
      /\ Cardinality(Below(f, p)) <= Half(f) /\ Half(f) < Cardinality(AtMost(f, p))
  BY <1>1, MiddleExists
<1>3. QED BY <1>2

(* If more than half of the values lie between two, so does the median. *)
LEMMA MajorityMoves ==
  ASSUME NEW f, IsFiniteSet(DOMAIN f), \A x \in DOMAIN f : f[x] \in Nat,
         NEW low \in Nat, NEW high \in Nat,
         NEW C \in SUBSET DOMAIN f, \A x \in C : low <= f[x] /\ f[x] <= high,
         2 * Cardinality(C) > Cardinality(DOMAIN f),
         NEW p, p = Failover!Median(f)
  PROVE  p \in Nat /\ low <= p /\ p <= high
<1>1. PICK S : S = DOMAIN f
  OBVIOUS
<1>2. IsFiniteSet(S) /\ Cardinality(S) \in Nat
  BY <1>1, FS_CardinalityType
<1>3. \A T \in SUBSET S : IsFiniteSet(T) /\ Cardinality(T) \in Nat
  BY <1>2, FS_Subset, FS_CardinalityType
<1>4. S # {}
  BY <1>1, FS_EmptySet
<1>5. p \in Nat /\ Cardinality(Below(f, p)) <= Half(f) /\ Half(f) < Cardinality(AtMost(f, p))
  BY <1>1, <1>4, MedianIsMiddle
<1>6. PICK n, c, h : n = Cardinality(S) /\ c = Cardinality(C) /\ h = Half(f)
  OBVIOUS
<1>7. n \in Nat /\ c \in Nat /\ 2 * c > n /\ h \in Nat /\ n <= 2 * h + 1 /\ 2 * h <= n
  <2>1. \A k \in Nat : k \div 2 \in Nat /\ k <= 2 * (k \div 2) + 1 /\ 2 * (k \div 2) <= k
    OBVIOUS
  <2>2. QED BY <1>1, <1>2, <1>3, <1>6, <2>1 DEF Half
<1>8. ASSUME p < low PROVE FALSE
  <2>1. PICK L : L = AtMost(f, p)
    OBVIOUS
  <2>2. L \subseteq S /\ L \cap C = {} /\ L \cup C \subseteq S
    <3>1. ASSUME NEW x \in L, x \in C PROVE FALSE
      <4>1. f[x] <= p /\ low <= f[x] /\ f[x] \in Nat
        BY <2>1, <3>1 DEF AtMost
      <4>2. QED BY <1>5, <1>8, <4>1
    <3>2. QED BY <1>1, <2>1, <3>1 DEF AtMost
  <2>3. IsFiniteSet(L) /\ IsFiniteSet(C) /\ Cardinality(L) \in Nat
    BY <1>1, <1>3, <2>2
  <2>4. Cardinality(L \cup C) = Cardinality(L) + Cardinality(C)
    <3>1. Cardinality(L \cup C) = Cardinality(L) + Cardinality(C) - Cardinality(L \cap C)
      BY <2>3, FS_Union
    <3>2. Cardinality(L \cap C) = 0
      BY <2>2, FS_EmptySet
    <3>3. QED BY <1>6, <1>7, <2>3, <3>1, <3>2
  <2>5. Cardinality(L \cup C) <= n
    BY <1>2, <1>6, <2>2, FS_Subset
  <2>6. h < Cardinality(L)
    BY <1>5, <1>6, <2>1
  <2>7. QED BY <1>6, <1>7, <2>3, <2>4, <2>5, <2>6
<1>9. ASSUME high < p PROVE FALSE
  <2>1. PICK B : B = Below(f, p)
    OBVIOUS
  <2>2. B \subseteq S /\ C \subseteq B
    <3>1. ASSUME NEW x \in C PROVE x \in B
      <4>1. x \in DOMAIN f /\ f[x] <= high /\ f[x] \in Nat
        OBVIOUS
      <4>2. QED BY <1>5, <1>9, <2>1, <4>1 DEF Below
    <3>2. QED BY <1>1, <2>1, <3>1 DEF Below
  <2>3. IsFiniteSet(B) /\ Cardinality(B) \in Nat
    BY <1>3, <2>2
  <2>4. c <= Cardinality(B)
    BY <1>6, <2>2, <2>3, FS_Subset
  <2>5. Cardinality(B) <= h
    BY <1>5, <1>6, <2>1
  <2>6. QED BY <1>7, <2>3, <2>4, <2>5
<1>10. QED BY <1>5, <1>8, <1>9

-----------------------------------------------------------------------------
(* The failover: no minority moves the consensus *)

\* Between two prices that are close enough, another is close to any third.
LEMMA CloseTogether ==
  ASSUME NEW low \in Nat, NEW high \in Nat, (high - low) * BPS <= max_deviation_bps * low, low <= high,
         NEW a \in Nat, low <= a, a <= high, NEW b \in Nat, low <= b, b <= high
  PROVE  Failover!abs_deviation_bps(a, b) <= max_deviation_bps
<1>1. PICK d \in Nat : d = Failover!Distance(a, b) /\ d <= high - low
  <2>1. PICK d : d = Failover!Distance(a, b)
    OBVIOUS
  <2>2. d \in Nat /\ d <= high - low
    BY <2>1 DEF Failover!Distance
  <2>3. QED BY <2>1, <2>2
<1>2. CASE b = 0
  BY <1>2, FailoverNumbers DEF Failover!abs_deviation_bps
<1>3. CASE b # 0
  <2>1. PICK w \in Nat : w = high - low
    OBVIOUS
  <2>2. BPS * d \in Nat /\ BPS * d <= BPS * w
    BY <1>1, <2>1, FailoverNumbers, LessProduct
  <2>3. max_deviation_bps * low <= max_deviation_bps * b
    BY FailoverNumbers, LessProduct
  <2>4. d * BPS = BPS * d /\ w * BPS = BPS * w
    BY FailoverNumbers
  <2>5. max_deviation_bps * low \in Nat /\ max_deviation_bps * b \in Nat
    BY FailoverNumbers
  <2>6. d * BPS \in Nat /\ d * BPS <= max_deviation_bps * b
    <3>1. PICK x, y, z, t : x = BPS * d /\ y = BPS * w /\ z = max_deviation_bps * low /\ t = max_deviation_bps * b
      OBVIOUS
    <3>2. x \in Nat /\ y \in Nat /\ z \in Nat /\ t \in Nat /\ x <= y /\ y <= z /\ z <= t
      <4>1. y \in Nat
        BY <3>1, FailoverNumbers
      <4>2. QED BY <2>1, <2>2, <2>3, <2>4, <2>5, <3>1, <4>1
    <3>3. QED BY <2>4, <3>1, <3>2
  <2>7. (d * BPS) \div b <= max_deviation_bps
    BY <1>3, <2>6, FailoverNumbers, QuotientAtMost
  <2>8. QED BY <1>1, <1>3, <2>7 DEF Failover!abs_deviation_bps
<1>4. QED BY <1>2, <1>3

\* Whose answers lie between two of them.
Between(answers, low, high) ==
  {id \in DOMAIN answers : low <= answers[id] /\ answers[id] <= high}

OutvotedBy(price, a, b) ==
  LET low == round'.answers[a]
      high == round'.answers[b]
  IN  /\ low <= high /\ (high - low) * BPS <= max_deviation_bps * low
      /\ 2 * Cardinality(Between(round'.answers, low, high)) > Cardinality(DOMAIN round'.answers)
      => low <= price /\ price <= high

LEMMA Consenting ==
  ASSUME FailoverInv, NEW answers \in [Adapters -> Answers], Failover!fetch_consensus(answers)
  PROVE  /\ FailoverInv'
         /\ round'.kind = "consensus"
         /\ \A price \in round'.price, a, b \in DOMAIN round'.answers : OutvotedBy(price, a, b)
<1>1. PICK places : places = {i \in DOMAIN chain :
                        /\ chain[i].enabled
                        /\ strict_health_gate => Failover!Healthy(Failover!HealthOf(chain[i].id))}
  OBVIOUS
<1>2. PICK asked : asked = Failover!IdsAt(places)
  OBVIOUS
<1>3. PICK valid : valid = {id \in asked : answers[id] # Failover!Failed}
  OBVIOUS
<1>4. PICK prices : prices = [id \in valid |-> answers[id]]
  OBVIOUS
<1>5. PICK med : med = Failover!Median(prices)
  OBVIOUS
<1>6. PICK near : near = {id \in valid : Failover!abs_deviation_bps(answers[id], med) <= max_deviation_bps}
  OBVIOUS
<1>7. PICK kept : kept = [id \in near |-> answers[id]]
  OBVIOUS
<1>8. PICK once : once = Failover!AllRecorded(asked, answers)
  OBVIOUS
<1>9. IsFiniteSet(valid)
  <2>1. PICK n \in Nat : DOMAIN chain = 1..n
    BY DEF FailoverInv
  <2>2. IsFiniteSet(places)
    <3>1. IsFiniteSet(1..n) /\ places \subseteq 1..n
      BY <1>1, <2>1, FS_Interval
    <3>2. QED BY <3>1, FS_Subset
  <2>3. PICK ids : ids = [i \in places |-> chain[i].id]
    OBVIOUS
  <2>4. asked = {ids[i] : i \in places}
    BY <1>2, <2>3 DEF Failover!IdsAt
  <2>5. IsFiniteSet(asked) /\ valid \subseteq asked
    BY <1>3, <2>2, <2>4, FiniteImage
  <2>6. QED BY <2>5, FS_Subset
<1>10. /\ chain' = chain
       /\ DOMAIN health' = DOMAIN once
       /\ round'.kind = "consensus" /\ round'.answers = prices
       /\ round'.price = {} \/ (Cardinality(near) >= min_quorum /\ round'.price = {Failover!Median(kept)})
  <2>1. PICK result : result = [kind |-> "consensus", answers |-> prices, price |-> {}]
    OBVIOUS
  <2>2. Failover!Cardinality(near) = Cardinality(near)
    BY DEF Failover!Cardinality, Cardinality
  <2>3. /\ chain' = chain
        /\ \/ health' = once /\ round' = result
           \/ /\ health' = [id \in DOMAIN once |->
                   IF id \in valid \ near
                   THEN Failover!Recorded(once[id], TRUE, Failover!abs_deviation_bps(answers[id], med))
                   ELSE once[id]]
              /\ round' = IF Failover!Cardinality(near) < min_quorum THEN result
                          ELSE [result EXCEPT !.price = {Failover!Median(kept)}]
    BY <1>1, <1>2, <1>3, <1>4, <1>5, <1>6, <1>7, <1>8, <2>1 DEF Failover!fetch_consensus
  <2>4. DOMAIN health' = DOMAIN once
    BY <2>3
  <2>5. \/ round' = result
        \/ ~(Cardinality(near) < min_quorum) /\ round' = [result EXCEPT !.price = {Failover!Median(kept)}]
    BY <2>2, <2>3
  <2>6. round'.kind = "consensus" /\ round'.answers = prices
    BY <2>1, <2>5
  <2>7. IsFiniteSet(near)
    BY <1>6, <1>9, FS_Subset
  <2>8. Cardinality(near) \in Int
    BY <2>7, FS_CardinalityType
  <2>9. round'.price = {} \/ (Cardinality(near) >= min_quorum /\ round'.price = {Failover!Median(kept)})
    BY <2>1, <2>5, <2>8, FailoverNumbers
  <2>10. QED BY <2>3, <2>4, <2>6, <2>9
<1>11. FailoverInv'
  <2>1. DOMAIN once = DOMAIN health \cup asked
    BY <1>8, RecordedAll
  <2>2. QED BY <1>10, <2>1 DEF FailoverInv
<1>12. \A id \in valid : prices[id] = answers[id] /\ answers[id] \in Nat
  <2>1. ASSUME NEW id \in valid PROVE id \in Adapters
    <3>1. PICK i \in DOMAIN chain : id = chain[i].id
      BY <1>1, <1>2, <1>3 DEF Failover!IdsAt
    <3>2. chain[i] \in ChainEntries
      BY DEF FailoverInv
    <3>3. QED BY <3>1, <3>2 DEF ChainEntries
  <2>2. QED BY <1>4, <2>1, FailoverNumbers
<1>13. ASSUME NEW price \in round'.price, NEW a \in DOMAIN round'.answers, NEW b \in DOMAIN round'.answers,
              NEW low, NEW high, low = round'.answers[a], high = round'.answers[b],
              low <= high, (high - low) * BPS <= max_deviation_bps * low,
              2 * Cardinality(Between(round'.answers, low, high)) > Cardinality(DOMAIN round'.answers)
       PROVE  low <= price /\ price <= high
  <2>1. price = Failover!Median(kept) /\ Cardinality(near) >= min_quorum
    BY <1>10, <1>13
  <2>2. DOMAIN prices = valid /\ a \in valid /\ b \in valid /\ low = answers[a] /\ high = answers[b]
    BY <1>4, <1>10, <1>13
  <2>3. low \in Nat /\ high \in Nat
    BY <1>12, <2>2
  <2>4. PICK C : C = Between(prices, low, high)
    OBVIOUS
  <2>5. C \subseteq valid /\ \A x \in C : low <= answers[x] /\ answers[x] <= high /\ prices[x] = answers[x]
    BY <1>12, <2>2, <2>4 DEF Between
  <2>6. 2 * Cardinality(C) > Cardinality(valid)
    BY <1>10, <1>13, <2>2, <2>4
  <2>7. med \in Nat /\ low <= med /\ med <= high
    BY <1>5, <1>9, <1>12, <2>2, <2>3, <2>5, <2>6, MajorityMoves
  <2>8. ASSUME NEW x \in C PROVE x \in near
    <3>1. x \in valid /\ answers[x] \in Nat /\ low <= answers[x] /\ answers[x] <= high
      BY <1>12, <2>5
    <3>2. PICK v \in Nat : v = answers[x]
      BY <3>1
    <3>3. Failover!abs_deviation_bps(v, med) <= max_deviation_bps
      BY <1>13, <2>3, <2>7, <3>1, <3>2, CloseTogether
    <3>4. QED BY <1>6, <3>1, <3>2, <3>3
  <2>9. near \subseteq valid /\ IsFiniteSet(near) /\ IsFiniteSet(C)
        /\ Cardinality(near) <= Cardinality(valid)
        /\ Cardinality(near) \in Nat /\ Cardinality(valid) \in Nat /\ Cardinality(C) \in Nat
    <3>1. near \subseteq valid
      BY <1>6
    <3>2. QED BY <1>9, <2>5, <3>1, FS_Subset, FS_CardinalityType
  <2>10. DOMAIN kept = near /\ \A x \in near : kept[x] \in Nat /\ kept[x] = answers[x]
    BY <1>7, <1>12, <2>9
  <2>11. C \subseteq DOMAIN kept /\ \A x \in C : low <= kept[x] /\ kept[x] <= high
    BY <2>5, <2>8, <2>10
  <2>12. 2 * Cardinality(C) > Cardinality(DOMAIN kept)
    BY <2>6, <2>9, <2>10
  <2>13. QED BY <2>1, <2>3, <2>9, <2>10, <2>11, <2>12, MajorityMoves
<1>14. \A price \in round'.price, a, b \in DOMAIN round'.answers : OutvotedBy(price, a, b)
  BY <1>13 DEF OutvotedBy
<1>15. QED BY <1>10, <1>11, <1>14

-----------------------------------------------------------------------------
(* The failover: its steps *)

FailoverKept ==
  /\ FailoverInv'
  /\ round'.kind = "fetch" => \A price \in round'.price : ChosenFirst(price)
  /\ round'.kind = "consensus" =>
       \A price \in round'.price, a, b \in DOMAIN round'.answers : OutvotedBy(price, a, b)

LEMMA Overriding ==
  ASSUME FailoverInv, NEW answers, Failover!Overridden(answers)
  PROVE  FailoverKept
<1>1. /\ chain' = chain /\ round'.kind = "override"
      /\ health' = Failover!AllRecorded(manual_override, answers)
  BY DEF Failover!Overridden
<1>2. DOMAIN health' = DOMAIN health \cup manual_override
  BY <1>1, RecordedAll
<1>3. QED BY <1>1, <1>2 DEF FailoverKept, FailoverInv

LEMMA FailoverStep == FailoverInv /\ Failover!FailoverNext => FailoverKept
<1> SUFFICES ASSUME FailoverInv, Failover!FailoverNext PROVE FailoverKept
  OBVIOUS
<1>1. ASSUME round' = Failover!NoRound, FailoverInv' PROVE FailoverKept
  BY <1>1 DEF FailoverKept, Failover!NoRound
<1>2. ASSUME NEW id \in Adapters, NEW priority \in Priorities, Failover!register(id, priority) PROVE FailoverKept
  BY <1>1, <1>2, Registering DEF Failover!register
<1>3. ASSUME NEW id \in Adapters, NEW priority \in Priorities, Failover!set_priority(id, priority) PROVE FailoverKept
  BY <1>1, <1>3, Reprioritizing DEF Failover!set_priority
<1>4. ASSUME NEW id \in Adapters, NEW enabled \in BOOLEAN, Failover!set_enabled(id, enabled) PROVE FailoverKept
  BY <1>1, <1>4, Enabling DEF Failover!set_enabled
<1>5. ASSUME NEW ids, Failover!set_manual_override(ids) PROVE FailoverKept
  BY <1>1, <1>5 DEF Failover!set_manual_override, FailoverInv
<1>6. ASSUME NEW answers \in [Adapters -> Answers], Failover!Overridden(answers) PROVE FailoverKept
  BY <1>6, Overriding
<1>7. ASSUME NEW answers \in [Adapters -> Answers], Failover!fetch(answers) PROVE FailoverKept
  BY <1>7, Fetching DEF FailoverKept
<1>8. ASSUME NEW answers \in [Adapters -> Answers], Failover!fetch_consensus(answers) PROVE FailoverKept
  BY <1>8, Consenting DEF FailoverKept
<1>9. QED BY <1>2, <1>3, <1>4, <1>5, <1>6, <1>7, <1>8 DEF Failover!FailoverNext

(* Whatever is reported, answered or registered in between: an aggregate lies *)
(* between reports that count, a price is the first choice's, and no minority *)
(* moves the consensus, for any oracles, adapters and prices.                 *)
THEOREM OnlyTrustedEverCount == MCSpec => OnlyTheTrustedCount
<1>1. FailoverInv /\ [MCNext]_allVars => FailoverInv' /\ (FailoverKept \/ UNCHANGED failoverVars)
  <2>1. FailoverInv /\ UNCHANGED failoverVars => FailoverInv'
    BY DEF FailoverInv, failoverVars
  <2>2. QED BY <2>1, FailoverStep, ContractsMove DEF FailoverKept
<1>2. MCInit => FailoverInv
  BY FailoverInitial DEF MCInit
<1>3. NodeInv /\ [MCNext]_allVars =>
        [aggregated' # aggregated =>
           LET trusted == {o \in DOMAIN reports' : o \in DOMAIN node.reputation /\ node.reputation[o] > 0}
               counted == IF trusted = {} THEN DOMAIN reports' ELSE trusted
           IN  \A p \in aggregated' : /\ \E o \in counted : reports'[o] <= p
                                      /\ \E o \in counted : p <= reports'[o]]_(Node!nodeVars)
  <2> SUFFICES ASSUME NodeInv, [MCNext]_allVars, Node!nodeVars' # Node!nodeVars
               PROVE  aggregated' # aggregated =>
                        LET trusted == {o \in DOMAIN reports' : o \in DOMAIN node.reputation /\ node.reputation[o] > 0}
                            counted == IF trusted = {} THEN DOMAIN reports' ELSE trusted
                        IN  \A p \in aggregated' : /\ \E o \in counted : reports'[o] <= p
                                                   /\ \E o \in counted : p <= reports'[o]
    OBVIOUS
  <2>1. [Node!NodeNext]_nodeVars
    BY ContractsMove
  <2>2. QED BY <2>1, NodeTrusts
<1>4. FailoverKept \/ UNCHANGED failoverVars =>
        [round'.kind = "fetch" =>
           \A price \in round'.price :
             \E i \in DOMAIN chain :
               /\ chain[i].enabled /\ Failover!Healthy(Failover!HealthOf(chain[i].id))
               /\ chain[i].id \in DOMAIN round'.answers /\ round'.answers[chain[i].id] = price
               /\ \A j \in DOMAIN chain :
                    chain[j].priority < chain[i].priority /\ chain[j].enabled
                      /\ Failover!Healthy(Failover!HealthOf(chain[j].id)) =>
                      /\ chain[j].id \in DOMAIN round'.answers /\ round'.answers[chain[j].id] = Failover!Failed
                      /\ health'[chain[j].id].total = health[chain[j].id].total + 1]_(Failover!failoverVars)
  BY DEF FailoverKept, ChosenFirst, FirstToAnswer, failoverVars, Failover!failoverVars
<1>5. FailoverKept \/ UNCHANGED failoverVars =>
        [round'.kind = "consensus" =>
           \A price \in round'.price, a, b \in DOMAIN round'.answers :
             LET low  == round'.answers[a]
                 high == round'.answers[b]
                 close == {id \in DOMAIN round'.answers : low <= round'.answers[id] /\ round'.answers[id] <= high}
             IN  /\ low <= high /\ (high - low) * BPS <= max_deviation_bps * low
                 /\ 2 * Failover!Cardinality(close) > Failover!Cardinality(DOMAIN round'.answers)
                 => low <= price /\ price <= high]_(Failover!failoverVars)
  <2> SUFFICES ASSUME FailoverKept \/ UNCHANGED failoverVars, Failover!failoverVars' # Failover!failoverVars,
                      round'.kind = "consensus",
                      NEW price \in round'.price, NEW a \in DOMAIN round'.answers, NEW b \in DOMAIN round'.answers
               PROVE  LET low  == round'.answers[a]
                          high == round'.answers[b]
                          close == {id \in DOMAIN round'.answers :
                                      low <= round'.answers[id] /\ round'.answers[id] <= high}
                      IN  /\ low <= high /\ (high - low) * BPS <= max_deviation_bps * low
                          /\ 2 * Failover!Cardinality(close) > Failover!Cardinality(DOMAIN round'.answers)
                          => low <= price /\ price <= high
    OBVIOUS
  <2>1. FailoverKept
    BY DEF failoverVars, Failover!failoverVars
  <2>2. OutvotedBy(price, a, b)
    BY <2>1 DEF FailoverKept
  <2>3. \A S : Failover!Cardinality(S) = Cardinality(S)
    BY DEF Failover!Cardinality, Cardinality
  <2>4. QED BY <2>2, <2>3 DEF OutvotedBy, Between
<1>6. MCSpec => Node!OnlyTheTrustedCount
  BY <1>3, NodeAndManagerInitial, NodeAndManagerStep, PTL DEF MCSpec, Node!OnlyTheTrustedCount
<1>7. MCSpec => Failover!FirstChoice
  BY <1>1, <1>2, <1>4, NodeAndManagerInitial, NodeAndManagerStep, PTL DEF MCSpec, Failover!FirstChoice
<1>8. MCSpec => Failover!MinorityIsOutvoted
  BY <1>1, <1>2, <1>5, NodeAndManagerInitial, NodeAndManagerStep, PTL DEF MCSpec, Failover!MinorityIsOutvoted
<1>9. QED BY <1>6, <1>7, <1>8 DEF OnlyTheTrustedCount

-----------------------------------------------------------------------------
(* The history: what an average over time is made of *)

LaterIn(h) == {t \in DOMAIN h : \E u \in DOMAIN h : u < t}
PreviousTo(h, t) == h[History!Max({u \in DOMAIN h : u < t})]
WeightIn(h, t) == t - PreviousTo(h, t).last_timestamp
WeightsIn(h) == [t \in LaterIn(h) |-> WeightIn(h, t)]
ClosesIn(h) == [t \in LaterIn(h) |-> PreviousTo(h, t).close]
ProductsIn(h) == [t \in LaterIn(h) |-> PreviousTo(h, t).close * WeightIn(h, t)]

LEMMA TwapSums ==
  ASSUME NEW period, NEW h, h = History!get_price_history("OneMinute", clock - period, clock),
         NEW twap, twap = History!calculate_twap(period)
  PROVE  /\ twap.weights = {WeightIn(h, t) : t \in LaterIn(h)}
         /\ twap.total_weight = SumFunctionOnSet(WeightsIn(h), LaterIn(h))
         /\ twap.weighted_sum = SumFunctionOnSet(ProductsIn(h), LaterIn(h))
         /\ twap.closes = {h[t].close : t \in DOMAIN h}
<1>1. twap.weights = {WeightIn(h, t) : t \in LaterIn(h)} /\ twap.closes = {h[t].close : t \in DOMAIN h}
  BY DEF History!calculate_twap, WeightIn, PreviousTo, LaterIn
<1>2. PICK later : later = LaterIn(h)
  OBVIOUS
<1>3. twap.total_weight = History!MapThenSumSet(LAMBDA t : WeightIn(h, t), later)
  BY <1>2 DEF History!calculate_twap, WeightIn, PreviousTo, LaterIn, History!MapThenSumSet, History!MapThenFoldSet
<1>4. twap.weighted_sum = History!MapThenSumSet(LAMBDA t : PreviousTo(h, t).close * WeightIn(h, t), later)
  BY <1>2 DEF History!calculate_twap, WeightIn, PreviousTo, LaterIn, History!MapThenSumSet, History!MapThenFoldSet
<1>5. History!MapThenSumSet(LAMBDA t : WeightIn(h, t), later)
        = SumFunctionOnSet([t \in later |-> WeightIn(h, t)], later)
  BY DEF History!MapThenSumSet, History!MapThenFoldSet, SumFunctionOnSet, FoldFunctionOnSet, MapThenFoldSet
<1>6. History!MapThenSumSet(LAMBDA t : PreviousTo(h, t).close * WeightIn(h, t), later)
        = SumFunctionOnSet([t \in later |-> PreviousTo(h, t).close * WeightIn(h, t)], later)
  BY DEF History!MapThenSumSet, History!MapThenFoldSet, SumFunctionOnSet, FoldFunctionOnSet, MapThenFoldSet
<1>7. QED BY <1>1, <1>2, <1>3, <1>4, <1>5, <1>6 DEF WeightsIn, ProductsIn

\* A finite set of numbers has a greatest and a least one.
LEMMA Extremes ==
  ASSUME NEW S \in SUBSET Nat, IsFiniteSet(S), S # {}
  PROVE  /\ History!Max(S) \in S /\ \A x \in S : x <= History!Max(S)
         /\ History!Min(S) \in S /\ \A x \in S : History!Min(S) <= x
<1>1. \E m \in S : \A x \in S : m <= x
  BY LeastElement
<1>2. \E m \in S : \A x \in S : x <= m
  <2>1. PICK f : f = [x \in S |-> x]
    OBVIOUS
  <2>2. \A x \in S : f[x] \in Nat
    BY <2>1
  <2>3. \E b \in Nat : \A x \in S : f[x] <= b
    BY <2>2, ValuesBounded
  <2>4. PICK Bounds : Bounds = {b \in Nat : \A x \in S : x <= b}
    OBVIOUS
  <2>5. PICK b \in Bounds : \A c \in Bounds : b <= c
    BY <2>1, <2>3, <2>4, LeastElement
  <2>6. b \in Nat /\ \A x \in S : x <= b
    BY <2>4
  <2>7. b \in S
    <3>1. SUFFICES ASSUME b \notin S PROVE FALSE
      OBVIOUS
    <3>2. PICK x \in S : TRUE
      OBVIOUS
    <3>3. \A y \in S : y < b /\ y \in Nat
      BY <2>6, <3>1
    <3>4. b - 1 \in Nat /\ \A y \in S : y <= b - 1
      BY <2>6, <3>2, <3>3
    <3>5. b - 1 \in Bounds
      BY <2>4, <3>4
    <3>6. QED BY <2>5, <2>6, <3>5
  <2>8. QED BY <2>6, <2>7
<1>3. (\E m \in S : \A x \in S : m >= x) /\ (\E m \in S : \A x \in S : m =< x)
  BY <1>1, <1>2
<1>4. QED BY <1>3 DEF History!Max, History!Min

\* What the window of an average holds: minutes that do not overlap.
WindowOK(h) ==
  /\ IsFiniteSet(DOMAIN h) /\ DOMAIN h \subseteq Nat
  /\ \A t \in DOMAIN h : h[t] \in Bucket
  /\ \A u, t \in DOMAIN h : u < t => h[u].last_timestamp < t

\* Of two times, the one in an earlier minute is earlier.
LEMMA EarlierMinute ==
  ASSUME NEW t \in Nat, NEW u \in Nat, NEW n \in Nat, n > 0, t \div n < u \div n
  PROVE  t < u
<1>1. PICK p, q : p = t \div n /\ q = u \div n
  OBVIOUS
<1>2. p \in Int /\ q \in Int /\ t < n * p + n /\ n * q <= u /\ p < q
  BY <1>1, DivisionBounds
<1>3. n * p + n <= n * q
  <2>1. PICK d \in Nat : q = p + 1 + d
    <3>1. q - (p + 1) \in Nat /\ q = p + 1 + (q - (p + 1))
      BY <1>2
    <3>2. QED BY <3>1
  <2>2. n * q = n * p + n + n * d /\ n * d \in Nat
    BY <1>2, <2>1
  <2>3. n * p \in Int
    BY <1>2
  <2>4. QED BY <2>2, <2>3
<1>4. n * p \in Int /\ n * q \in Int
  BY <1>2
<1>5. QED BY <1>2, <1>3, <1>4

LEMMA SameMinute ==
  ASSUME NEW t \in Nat, NEW u \in Nat, NEW n \in Nat, n > 0, t < u
  PROVE  t \div n <= u \div n
<1>1. t \div n \in Int /\ u \div n \in Int
  BY DivisionBounds
<1>2. SUFFICES ASSUME u \div n < t \div n PROVE FALSE
  BY <1>1
<1>3. u < t
  BY <1>2, EarlierMinute
<1>4. QED BY <1>3

LEMMA WindowHolds ==
  ASSUME HistoryInv, NEW period \in Nat, period <= MAX_HISTORY_RETENTION,
         NEW h, h = History!get_price_history("OneMinute", clock - period, clock)
  PROVE  WindowOK(h)
<1>1. PICK m : m = store.live["OneMinute"]
  OBVIOUS
<1>2. PICK live : live = {i \in DOMAIN m : i \in (clock - period) \div Minute .. clock \div Minute}
  OBVIOUS
<1>3. PICK first : first = [i \in live |-> m[i].first_timestamp]
  OBVIOUS
<1>4. PICK T : T = {first[i] : i \in live}
  OBVIOUS
<1>5. clock \in Nat /\ MinutesOK(m)
      /\ ArchiveOK(store.medium, HOUR_SECS, History!Before(TIER_RECENT_SECS))
      /\ ArchiveOK(store.historical, DAY_SECS, History!Before(TIER_MEDIUM_SECS))
  BY <1>1 DEF HistoryInv, StoreOK
<1>6. ASSUME NEW archive, NEW secs \in Nat, secs > 0, NEW tier \in Nat, period <= tier,
             ArchiveOK(archive, secs, History!Before(tier)), NEW w \in DOMAIN archive
      PROVE  w \notin (clock - period) .. clock
  <2>1. w \in Nat /\ w + secs <= History!Before(tier)
    BY <1>6 DEF ArchiveOK
  <2>2. w < clock - period
    BY <1>5, <1>6, <2>1 DEF History!Before
  <2>3. QED BY <1>5, <2>1, <2>2
<1>7. /\ \A w \in DOMAIN store.medium : w \notin (clock - period) .. clock
      /\ \A w \in DOMAIN store.historical : w \notin (clock - period) .. clock
  <2>1. period <= TIER_RECENT_SECS /\ period <= TIER_MEDIUM_SECS
    BY HistoryNumbers
  <2>2. QED BY <1>5, <1>6, <2>1, HistoryNumbers
<1>8. h = [t \in T |-> m[t \div Minute]]
  <2>1. T = {m[i].first_timestamp : i \in live}
    BY <1>3, <1>4
  <2>2. PICK byTime : byTime = [t \in {m[i].first_timestamp : i \in live} |-> m[t \div Minute]]
    OBVIOUS
  <2>3. PICK hours : hours =
          [w \in {w \in DOMAIN store.medium : w \in (clock - period) .. clock} |->
             [open |-> store.medium[w].open, high |-> store.medium[w].high, low |-> store.medium[w].low,
              close |-> store.medium[w].close, entry_count |-> store.medium[w].raw_entry_count,
              first_timestamp |-> w, last_timestamp |-> w + HOUR_SECS - 1]]
    OBVIOUS
  <2>4. PICK days : days =
          [w \in {w \in DOMAIN store.historical : w \in (clock - period) .. clock} |->
             [open |-> store.historical[w].open, high |-> store.historical[w].high, low |-> store.historical[w].low,
              close |-> store.historical[w].close, entry_count |-> store.historical[w].raw_entry_count,
              first_timestamp |-> w, last_timestamp |-> w + DAY_SECS - 1]]
    OBVIOUS
  <2>5. h = [t \in DOMAIN byTime \cup DOMAIN hours \cup DOMAIN days |->
               IF t \in DOMAIN byTime THEN byTime[t] ELSE IF t \in DOMAIN hours THEN hours[t] ELSE days[t]]
    BY <1>1, <1>2, <2>2, <2>3, <2>4 DEF History!get_price_history, Minute
  <2>6. DOMAIN hours = {} /\ DOMAIN days = {}
    BY <1>7, <2>3, <2>4
  <2>7. h = [t \in DOMAIN byTime |-> byTime[t]]
    BY <2>5, <2>6
  <2>8. QED BY <2>1, <2>2, <2>7
<1>9. ASSUME NEW t \in T
      PROVE  t \in Nat /\ t \div Minute \in DOMAIN m /\ h[t] = m[t \div Minute]
  <2>1. PICK i \in live : t = m[i].first_timestamp
    BY <1>3, <1>4
  <2>2. i \in DOMAIN m /\ m[i] \in Bucket /\ m[i].first_timestamp \div Minute = i
    BY <1>2, <1>5 DEF MinutesOK
  <2>3. t \in Nat /\ t \div Minute = i
    BY <2>1, <2>2 DEF Bucket
  <2>4. QED BY <1>8, <2>2, <2>3
<1>10. DOMAIN h = T /\ IsFiniteSet(T) /\ T \subseteq Nat
  <2>1. IsFiniteSet(live)
    BY <1>2, <1>5, FS_Subset DEF MinutesOK
  <2>2. IsFiniteSet(T)
    BY <1>4, <2>1, FiniteImage
  <2>3. QED BY <1>8, <1>9, <2>2
<1>11. \A t \in DOMAIN h : h[t] \in Bucket
  BY <1>5, <1>9, <1>10 DEF MinutesOK
<1>12. ASSUME NEW u \in T, NEW t \in T, u < t PROVE h[u].last_timestamp < t
  <2>1. PICK i, j : i = u \div Minute /\ j = t \div Minute
    OBVIOUS
  <2>2. /\ i \in DOMAIN m /\ j \in DOMAIN m /\ h[u] = m[i] /\ h[t] = m[j]
        /\ u \in Nat /\ t \in Nat
    BY <1>9, <2>1
  <2>3. i \in Nat /\ j \in Nat /\ i <= j
    BY <1>5, <1>12, <2>1, <2>2, SameMinute, HistoryNumbers DEF MinutesOK
  <2>4. i # j
    <3>1. PICK k \in live : u = m[k].first_timestamp
      BY <1>3, <1>4
    <3>2. PICK l \in live : t = m[l].first_timestamp
      BY <1>3, <1>4
    <3>3. k = i /\ l = j
      BY <1>2, <1>5, <2>1, <3>1, <3>2 DEF MinutesOK
    <3>4. QED BY <1>12, <2>2, <3>1, <3>2, <3>3
  <2>5. PICK last : last = m[i].last_timestamp
    OBVIOUS
  <2>6. last \in Nat /\ last \div Minute = i
    BY <1>5, <2>2, <2>5 DEF MinutesOK, Bucket
  <2>7. last \div Minute < t \div Minute
    BY <2>1, <2>3, <2>4, <2>6
  <2>8. last < t
    BY <2>2, <2>6, <2>7, EarlierMinute, HistoryNumbers
  <2>9. QED BY <2>2, <2>5, <2>8
<1>13. QED BY <1>10, <1>11, <1>12 DEF WindowOK

\* The bucket an average weighs a price by ended before that price.
LEMMA PreviousEarlier ==
  ASSUME NEW h, WindowOK(h), NEW t \in LaterIn(h)
  PROVE  /\ \E u \in DOMAIN h : PreviousTo(h, t) = h[u]
         /\ PreviousTo(h, t).close \in Nat
         /\ WeightIn(h, t) \in Nat
<1>1. PICK U : U = {u \in DOMAIN h : u < t}
  OBVIOUS
<1>2. U \in SUBSET Nat /\ IsFiniteSet(U) /\ U # {} /\ t \in DOMAIN h /\ t \in Nat
  BY <1>1, FS_Subset DEF WindowOK, LaterIn
<1>3. PICK u : u = History!Max(U)
  OBVIOUS
<1>4. u \in U
  BY <1>2, <1>3, Extremes
<1>5. PreviousTo(h, t) = h[u] /\ u \in DOMAIN h /\ u < t
  BY <1>1, <1>3, <1>4 DEF PreviousTo
<1>6. h[u] \in Bucket /\ h[u].last_timestamp < t
  BY <1>2, <1>5 DEF WindowOK
<1>7. h[u].close \in Nat /\ h[u].last_timestamp \in Nat
  BY <1>6 DEF Bucket
<1>8. WeightIn(h, t) = t - h[u].last_timestamp
  BY <1>5 DEF WeightIn
<1>9. QED BY <1>2, <1>5, <1>6, <1>7, <1>8

(* A weighted sum of values between two lies between their multiples. *)
LEMMA WeightedBetween ==
  ASSUME NEW S, IsFiniteSet(S), NEW v, NEW w, NEW m, NEW lo \in Nat, NEW hi \in Nat,
         \A x \in S : /\ v[x] \in Nat /\ w[x] \in Nat /\ m[x] = v[x] * w[x]
                      /\ lo <= v[x] /\ v[x] <= hi
  PROVE  /\ SumFunctionOnSet(w, S) \in Nat /\ SumFunctionOnSet(m, S) \in Nat
         /\ lo * SumFunctionOnSet(w, S) <= SumFunctionOnSet(m, S)
         /\ SumFunctionOnSet(m, S) <= hi * SumFunctionOnSet(w, S)
<1>1. \A x \in S : m[x] \in Nat /\ w[x] \in Nat
  <2>1. \A a, b \in Nat : a * b \in Nat
    OBVIOUS
  <2>2. QED BY <2>1
<1>2. ASSUME NEW c \in Nat
      PROVE  \E g : /\ SumFunctionOnSet(g, S) = c * SumFunctionOnSet(w, S)
                    /\ \A x \in S : g[x] = c * w[x] /\ g[x] \in Int
  <2>1. PICK g : g = [x \in S |-> c * w[x]]
    OBVIOUS
  <2>2. c \in Int /\ \A x \in S : w[x] \in Int /\ g[x] = c * w[x] /\ g[x] \in Int
    BY <1>1, <2>1
  <2>3. SumFunctionOnSet(g, S) = c * SumFunctionOnSet(w, S)
    BY <2>2, SumOnSetScaled
  <2>4. QED BY <2>2, <2>3
<1>3. PICK g : /\ SumFunctionOnSet(g, S) = lo * SumFunctionOnSet(w, S)
               /\ \A x \in S : g[x] = lo * w[x] /\ g[x] \in Int
  BY <1>2
<1>4. PICK k : /\ SumFunctionOnSet(k, S) = hi * SumFunctionOnSet(w, S)
               /\ \A x \in S : k[x] = hi * w[x] /\ k[x] \in Int
  BY <1>2
<1>5. ASSUME NEW x \in S PROVE g[x] <= m[x] /\ m[x] <= k[x]
  <2>1. PICK a, b : a = v[x] /\ b = w[x]
    OBVIOUS
  <2>2. a \in Nat /\ b \in Nat /\ m[x] = a * b /\ g[x] = lo * b /\ k[x] = hi * b /\ lo <= a /\ a <= hi
    BY <1>3, <1>4, <2>1
  <2>3. b * lo <= b * a /\ b * a <= b * hi
    BY <2>2, LessProduct
  <2>4. b * lo = lo * b /\ b * a = a * b /\ b * hi = hi * b
    BY <2>2
  <2>5. QED BY <2>2, <2>3, <2>4
<1>6. \A x \in S : /\ g[x] \in Int /\ m[x] \in Int /\ g[x] <= m[x]
                   /\ k[x] \in Int /\ m[x] <= k[x]
  BY <1>1, <1>3, <1>4, <1>5
<1>7. /\ SumFunctionOnSet(g, S) <= SumFunctionOnSet(m, S)
      /\ SumFunctionOnSet(m, S) <= SumFunctionOnSet(k, S)
  BY <1>6, SumOnSetMonotone
<1>8. SumFunctionOnSet(w, S) \in Nat /\ SumFunctionOnSet(m, S) \in Nat
  BY <1>1, SumOfNats
<1>9. QED BY <1>3, <1>4, <1>7, <1>8

LEMMA AveragesInRange == HistoryInv => History!TwapInRange
<1> SUFFICES ASSUME HistoryInv, NEW period \in 1 .. TIER_MEDIUM_SECS,
                    NEW twap, twap = History!calculate_twap(period),
                    History!PeriodAllowed(period), twap.total_weight # 0
             PROVE  /\ \A w \in twap.weights : w >= 0
                    /\ twap.weighted_sum \in History!Min(twap.closes) * twap.total_weight
                                          .. History!Max(twap.closes) * twap.total_weight
  BY DEF History!TwapInRange
<1>1. period \in Nat /\ period <= MAX_HISTORY_RETENTION
  BY HistoryNumbers DEF History!PeriodAllowed
<1>2. PICK h : h = History!get_price_history("OneMinute", clock - period, clock)
  OBVIOUS
<1>3. WindowOK(h)
  BY <1>1, <1>2, WindowHolds
<1>4. PICK S, v, w, m : S = LaterIn(h) /\ v = ClosesIn(h) /\ w = WeightsIn(h) /\ m = ProductsIn(h)
  OBVIOUS
<1>5. /\ twap.weights = {WeightIn(h, t) : t \in S}
      /\ twap.total_weight = SumFunctionOnSet(w, S)
      /\ twap.weighted_sum = SumFunctionOnSet(m, S)
      /\ twap.closes = {h[t].close : t \in DOMAIN h}
  BY <1>2, <1>4, TwapSums
<1>6. S \subseteq DOMAIN h /\ IsFiniteSet(S)
  BY <1>3, <1>4, FS_Subset DEF LaterIn, WindowOK
<1>7. \A t \in S : /\ v[t] = PreviousTo(h, t).close /\ v[t] \in Nat /\ w[t] = WeightIn(h, t) /\ w[t] \in Nat
                   /\ m[t] = v[t] * w[t]
  BY <1>3, <1>4, PreviousEarlier DEF ClosesIn, WeightsIn, ProductsIn
<1>8. S # {}
  BY <1>5, SumOnEmpty
<1>9. PICK C : C = {h[t].close : t \in DOMAIN h}
  OBVIOUS
<1>10. C \in SUBSET Nat /\ IsFiniteSet(C) /\ C # {}
  <2>1. PICK f : f = [t \in DOMAIN h |-> h[t].close]
    OBVIOUS
  <2>2. C = {f[t] : t \in DOMAIN h}
    BY <1>9, <2>1
  <2>3. IsFiniteSet(C)
    BY <1>3, <2>2, FiniteImage DEF WindowOK
  <2>4. QED BY <1>3, <1>6, <1>8, <1>9, <2>3 DEF WindowOK, Bucket
<1>11. PICK lo \in Nat, hi \in Nat : lo = History!Min(C) /\ hi = History!Max(C) /\ \A c \in C : lo <= c /\ c <= hi
  <2>1. History!Max(C) \in Nat /\ History!Min(C) \in Nat /\ \A c \in C : History!Min(C) <= c /\ c <= History!Max(C)
    BY <1>10, Extremes
  <2>2. QED BY <2>1
<1>12. \A t \in S : lo <= v[t] /\ v[t] <= hi
  <2>1. ASSUME NEW t \in S PROVE v[t] \in C
    BY <1>3, <1>4, <1>7, <1>9, PreviousEarlier
  <2>2. QED BY <1>11, <2>1
<1>13. /\ SumFunctionOnSet(w, S) \in Nat /\ SumFunctionOnSet(m, S) \in Nat
       /\ lo * SumFunctionOnSet(w, S) <= SumFunctionOnSet(m, S)
       /\ SumFunctionOnSet(m, S) <= hi * SumFunctionOnSet(w, S)
  <2>1. \A t \in S : /\ v[t] \in Nat /\ w[t] \in Nat /\ m[t] = v[t] * w[t]
                     /\ lo <= v[t] /\ v[t] <= hi
    BY <1>7, <1>12
  <2>2. QED BY <1>6, <2>1, WeightedBetween
<1>14. \A x \in twap.weights : x >= 0
  BY <1>5, <1>7
<1>15. twap.weighted_sum \in lo * twap.total_weight .. hi * twap.total_weight
  <2>1. PICK a, b, W, M : a = lo * W /\ b = hi * W /\ W = SumFunctionOnSet(w, S) /\ M = SumFunctionOnSet(m, S)
    OBVIOUS
  <2>2. \A i, j \in Nat : i * j \in Nat
    OBVIOUS
  <2>3. a \in Nat /\ b \in Nat /\ M \in Nat /\ a <= M /\ M <= b
    BY <1>13, <2>1, <2>2
  <2>4. M \in a .. b
    BY <2>3
  <2>5. QED BY <1>5, <2>1, <2>4
<1>16. QED BY <1>5, <1>9, <1>11, <1>14, <1>15

-----------------------------------------------------------------------------
(* The history and the stream: nothing false is served *)

\* What a fold over an archive adds up, as a sum of a function.
LEMMA EntriesCounted ==
  /\ History!EntriesOf(store.live["OneMinute"], LAMBDA i : store.live["OneMinute"][i].entry_count)
       = SumFunction(CountsIn(store.live["OneMinute"]))
  /\ History!EntriesOf(store.medium, LAMBDA w : store.medium[w].raw_entry_count)
       = SumFunction(RawCountsIn(store.medium))
  /\ History!EntriesOf(store.historical, LAMBDA d : store.historical[d].raw_entry_count)
       = SumFunction(RawCountsIn(store.historical))
<1>1. ASSUME NEW m
      PROVE  History!EntriesOf(m, LAMBDA i : m[i].entry_count)
               = SumFunctionOnSet([i \in DOMAIN m |-> m[i].entry_count], DOMAIN m)
  BY DEF History!EntriesOf, History!MapThenSumSet, History!MapThenFoldSet,
         SumFunctionOnSet, FoldFunctionOnSet, MapThenFoldSet
<1>2. ASSUME NEW m
      PROVE  History!EntriesOf(m, LAMBDA i : m[i].raw_entry_count)
               = SumFunctionOnSet([i \in DOMAIN m |-> m[i].raw_entry_count], DOMAIN m)
  BY DEF History!EntriesOf, History!MapThenSumSet, History!MapThenFoldSet,
         SumFunctionOnSet, FoldFunctionOnSet, MapThenFoldSet
<1>3. \A m : /\ SumFunction(CountsIn(m)) = SumFunctionOnSet([i \in DOMAIN m |-> m[i].entry_count], DOMAIN m)
             /\ SumFunction(RawCountsIn(m)) = SumFunctionOnSet([i \in DOMAIN m |-> m[i].raw_entry_count], DOMAIN m)
  BY DEF SumFunction, CountsIn, RawCountsIn
<1>4. QED BY <1>1, <1>2, <1>3

LEMMA HistoryIsTrue ==
  HistoryInv => History!CountedOnce /\ History!TwapInRange /\ History!CacheIsFresh
<1> SUFFICES ASSUME HistoryInv PROVE History!CountedOnce /\ History!TwapInRange /\ History!CacheIsFresh
  OBVIOUS
<1>1. History!CountedOnce
  BY EntriesCounted DEF History!CountedOnce, HistoryInv, Entries
<1>2. History!CacheIsFresh
  BY DEF History!CacheIsFresh, HistoryInv
<1>3. QED BY <1>1, <1>2, AveragesInRange

LEMMA StreamMoves == Stream!StreamInv /\ [MCNext]_allVars => Stream!StreamInv'
<1> SUFFICES ASSUME Stream!StreamInv, [MCNext]_allVars PROVE Stream!StreamInv'
  OBVIOUS
<1>1. [Stream!StreamNext]_(Stream!streamVars)
  BY ContractsMove DEF streamVars, Stream!streamVars
<1>2. QED BY <1>1, StreamInputs, Stream!StreamStep

(* However late prices arrive and however archiving and pushing interleave:   *)
(* a price counts once, an average lies among the closes it is made of, the   *)
(* cache is never older than the last price, and a client that is caught up   *)
(* shows the latest.                                                          *)
THEOREM PricesAreAlwaysTrue == MCSpec => []PricesAreTrue
<1>1. HistoryInv /\ Stream!StreamInv => PricesAreTrue
  BY HistoryIsTrue, Stream!CaughtUpShowsLast DEF PricesAreTrue
<1>2. HistoryInv /\ [MCNext]_allVars => HistoryInv'
  <2> SUFFICES ASSUME HistoryInv, [MCNext]_allVars PROVE HistoryInv'
    OBVIOUS
  <2>1. CASE UNCHANGED historyVars
    BY <2>1 DEF HistoryInv, historyVars, History!Before, Entries
  <2>2. QED BY <2>1, HistoryStep, ContractsMove
<1>3. MCInit => HistoryInv /\ Stream!StreamInv
  BY HistoryInitial, Stream!StreamInitial DEF MCInit
<1>4. QED BY <1>1, <1>2, <1>3, StreamMoves, PTL DEF MCSpec
=============================================================================
