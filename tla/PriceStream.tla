---------------------------- MODULE PriceStream ----------------------------
(***************************************************************************)
(* The price stream of api/ws.rs: one broadcaster and the tasks that serve *)
(* the clients of /ws/prices. A push records the price and sends it into a *)
(* bounded broadcast channel, under one lock. A client subscribes to the   *)
(* channel, then gets a snapshot, then updates as they come; one that lags *)
(* behind loses the oldest. The price of a push is its number: what        *)
(* matters of a price is which push it came from.                          *)
(***************************************************************************)
EXTENDS Integers, Sequences, FiniteSetsExt, WellFoundedInduction, TLAPS

CONSTANTS
  StreamAssets, Clients,
  Premium,                   \* the clients whose key is "premium-api-key"
  ChannelSize,               \* 256
  MaxPushes                  \* a bound of the model

PriceStreamAssumption ==
  /\ Premium \subseteq Clients
  /\ ChannelSize \in Nat \ {0}
  /\ MaxPushes \in Nat

VARIABLES
  log,                       \* the assets of all pushes; the channel holds the last few
  clients

streamVars == <<log, clients>>

\* next is the position of the receiver in the log; shown what the client was
\* last sent of each asset; whole is FALSE once an update was lost or dropped.
ClientType ==
  [phase : {"away", "connecting", "open"}, next : 1 .. MaxPushes + 1,
   shown : [StreamAssets -> 0 .. MaxPushes], whole : BOOLEAN]

Away == [phase |-> "away", next |-> 1, shown |-> [a \in StreamAssets |-> 0], whole |-> TRUE]

StreamInit == log = <<>> /\ clients = [c \in Clients |-> Away]

\* last_prices: the last push of an asset, 0 before the first.
last_prices == [a \in StreamAssets |-> Max({0} \cup {i \in DOMAIN log : log[i] = a})]

-----------------------------------------------------------------------------
push(a) ==
  /\ Len(log) < MaxPushes
  /\ log' = Append(log, a)
  /\ UNCHANGED clients

\* A receiver sees what is sent from now on.
subscribe(c) ==
  /\ clients[c].phase = "away"
  /\ clients' = [clients EXCEPT ![c] = [Away EXCEPT !.phase = "connecting", !.next = Len(log) + 1]]
  /\ UNCHANGED log

\* Mutant: the receiver is made once the snapshot was sent.
SubscribedAfterwards(c) ==
  /\ clients[c].phase = "connecting"
  /\ \E late \in clients[c].next .. Len(log) + 1 :
       clients' = [clients EXCEPT ![c].phase = "open", ![c].next = late,
                                  ![c].shown = [a \in StreamAssets |->
                                     Max({0} \cup {i \in 1 .. clients[c].next - 1 : log[i] = a})]]
  /\ UNCHANGED log

\* The await of snapshot() lies between: pushes may have come meanwhile.
snapshot(c) ==
  /\ clients[c].phase = "connecting"
  /\ clients' = [clients EXCEPT ![c].phase = "open", ![c].shown = last_prices]
  /\ UNCHANGED log

\* A subscribe message: the latest prices of the assets it names.
Resubscribed(c, assets) ==
  /\ clients[c].phase = "open"
  /\ clients' = [clients EXCEPT ![c].shown =
       [a \in StreamAssets |-> IF a \in assets THEN last_prices[a] ELSE @[a]]]
  /\ UNCHANGED log

Behind(c) == clients[c].phase = "open" /\ clients[c].next <= Len(log)

Lagged(c) == Len(log) - clients[c].next >= ChannelSize

\* RecvError::Lagged: the receiver goes on at the oldest update the channel holds.
Skip(c) ==
  /\ Behind(c) /\ Lagged(c)
  /\ clients' = [clients EXCEPT ![c].next = Len(log) - ChannelSize + 1, ![c].whole = FALSE]
  /\ UNCHANGED log

\* Mutant: nobody is exempt from the throttle.
AnyoneThrottled(c) == TRUE

Throttled(c) == c \notin Premium

\* Before throttle_ms are over, the update is dropped and not sent later.
Receive(c) ==
  /\ Behind(c) /\ ~Lagged(c)
  /\ \/ clients' = [clients EXCEPT ![c].next = @ + 1,
                                   ![c].shown[log[clients[c].next]] = clients[c].next]
     \/ /\ Throttled(c)
        /\ clients' = [clients EXCEPT ![c].next = @ + 1, ![c].whole = FALSE]
  /\ UNCHANGED log

\* A close message, the end of the stream or an error in sending.
Close(c) ==
  /\ clients[c].phase # "away"
  /\ clients' = [clients EXCEPT ![c] = Away]
  /\ UNCHANGED log

Serve(c) == snapshot(c) \/ Skip(c) \/ Receive(c)

StreamNext ==
  \/ \E a \in StreamAssets : push(a)
  \/ \E c \in Clients :
       \/ subscribe(c) \/ Serve(c) \/ Close(c)
       \/ \E assets \in SUBSET StreamAssets \ {{}} : Resubscribed(c, assets)

\* The runtime polls a task whose channel has an update: select! starves
\* neither branch, and a client takes what it is sent or is closed.
StreamFairness == \A c \in Clients : WF_streamVars(Serve(c))

StreamSpec == StreamInit /\ [][StreamNext]_streamVars /\ StreamFairness

-----------------------------------------------------------------------------
(* A client that received all there is, and lost nothing, shows the latest    *)
(* price of every asset, whatever was pushed between its subscription and its *)
(* snapshot.                                                                  *)
NothingMissed ==
  \A c \in Clients :
    clients[c].phase = "open" /\ ~Behind(c) /\ clients[c].whole => clients[c].shown = last_prices

(* Once pushes pause, a premium client that stays is shown the last of them,  *)
(* however far it lagged behind and whatever it lost.                         *)
PremiumCatchesUp ==
  \A c \in Premium :
    clients[c].phase # "away"
      ~> (clients[c].phase = "away" \/ (log # <<>> => clients[c].shown[log[Len(log)]] = Len(log)))

-----------------------------------------------------------------------------
StreamTypeOK == log \in Seq(StreamAssets) /\ clients \in [Clients -> [
  phase : {"away", "connecting", "open"}, next : Nat, shown : [StreamAssets -> Nat], whole : BOOLEAN]]

Pushes(a) == {i \in DOMAIN log : log[i] = a}

\* What an open client that lost nothing was shown: prices of the asset that
\* were pushed, none older than what its receiver is past.
Keeps(c) ==
  /\ clients[c].next \in 1 .. Len(log) + 1
  /\ clients[c].phase = "open" /\ clients[c].whole =>
       \A a \in StreamAssets :
         /\ clients[c].shown[a] \in {0} \cup Pushes(a)
         /\ \A i \in Pushes(a) : i < clients[c].next => i <= clients[c].shown[a]

StreamInv == StreamTypeOK /\ \A c \in Clients : Keeps(c)

(* Numbers up to n have a greatest one: the least of their upper bounds.      *)
LEMMA Greatest ==
  ASSUME NEW n \in Nat, NEW S \in SUBSET (0 .. n), S # {}
  PROVE  Max(S) \in S /\ \A i \in S : i <= Max(S)
<1> DEFINE Above == {k \in 0 .. n : \A i \in S : i <= k}
<1>1. IsWellFoundedOn(OpToRel(<, Nat), Nat)
  BY NatLessThanWellFounded
<1>2. n \in Above /\ Above \subseteq Nat
  OBVIOUS
<1>3. PICK m \in Above : \A k \in Above : ~(<<k, m>> \in OpToRel(<, Nat))
  <2> HIDE DEF Above
  <2>1. QED BY <1>1, <1>2, WFMin, Zenon
<1>4. \A k \in Above : ~(k < m)
  BY <1>2, <1>3 DEF OpToRel
<1>5. m \in S
  <2>1. SUFFICES ASSUME m \notin S PROVE FALSE
    OBVIOUS
  <2>2. \A i \in S : i < m
    BY <2>1
  <2>3. m \in Nat /\ m # 0 /\ m <= n
    <3>1. PICK i \in S : i \in 0 .. n /\ i < m
      BY <2>2
    <3>2. QED BY <3>1
  <2>4. m - 1 \in Above
    BY <2>2, <2>3
  <2>5. QED BY <1>4, <2>3, <2>4
<1>6. QED BY <1>5 DEF Max

LEMMA LastPush ==
  ASSUME StreamTypeOK, NEW a \in StreamAssets
  PROVE  /\ last_prices[a] \in {0} \cup Pushes(a)
         /\ last_prices[a] \in Nat
         /\ \A i \in Pushes(a) : i <= last_prices[a]
<1>1. Len(log) \in Nat /\ DOMAIN log = 1 .. Len(log)
  BY DEF StreamTypeOK
<1>2. {0} \cup Pushes(a) \subseteq 0 .. Len(log)
  BY <1>1 DEF Pushes
<1>3. last_prices[a] = Max({0} \cup Pushes(a))
  BY DEF last_prices, Pushes
<1> DEFINE S == {0} \cup Pushes(a)
<1>4. S \in SUBSET (0 .. Len(log)) /\ S # {}
  BY <1>2
<1> HIDE DEF S
<1>5. Max(S) \in S /\ \A i \in S : i <= Max(S)
  BY <1>1, <1>4, Greatest
<1>6. last_prices[a] = Max(S) /\ Max(S) \in Nat
  <2>1. last_prices[a] = Max(S)
    BY <1>3 DEF S
  <2>2. S \subseteq Nat
    BY <1>1, <1>4
  <2>3. QED BY <1>5, <2>1, <2>2
<1>7. QED BY <1>5, <1>6 DEF S

LEMMA StreamInitial == StreamInit => StreamInv
BY DEF StreamInit, StreamInv, StreamTypeOK, Keeps, Away

(* A push is news to every receiver: none is past it.                         *)
LEMMA PushStep ==
  ASSUME StreamInv, NEW a \in StreamAssets, push(a)
  PROVE  StreamInv'
<1>1. /\ log \in Seq(StreamAssets) /\ Len(log) \in Nat
      /\ log' = Append(log, a) /\ clients' = clients
  BY DEF StreamInv, StreamTypeOK, push
<1>2. /\ log' \in Seq(StreamAssets) /\ Len(log') = Len(log) + 1
      /\ DOMAIN log = 1 .. Len(log) /\ DOMAIN log' = 1 .. Len(log) + 1
      /\ \A i \in 1 .. Len(log) : log'[i] = log[i]
  BY <1>1
<1>3. \A b \in StreamAssets :
        Pushes(b) \subseteq Pushes(b)' /\ \A i \in Pushes(b)' : i \in Pushes(b) \/ i = Len(log) + 1
  BY <1>2 DEF Pushes
<1>4. ASSUME NEW c \in Clients PROVE Keeps(c)'
  <2>1. Keeps(c) /\ clients[c].next \in 1 .. Len(log) + 1
    BY DEF StreamInv, Keeps
  <2>2. QED BY <1>1, <1>2, <1>3, <2>1 DEF Keeps
<1>5. QED BY <1>1, <1>2, <1>4 DEF StreamInv, StreamTypeOK

(* What a client does moves its own receiver only.                            *)
LEMMA OwnStep ==
  ASSUME StreamInv, NEW c \in Clients, UNCHANGED log,
         NEW r \in [phase : {"away", "connecting", "open"}, next : Nat,
                    shown : [StreamAssets -> Nat], whole : BOOLEAN],
         clients' = [clients EXCEPT ![c] = r],
         r.next \in 1 .. Len(log) + 1,
         r.phase = "open" /\ r.whole =>
           \A a \in StreamAssets :
             /\ r.shown[a] \in {0} \cup Pushes(a)
             /\ \A i \in Pushes(a) : i < r.next => i <= r.shown[a]
  PROVE  StreamInv'
<1>1. StreamTypeOK'
  BY DEF StreamInv, StreamTypeOK
<1>2. ASSUME NEW d \in Clients PROVE Keeps(d)'
  <2>1. \A a : Pushes(a)' = Pushes(a)
    BY DEF Pushes
  <2>2. CASE d = c
    <3>1. clients'[d] = r
      BY <2>2 DEF StreamInv, StreamTypeOK
    <3>2. QED BY <2>1, <3>1 DEF Keeps
  <2>3. CASE d # c
    <3>1. clients'[d] = clients[d]
      BY <2>3 DEF StreamInv, StreamTypeOK
    <3>2. QED BY <2>1, <3>1 DEF Keeps, StreamInv
  <2>4. QED BY <2>2, <2>3
<1>3. QED BY <1>1, <1>2 DEF StreamInv

LEMMA ClientStep ==
  ASSUME PriceStreamAssumption, StreamInv, NEW c \in Clients,
         \/ subscribe(c) \/ Serve(c) \/ Close(c)
         \/ \E assets \in SUBSET StreamAssets \ {{}} : Resubscribed(c, assets)
  PROVE  StreamInv'
<1> DEFINE was == clients[c]
           Client == [phase : {"away", "connecting", "open"}, next : Nat,
                      shown : [StreamAssets -> Nat], whole : BOOLEAN]
<1>1. /\ was \in Client
      /\ Keeps(c) /\ log \in Seq(StreamAssets) /\ Len(log) \in Nat
      /\ DOMAIN log = 1 .. Len(log)
      /\ clients \in [Clients -> Client]
  BY DEF StreamInv, StreamTypeOK
<1>2. /\ last_prices \in [StreamAssets -> Nat]
      /\ \A a \in StreamAssets :
           last_prices[a] \in {0} \cup Pushes(a) /\ \A i \in Pushes(a) : i <= last_prices[a]
  <2>1. StreamTypeOK
    BY DEF StreamInv
  <2>2. \A a \in StreamAssets : last_prices[a] \in Nat
    BY <2>1, LastPush
  <2>3. QED BY <2>1, <2>2, LastPush DEF last_prices
<1>3. CASE subscribe(c)
  <2> DEFINE r == [Away EXCEPT !.phase = "connecting", !.next = Len(log) + 1]
  <2>1. /\ r \in Client
        /\ r.phase = "connecting" /\ r.next = Len(log) + 1
    <3>1. Len(log) + 1 \in Nat
      BY <1>1
    <3>2. Away \in Client
      BY DEF Away
    <3>3. QED BY <3>1, <3>2
  <2>2. clients' = [clients EXCEPT ![c] = r] /\ UNCHANGED log
    BY <1>3 DEF subscribe
  <2>3. r.next \in 1 .. Len(log) + 1
    BY <1>1, <2>1
  <2> HIDE DEF r
  <2>4. QED BY <2>1, <2>2, <2>3, OwnStep
<1>4. CASE snapshot(c)
  <2> DEFINE r == [was EXCEPT !.phase = "open", !.shown = last_prices]
  <2>1. /\ r \in Client
        /\ r.next = was.next /\ r.shown = last_prices
    BY <1>1, <1>2
  <2>2. clients' = [clients EXCEPT ![c] = r] /\ UNCHANGED log
    BY <1>1, <1>4 DEF snapshot
  <2>3. r.next \in 1 .. Len(log) + 1
    BY <1>1, <2>1 DEF Keeps
  <2> HIDE DEF r
  <2>4. QED BY <1>1, <1>2, <2>1, <2>2, <2>3, OwnStep
<1>5. CASE Skip(c)
  <2> DEFINE oldest == Len(log) - ChannelSize + 1
             r == [was EXCEPT !.next = oldest, !.whole = FALSE]
  <2>1. oldest \in 1 .. Len(log) + 1 /\ oldest \in Nat
    <3>1. /\ was.next >= 1 /\ Len(log) - was.next >= ChannelSize /\ ChannelSize \in Nat
          /\ was.next \in Nat
      BY <1>1, <1>5 DEF Skip, Lagged, Keeps, PriceStreamAssumption
    <3>2. QED BY <1>1, <3>1
  <2>3. clients' = [clients EXCEPT ![c] = r] /\ UNCHANGED log
    BY <1>1, <1>5 DEF Skip
  <2> HIDE DEF oldest
  <2>2. /\ r \in Client
        /\ r.next \in 1 .. Len(log) + 1 /\ r.whole = FALSE
    BY <1>1, <2>1
  <2> HIDE DEF r
  <2>4. QED BY <1>1, <2>2, <2>3, OwnStep
<1>6. CASE Receive(c)
  <2>1. /\ was.phase = "open" /\ was.next \in 1 .. Len(log) /\ log[was.next] \in StreamAssets
        /\ UNCHANGED log
    BY <1>1, <1>6 DEF Receive, Behind, Keeps
  <2>2. CASE clients' = [clients EXCEPT ![c].next = @ + 1,
                                        ![c].shown[log[clients[c].next]] = clients[c].next]
    <3> DEFINE past == was.next + 1
               seen == [was.shown EXCEPT ![log[was.next]] = was.next]
               r == [was EXCEPT !.next = past, !.shown = seen]
    <3>0. /\ past \in Nat /\ seen \in [StreamAssets -> Nat]
          /\ clients' = [clients EXCEPT ![c] = r]
      <4>1. past \in Nat /\ seen \in [StreamAssets -> Nat]
        BY <1>1, <2>1
      <4>2. clients' = [clients EXCEPT ![c] = r]
        BY <1>1, <2>2
      <4>3. QED BY <4>1, <4>2
    <3> HIDE DEF past, seen
    <3>1. /\ r \in Client
          /\ r.next = past /\ r.whole = was.whole /\ r.shown = seen
      BY <1>1, <3>0
    <3>2. /\ r.next = was.next + 1
          /\ r.shown = [was.shown EXCEPT ![log[was.next]] = was.next]
      BY <3>1 DEF past, seen
    <3>3. r.next \in 1 .. Len(log) + 1
      BY <1>1, <2>1, <3>2
    <3> HIDE DEF r
    <3>4. ASSUME r.whole, NEW a \in StreamAssets
          PROVE  /\ r.shown[a] \in {0} \cup Pushes(a)
                 /\ \A i \in Pushes(a) : i < r.next => i <= r.shown[a]
      <4>1. /\ was.shown[a] \in {0} \cup Pushes(a)
            /\ \A i \in Pushes(a) : i < was.next => i <= was.shown[a]
        BY <1>1, <2>1, <3>1, <3>4 DEF Keeps
      <4>2. CASE a = log[was.next]
        <5>1. r.shown[a] = was.next /\ was.next \in Pushes(a)
          BY <1>1, <2>1, <3>2, <4>2 DEF Pushes
        <5>2. Pushes(a) \subseteq Nat
          BY <1>1 DEF Pushes
        <5>3. QED BY <1>1, <2>1, <3>2, <5>1, <5>2
      <4>3. CASE a # log[was.next]
        <5>1. r.shown[a] = was.shown[a] /\ was.next \notin Pushes(a)
          BY <1>1, <2>1, <3>2, <4>3 DEF Pushes
        <5>2. Pushes(a) \subseteq Nat
          BY <1>1 DEF Pushes
        <5>3. QED BY <1>1, <2>1, <3>2, <4>1, <5>1, <5>2
      <4>4. QED BY <4>2, <4>3
    <3>5. QED BY <2>1, <3>0, <3>1, <3>3, <3>4, OwnStep
  <2>3. CASE clients' = [clients EXCEPT ![c].next = @ + 1, ![c].whole = FALSE]
    <3> DEFINE past == was.next + 1
               r == [was EXCEPT !.next = past, !.whole = FALSE]
    <3>0. /\ past \in Nat /\ past \in 1 .. Len(log) + 1
          /\ clients' = [clients EXCEPT ![c] = r]
      <4>1. past \in Nat /\ past \in 1 .. Len(log) + 1
        BY <1>1, <2>1
      <4>2. clients' = [clients EXCEPT ![c] = r]
        BY <1>1, <2>3
      <4>3. QED BY <4>1, <4>2
    <3> HIDE DEF past
    <3>1. /\ r \in Client
          /\ r.next = past /\ r.whole = FALSE
      BY <1>1, <3>0
    <3> HIDE DEF r
    <3>2. QED BY <2>1, <3>0, <3>1, OwnStep
  <2>4. QED BY <1>6, <2>2, <2>3 DEF Receive
<1>7. CASE Close(c)
  <2>1. /\ Away \in Client
        /\ Away.phase = "away" /\ Away.next \in 1 .. Len(log) + 1
    BY <1>1 DEF Away
  <2>2. clients' = [clients EXCEPT ![c] = Away] /\ UNCHANGED log
    BY <1>7 DEF Close
  <2>3. QED BY <2>1, <2>2, OwnStep
<1>8. ASSUME NEW assets \in SUBSET StreamAssets, Resubscribed(c, assets) PROVE StreamInv'
  <2> DEFINE sent == [a \in StreamAssets |-> IF a \in assets THEN last_prices[a] ELSE was.shown[a]]
             r == [was EXCEPT !.shown = sent]
  <2>1. sent \in [StreamAssets -> Nat]
    BY <1>1, <1>2
  <2>2. /\ r \in Client
        /\ r.next = was.next /\ r.whole = was.whole /\ r.shown = sent /\ r.phase = was.phase
    BY <1>1, <2>1
  <2>3. clients' = [clients EXCEPT ![c] = r] /\ UNCHANGED log
    BY <1>1, <1>8 DEF Resubscribed
  <2>4. r.next \in 1 .. Len(log) + 1
    BY <1>1, <2>2 DEF Keeps
  <2>5. ASSUME r.phase = "open", r.whole, NEW a \in StreamAssets
        PROVE  /\ sent[a] \in {0} \cup Pushes(a)
               /\ \A i \in Pushes(a) : i < r.next => i <= sent[a]
    BY <1>1, <1>2, <2>2, <2>5 DEF Keeps
  <2> HIDE DEF r, sent
  <2>6. QED BY <2>2, <2>3, <2>4, <2>5, OwnStep
<1>9. QED BY <1>3, <1>4, <1>5, <1>6, <1>7, <1>8 DEF Serve

LEMMA StreamStep == PriceStreamAssumption /\ StreamInv /\ [StreamNext]_streamVars => StreamInv'
<1> SUFFICES ASSUME PriceStreamAssumption, StreamInv, [StreamNext]_streamVars PROVE StreamInv'
  OBVIOUS
<1>1. CASE UNCHANGED streamVars
  BY <1>1 DEF streamVars, StreamInv, StreamTypeOK, Keeps, Pushes
<1>2. CASE StreamNext
  BY <1>2, PushStep, ClientStep DEF StreamNext
<1>3. QED BY <1>1, <1>2

LEMMA CaughtUpShowsLast == StreamInv => NothingMissed
<1> SUFFICES ASSUME StreamInv, NEW c \in Clients,
                    clients[c].phase = "open", ~Behind(c), clients[c].whole
             PROVE  clients[c].shown = last_prices
  BY DEF NothingMissed
<1>1. /\ StreamTypeOK /\ Keeps(c) /\ Len(log) \in Nat /\ DOMAIN log = 1 .. Len(log)
      /\ clients[c].shown \in [StreamAssets -> Nat] /\ clients[c].next \in Nat
  BY DEF StreamInv, StreamTypeOK
<1>2. clients[c].next > Len(log)
  BY <1>1 DEF Behind
<1>3. ASSUME NEW a \in StreamAssets PROVE clients[c].shown[a] = last_prices[a]
  <2>1. /\ clients[c].shown[a] \in {0} \cup Pushes(a)
        /\ \A i \in Pushes(a) : i <= clients[c].shown[a]
    BY <1>1, <1>2 DEF Keeps, Pushes
  <2>2. /\ last_prices[a] \in {0} \cup Pushes(a)
        /\ \A i \in Pushes(a) : i <= last_prices[a]
    BY <1>1, LastPush
  <2>3. Pushes(a) \subseteq Nat \ {0}
    BY <1>1 DEF Pushes
  <2>4. QED BY <2>1, <2>2, <2>3
<1>4. QED BY <1>1, <1>3 DEF last_prices

(* Whatever is pushed, and whenever a client subscribes, lags or subscribes   *)
(* again: if it lost nothing and received all there is, it shows the latest   *)
(* price of every asset, at any number of clients and any channel size.       *)
THEOREM StreamMissesNothing ==
  ASSUME PriceStreamAssumption
  PROVE  StreamSpec => []NothingMissed
<1>1. StreamInv /\ [StreamNext]_streamVars => StreamInv'
  BY StreamStep
<1>2. QED BY <1>1, StreamInitial, CaughtUpShowsLast, PTL DEF StreamSpec
=============================================================================
